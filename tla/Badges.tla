------------------------------- MODULE Badges -------------------------------
(***************************************************************************)
(* The badges contract: the admin mints badges, each to one recipient, and *)
(* every recipient has an index of its badges.  The same facts are stored  *)
(* three times: in the badges, in the indexes and in the next id.          *)
(*                                                                         *)
(* A call that fails changes nothing.  What a badge says (tier, time), the *)
(* events and the lifetime of entries are left out.                        *)
(***************************************************************************)
EXTENDS Integers, Sequences

CONSTANTS
    Recipients,         \* addresses
    BadgeIds            \* bounds the badges that are minted

VARIABLES
    ready,              \* DataKey::Admin is set
    nextBadgeId,        \* DataKey::NextBadgeId
    recipient,          \* DataKey::Badge: the recipient of each badge there is
    badgesOf            \* DataKey::BadgesByRecipient

badgeVars == <<ready, nextBadgeId, recipient, badgesOf>>

Init ==
    /\ ready = FALSE
    /\ nextBadgeId = 1
    /\ recipient = [i \in {} |-> 0]
    /\ badgesOf = [r \in Recipients |-> << >>]

-----------------------------------------------------------------------------
\* Mutant: initialize may be called again, which starts the ids afresh.
InitializeAgain ==
    /\ ready' = TRUE
    /\ nextBadgeId' = 1
    /\ UNCHANGED <<recipient, badgesOf>>

Initialize ==
    /\ ~ ready
    /\ ready' = TRUE
    /\ nextBadgeId' = 1
    /\ UNCHANGED <<recipient, badgesOf>>

\* Only by the admin.
Mint(r) ==
    /\ ready
    /\ nextBadgeId \in BadgeIds
    /\ recipient' = [i \in DOMAIN recipient \cup {nextBadgeId} |->
                        IF i = nextBadgeId THEN r ELSE recipient[i]]
    /\ badgesOf' = [badgesOf EXCEPT ![r] = Append(@, nextBadgeId)]
    /\ nextBadgeId' = nextBadgeId + 1
    /\ UNCHANGED ready

Next == Initialize \/ \E r \in Recipients : Mint(r)

Spec == Init /\ [][Next]_badgeVars

-----------------------------------------------------------------------------
(* What a client reads.                                                    *)

HasBadge(r, i) == i \in DOMAIN recipient /\ recipient[i] = r

\* The ids that get_badges looks up, and finds.
GetBadges(r) == {i \in DOMAIN recipient : \E n \in DOMAIN badgesOf[r] : badgesOf[r][n] = i}

-----------------------------------------------------------------------------
(* Properties.                                                             *)

\* The contract's storage is well formed.
TypeOK ==
    /\ ready \in BOOLEAN
    /\ nextBadgeId \in Nat \ {0}
    /\ DOMAIN recipient \subseteq Nat
    /\ \A i \in DOMAIN recipient : recipient[i] \in Recipients
    /\ badgesOf \in [Recipients -> Seq(Nat)]

\* The two readers agree: get_badges lists exactly the badges that has_badge
\* affirms, each of them once and in the order they were minted.
ReadersAgree ==
    \A r \in Recipients :
        /\ \A i \in 1..nextBadgeId : HasBadge(r, i) <=> i \in GetBadges(r)
        /\ \A m, n \in DOMAIN badgesOf[r] : m < n => badgesOf[r][m] < badgesOf[r][n]
=============================================================================
