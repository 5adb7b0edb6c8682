---------------------------- MODULE Credentials -----------------------------
(***************************************************************************)
(* The anonymous credentials of the agent API, over the registry contract: *)
(* POST /credentials/buy hands out the next credential of a pool and makes *)
(* sure that the pool's root is the registry's; POST /inference and        *)
(* POST /zk/verify spend one by a transaction that burns its nullifier,    *)
(* and the former then answers a prompt.                                   *)
(*                                                                         *)
(* All spending transactions are sent from one operator account, so that   *)
(* two requests that read the same sequence number in the same second      *)
(* build the same transaction.  Requests whose proof does not convince end *)
(* at the simulation and are left out, as are payments (module Payments).  *)
(* A root chosen by the client is refused in production.                   *)
(***************************************************************************)
EXTENDS Verifier, FiniteSets

CONSTANTS
    Circuit,            \* access_credential_v1
    PoolRoot,           \* SHARED_ROOT
    Requests,           \* the requests that can be in progress together
    Stamps,             \* the seconds in which a transaction may be built
    MaxSequence         \* bounds the operator's sequence number

VARIABLES
    allocated,          \* allocated
    sold,               \* the credentials handed out since the process started
    soldAgain,          \* those handed out twice since then
    publishing,         \* a root transaction is on its way that nobody waits for
    sequence,           \* the operator's sequence number
    sent,               \* the spending transactions on their way
    succeeded, failed,  \* those that were included in a ledger
    answered,           \* how many prompts were answered for each credential
    sharing,            \* how many requests for an answer had the transaction
                        \* that burnt it in hand when it did
    desk                \* each request: the await it is at, and what it read

shopVars == <<allocated, sold, soldAgain, publishing>>
chainVars == <<sequence, sent, succeeded, failed>>
answerVars == <<answered, sharing>>
vars == <<registryVars, shopVars, chainVars, answerVars, desk>>

Idle == [pc |-> "idle"]

At(r, pc) == desk[r].pc = pc

Become(r, state) == desk' = [desk EXCEPT ![r] = state]

Goto(r, pc) == Become(r, [desk[r] EXCEPT !.pc = pc])

Init ==
    /\ RegistryInit
    /\ allocated = {}
    /\ sold = {}
    /\ soldAgain = {}
    /\ publishing = FALSE
    /\ sequence = 0
    /\ sent = {}
    /\ succeeded = {}
    /\ failed = {}
    /\ answered = [n \in Nullifiers |-> 0]
    /\ sharing = [n \in Nullifiers |-> 0]
    /\ desk = [r \in Requests |-> Idle]

-----------------------------------------------------------------------------
(* POST /credentials/buy.                                                  *)

\* Mutant: the credential is only taken once its root is live.
AllocateLater(r, n) ==
    /\ At(r, "idle")
    /\ n \notin allocated
    /\ Become(r, [pc |-> "root", n |-> n])
    /\ UNCHANGED <<registryVars, shopVars, chainVars, answerVars>>

\* The choice and the allocation are one step, without an await between them.
Allocate(r, n) ==
    /\ At(r, "idle")
    /\ n \notin allocated
    /\ allocated' = allocated \cup {n}
    /\ Become(r, [pc |-> "root", n |-> n])
    /\ UNCHANGED <<registryVars, sold, soldAgain, publishing, chainVars, answerVars>>

Deliver(r) ==
    LET n == desk[r].n IN
    /\ sold' = sold \cup {n}
    /\ soldAgain' = soldAgain \cup ({n} \cap sold)
    /\ Become(r, Idle)

\* The answer 502 takes the allocation back.
RollBack(r) ==
    /\ allocated' = allocated \ {desk[r].n}
    /\ Become(r, Idle)

\* fetchReputationRoot; when it cannot be read the root is published again.
FetchRoot(r) ==
    /\ At(r, "root")
    /\ \/ root = PoolRoot /\ Deliver(r)
       \/ Goto(r, "publish") /\ UNCHANGED <<sold, soldAgain>>
    /\ UNCHANGED <<registryVars, allocated, publishing, chainVars, answerVars>>

\* setReputationRoot: it is included and seen, included and not seen, or not
\* included while it is waited for.
Publish(r) ==
    /\ At(r, "publish")
    /\ \/ SetReputationRoot(PoolRoot) /\ Deliver(r) /\ UNCHANGED <<allocated, publishing>>
       \/ SetReputationRoot(PoolRoot) /\ RollBack(r) /\ UNCHANGED <<sold, soldAgain, publishing>>
       \/ /\ RollBack(r)
          /\ publishing' \in {publishing, TRUE}
          /\ UNCHANGED <<registryVars, sold, soldAgain>>
    /\ UNCHANGED <<chainVars, answerVars>>

RootIncluded ==
    /\ publishing
    /\ publishing' = FALSE
    /\ SetReputationRoot(PoolRoot)
    /\ UNCHANGED <<allocated, sold, soldAgain, chainVars, answerVars, desk>>

-----------------------------------------------------------------------------
(* Spending: invokeVerify, for an inference or for its own sake.           *)

Spend(r, n, route) ==
    /\ At(r, "idle")
    /\ Become(r, [pc |-> "check", n |-> n, route |-> route])
    /\ UNCHANGED <<registryVars, shopVars, chainVars, answerVars>>

CheckRoot(r) ==
    /\ At(r, "check")
    /\ root = PoolRoot
    /\ Goto(r, "account")
    /\ UNCHANGED <<registryVars, shopVars, chainVars, answerVars>>

\* getAccount, and the transaction built from its answer.
Build(r, stamp) ==
    /\ At(r, "account")
    /\ sequence < MaxSequence
    /\ Become(r, [pc |-> "simulate", route |-> desk[r].route,
                  tx |-> [n |-> desk[r].n, sequence |-> sequence + 1, stamp |-> stamp]])
    /\ UNCHANGED <<registryVars, shopVars, chainVars, answerVars>>

Simulate(r) ==
    /\ At(r, "simulate")
    /\ CanBurn(Circuit, desk[r].tx.n, TRUE)
    /\ Goto(r, "send")
    /\ UNCHANGED <<registryVars, shopVars, chainVars, answerVars>>

\* A transaction that is known already is a duplicate, which is no error.
Send(r) ==
    LET tx == desk[r].tx IN
    /\ At(r, "send")
    /\ tx.sequence > sequence \/ tx \in succeeded \cup failed
    /\ sent' = IF tx \in succeeded \cup failed THEN sent ELSE sent \cup {tx}
    /\ Goto(r, "poll")
    /\ UNCHANGED <<registryVars, shopVars, sequence, succeeded, failed, answerVars>>

\* Who sends or waits for a transaction to answer a prompt with.
Sharing(tx) ==
    {r \in Requests : /\ desk[r].pc \in {"send", "poll"}
                      /\ desk[r].route = "inference"
                      /\ desk[r].tx = tx}

\* The network includes the next transaction of the account, or none.
Include(tx) ==
    /\ tx.sequence = sequence + 1
    /\ sent' = sent \ {tx}
    /\ sequence' = sequence + 1
    /\ \/ /\ VerifyUnique(Circuit, tx.n, TRUE)
          /\ succeeded' = succeeded \cup {tx}
          /\ sharing' = [sharing EXCEPT ![tx.n] = Cardinality(Sharing(tx))]
          /\ UNCHANGED failed
       \/ /\ ~ CanBurn(Circuit, tx.n, TRUE)
          /\ failed' = failed \cup {tx}
          /\ UNCHANGED <<registryVars, succeeded, sharing>>
    /\ UNCHANGED <<shopVars, answered, desk>>

Drop(tx) ==
    /\ sent' = sent \ {tx}
    /\ UNCHANGED <<registryVars, shopVars, sequence, succeeded, failed, answerVars, desk>>

\* Mutant: what counts is that the transaction was included.
PollIncluded(r) ==
    /\ At(r, "poll")
    /\ desk[r].tx \in succeeded \cup failed
    /\ IF desk[r].route = "inference" THEN Goto(r, "answer") ELSE Become(r, Idle)
    /\ UNCHANGED <<registryVars, shopVars, chainVars, answerVars>>

Poll(r) ==
    /\ At(r, "poll")
    /\ desk[r].tx \in succeeded
    /\ IF desk[r].route = "inference" THEN Goto(r, "answer") ELSE Become(r, Idle)
    /\ UNCHANGED <<registryVars, shopVars, chainVars, answerVars>>

Answer(r) ==
    /\ At(r, "answer")
    /\ answered' = [answered EXCEPT ![desk[r].tx.n] = @ + 1]
    /\ Become(r, Idle)
    /\ UNCHANGED <<registryVars, shopVars, chainVars, sharing>>

\* The request is refused, fails or stops waiting, wherever its transaction is.
GiveUp(r) ==
    /\ \E pc \in {"check", "account", "simulate", "send", "poll", "answer"} : At(r, pc)
    /\ Become(r, Idle)
    /\ UNCHANGED <<registryVars, shopVars, chainVars, answerVars>>

-----------------------------------------------------------------------------
\* allocated is lost; the pool is sold again from its start.
Restart ==
    /\ allocated' = {}
    /\ sold' = {}
    /\ soldAgain' = {}
    /\ desk' = [r \in Requests |-> Idle]
    /\ UNCHANGED <<registryVars, publishing, chainVars, answerVars>>

\* Anyone may call the registry, the holder of a credential too.
SpendDirectly(n) ==
    /\ VerifyUnique(Circuit, n, TRUE)
    /\ UNCHANGED <<shopVars, chainVars, answerVars, desk>>

Admin ==
    /\ \/ Initialize
       \/ \E k \in Keys : RegisterCircuit(Circuit, k)
       \/ \E r \in Roots : SetReputationRoot(r)
    /\ UNCHANGED <<shopVars, chainVars, answerVars, desk>>

Next ==
    \/ \E r \in Requests :
        \/ \E n \in Nullifiers : Allocate(r, n)
        \/ FetchRoot(r) \/ Publish(r)
        \/ \E n \in Nullifiers, route \in {"inference", "verify"} : Spend(r, n, route)
        \/ CheckRoot(r) \/ \E stamp \in Stamps : Build(r, stamp)
        \/ Simulate(r) \/ Send(r) \/ Poll(r) \/ Answer(r) \/ GiveUp(r)
    \/ \E tx \in sent : Include(tx) \/ Drop(tx)
    \/ \E n \in Nullifiers : SpendDirectly(n)
    \/ RootIncluded \/ Restart \/ Admin

Spec == Init /\ [][Next]_vars

-----------------------------------------------------------------------------
(* Properties.                                                             *)

\* As long as the process lives, no credential is handed to two buyers, however
\* their requests overlap and whichever of them are rolled back.
SoldOnce == soldAgain = {}

\* A credential buys no more answers than there were requests that held, when
\* it was burnt, the very transaction that burnt it: a failed, dropped or late
\* transaction, another burn of it, a later request and a restart buy none.  Two
\* requests with one transaction buy two answers, although inference.ts has it
\* that a credential "can be used at most once".
AnsweredBySpend == \A n \in Nullifiers : answered[n] <= sharing[n]
=============================================================================
