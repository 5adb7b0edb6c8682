------------------------------ MODULE Verifier ------------------------------
(***************************************************************************)
(* The ZK verifier registry contract: verification keys per circuit, the   *)
(* Merkle root of the credentials, and the nullifiers that were burnt.     *)
(*                                                                         *)
(* A call either returns an error, and then changes nothing, or is one     *)
(* step.  What makes a proof convincing is cryptography: Provable says for *)
(* which keys and inputs a convincing proof exists, and a call may come    *)
(* with one or without.  The lifetime of stored entries is left out.       *)
(***************************************************************************)
EXTENDS Integers

CONSTANTS
    Circuits,           \* circuit ids
    Keys,               \* verification keys that parse
    Nullifiers,         \* last public inputs
    Roots,              \* Merkle roots
    Provable,           \* the pairs of a key and a nullifier with a proof
    NoKey,              \* a circuit that is not registered
    NoRoot              \* no root was set

VARIABLES
    initialized,        \* ADMIN_KEY is set
    keys,               \* VK_MAP: the key of each circuit
    root,               \* REP_ROOT
    used                \* the nullifiers with a persistent entry

registryVars == <<initialized, keys, root, used>>

RegistryInit ==
    /\ initialized = FALSE
    /\ keys = [c \in Circuits |-> NoKey]
    /\ root = NoRoot
    /\ used = {}

-----------------------------------------------------------------------------
Initialize ==
    /\ ~ initialized
    /\ initialized' = TRUE
    /\ UNCHANGED <<keys, root, used>>

\* The next two are the admin's.
RegisterCircuit(c, k) ==
    /\ initialized
    /\ keys' = [keys EXCEPT ![c] = k]
    /\ UNCHANGED <<initialized, root, used>>

SetReputationRoot(r) ==
    /\ initialized
    /\ root' = r
    /\ UNCHANGED <<initialized, keys, used>>

\* verify, which changes nothing.
Verifies(c, n, proof) == keys[c] # NoKey /\ proof /\ <<keys[c], n>> \in Provable

CanBurn(c, n, proof) == n \notin used /\ Verifies(c, n, proof)

\* One set of nullifiers for every circuit, and for every key it ever had.
VerifyUnique(c, n, proof) ==
    /\ CanBurn(c, n, proof)
    /\ used' = used \cup {n}
    /\ UNCHANGED <<initialized, keys, root>>

RegistryNext ==
    \/ Initialize
    \/ \E c \in Circuits, k \in Keys : RegisterCircuit(c, k)
    \/ \E r \in Roots : SetReputationRoot(r)
    \/ \E c \in Circuits, n \in Nullifiers, proof \in BOOLEAN : VerifyUnique(c, n, proof)

RegistrySpec == RegistryInit /\ [][RegistryNext]_registryVars

-----------------------------------------------------------------------------
(* Properties.                                                             *)

\* The registry's state is well formed.
RegistryTypeOK ==
    /\ initialized \in BOOLEAN
    /\ keys \in [Circuits -> Keys \cup {NoKey}]
    /\ root \in Roots \cup {NoRoot}
    /\ used \subseteq Nullifiers

\* A burnt nullifier stays burnt, and nothing but its own proof burns it: every
\* step burns at most one, which some key of a registered circuit can prove.
BurnsForGood ==
    [][/\ used \subseteq used'
       /\ \A n \in used' \ used :
            /\ used' = used \cup {n}
            /\ \E c \in Circuits : <<keys[c], n>> \in Provable
      ]_registryVars
=============================================================================
