--------------------------- MODULE IdentityContract ---------------------------
(***************************************************************************)
(* What the registration of identities promises.  A uid is bound to one    *)
(* key for ever, a key is announced to the key service before it is bound, *)
(* a key belongs to one uid, and a success is only reported for a key that *)
(* is bound.                                                               *)
(***************************************************************************)
CONSTANTS Uids, Keys, NoKey

VARIABLES
    bound,      \* [Uids -> Keys \cup {NoKey}]
    known,      \* <<uid, key>> announced to the key service
    reported    \* <<uid, key>> reported as created

contractVars == <<bound, known, reported>>

ContractInit ==
    /\ bound = [u \in Uids |-> NoKey]
    /\ known = {}
    /\ reported = {}

Announce(u, k) ==
    /\ known' = known \cup {<<u, k>>}
    /\ UNCHANGED <<bound, reported>>

Bind(u, k) ==
    /\ bound[u] = NoKey
    /\ <<u, k>> \in known
    /\ \A v \in Uids : bound[v] # k
    /\ bound' = [bound EXCEPT ![u] = k]
    /\ UNCHANGED <<known, reported>>

Report(u, k) ==
    /\ bound[u] = k
    /\ reported' = reported \cup {<<u, k>>}
    /\ UNCHANGED <<bound, known>>

ContractNext ==
    \E u \in Uids, k \in Keys : Announce(u, k) \/ Bind(u, k) \/ Report(u, k)

ContractSpec == ContractInit /\ [][ContractNext]_contractVars

=============================================================================
