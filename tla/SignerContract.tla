---------------------------- MODULE SignerContract ----------------------------
(***************************************************************************)
(* What the service as a whole promises: identities are bound to keys as   *)
(* IdentityContract says, a certificate is asked for only with a key that  *)
(* was announced, and every COSE object is signed with the bound key of    *)
(* its identity and names a certificate for that key.                      *)
(***************************************************************************)
EXTENDS IdentityContract

CONSTANTS NoUid, Certs, NoCert, KeyOf

VARIABLES
    certified,  \* <<uid, key>> a CSR was submitted for
    signed      \* the last COSE object: uid, key and kid

signerVars == <<bound, known, reported, certified, signed>>

NoSignature == [uid |-> NoUid, key |-> NoKey, kid |-> NoCert]

SignerInit == ContractInit /\ certified = {} /\ signed = NoSignature

Certify(u, k) ==
    /\ <<u, k>> \in known
    /\ certified' = certified \cup {<<u, k>>}
    /\ UNCHANGED <<bound, known, reported, signed>>

Sign(u, c) ==
    /\ bound[u] = KeyOf[c]
    /\ <<u, KeyOf[c]>> \in certified
    /\ signed' = [uid |-> u, key |-> bound[u], kid |-> c]
    /\ UNCHANGED <<bound, known, reported, certified>>

(* The answer is taken by the client. *)
Taken == signed' = NoSignature /\ UNCHANGED <<bound, known, reported, certified>>

SignerNext ==
    \/ ContractNext /\ UNCHANGED <<certified, signed>>
    \/ \E u \in Uids, k \in Keys : Certify(u, k)
    \/ \E u \in Uids, c \in Certs : Sign(u, c)
    \/ Taken

SignerSpec == SignerInit /\ [][SignerNext]_signerVars

=============================================================================
