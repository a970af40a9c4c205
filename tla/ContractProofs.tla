---------------------------- MODULE ContractProofs ----------------------------
(***************************************************************************)
(* What the two contracts mean, proved of them alone: whatever implements  *)
(* SignerContract has these properties, and CoseClientProofs shows that    *)
(* the service does.                                                       *)
(***************************************************************************)
EXTENDS SignerContract, TLAPS

ContractTypeOK ==
    /\ bound \in [Uids -> Keys \cup {NoKey}]
    /\ known \subseteq Uids \X Keys
    /\ reported \subseteq Uids \X Keys
    /\ certified \subseteq Uids \X Keys

(* Nothing is bound that was not announced, reported that is not bound, or    *)
(* certified that was not announced.                                          *)
AnnouncedFirst ==
    /\ \A u \in Uids : bound[u] # NoKey => <<u, bound[u]>> \in known
    /\ \A p \in reported : bound[p[1]] = p[2]
    /\ certified \subseteq known

(* A key is bound to one identity.                                            *)
BoundOnce ==
    \A u, v \in Uids : bound[u] # NoKey /\ bound[u] = bound[v] => u = v

(* A signature comes from the one key that is bound to its identity and was   *)
(* announced for it, and names a certificate that was asked for with the two. *)
SignedForBound ==
    \/ signed = NoSignature
    \/ /\ signed.uid \in Uids /\ signed.kid \in Certs
       /\ bound[signed.uid] = signed.key /\ KeyOf[signed.kid] = signed.key
       /\ <<signed.uid, signed.key>> \in certified \cap known

ContractInv == ContractTypeOK /\ AnnouncedFirst /\ BoundOnce /\ SignedForBound

(* A binding, an announcement, a report and a certificate are for ever.       *)
NothingTakenBack ==
    [][/\ \A u \in Uids : bound[u] # NoKey => bound'[u] = bound[u]
       /\ known \subseteq known' /\ reported \subseteq reported'
       /\ certified \subseteq certified']_signerVars

-----------------------------------------------------------------------------

(* A key is announced. *)
LEMMA AnnounceInv ==
    ASSUME NoKey \notin Keys, ContractInv, NEW u \in Uids, NEW k \in Keys, Announce(u, k),
           UNCHANGED <<certified, signed>>
    PROVE  ContractInv'
BY DEF Announce, ContractInv, ContractTypeOK, AnnouncedFirst, BoundOnce, SignedForBound,
       NoSignature

(* A key is bound to an identity that has none. *)
LEMMA BindInv ==
    ASSUME NoKey \notin Keys, KeyOf \in [Certs -> Keys], ContractInv,
           NEW u \in Uids, NEW k \in Keys, Bind(u, k), UNCHANGED <<certified, signed>>
    PROVE  ContractInv'
<1>1. /\ bound[u] = NoKey /\ <<u, k>> \in known /\ \A v \in Uids : bound[v] # k
      /\ UNCHANGED <<known, reported, certified, signed>>
  BY DEF Bind
<1>2. \A v \in Uids : bound'[v] = IF v = u THEN k ELSE bound[v]
  BY DEF Bind, ContractInv, ContractTypeOK
<1>3. ContractTypeOK'
  BY <1>1 DEF Bind, ContractInv, ContractTypeOK
<1>4. ASSUME NEW p \in reported PROVE bound'[p[1]] = p[2]
  <2>1. p[1] \in Uids /\ p[2] \in Keys /\ bound[p[1]] = p[2]
    BY DEF ContractInv, ContractTypeOK, AnnouncedFirst
  <2> QED BY <1>1, <1>2, <2>1
<1>5. AnnouncedFirst'
  BY <1>1, <1>2, <1>4 DEF ContractInv, AnnouncedFirst
<1>6. BoundOnce'
  BY <1>1, <1>2 DEF ContractInv, BoundOnce
<1>7. SignedForBound'
  <2>1. CASE signed = NoSignature
    BY <1>1, <2>1 DEF SignedForBound, NoSignature
  <2>2. CASE signed # NoSignature
    <3>1. signed.uid \in Uids /\ bound[signed.uid] \in Keys
      BY <2>2 DEF ContractInv, SignedForBound
    <3>2. bound'[signed.uid] = bound[signed.uid]
      BY <1>1, <1>2, <3>1
    <3> QED BY <1>1, <2>2, <3>2 DEF ContractInv, SignedForBound
  <2> QED BY <2>1, <2>2
<1> QED BY <1>3, <1>5, <1>6, <1>7 DEF ContractInv

(* A creation is reported. *)
LEMMA ReportInv ==
    ASSUME ContractInv, NEW u \in Uids, NEW k \in Keys, Report(u, k),
           UNCHANGED <<certified, signed>>
    PROVE  ContractInv'
BY DEF Report, ContractInv, ContractTypeOK, AnnouncedFirst, BoundOnce, SignedForBound,
       NoSignature

(* A certificate is asked for. *)
LEMMA CertifyInv ==
    ASSUME ContractInv, NEW u \in Uids, NEW k \in Keys, Certify(u, k)
    PROVE  ContractInv'
BY DEF Certify, ContractInv, ContractTypeOK, AnnouncedFirst, BoundOnce, SignedForBound,
       NoSignature

(* Something is signed. *)
LEMMA SignInvOfContract ==
    ASSUME ContractInv, NEW u \in Uids, NEW c \in Certs, Sign(u, c) PROVE ContractInv'
<1>1. /\ signed' = [uid |-> u, key |-> bound[u], kid |-> c]
      /\ bound[u] = KeyOf[c] /\ <<u, KeyOf[c]>> \in certified
      /\ UNCHANGED <<bound, known, reported, certified>>
  BY DEF Sign
<1>2. SignedForBound'
  BY <1>1 DEF SignedForBound, ContractInv, AnnouncedFirst
<1> QED BY <1>1, <1>2 DEF ContractInv, ContractTypeOK, AnnouncedFirst, BoundOnce

(* Every step of a signer preserves the invariant. *)
LEMMA SignerNextInv ==
    ASSUME NoKey \notin Keys, KeyOf \in [Certs -> Keys], ContractInv, [SignerNext]_signerVars
    PROVE  ContractInv'
<1>1. CASE Taken \/ UNCHANGED signerVars
  BY <1>1 DEF Taken, signerVars, ContractInv, ContractTypeOK, AnnouncedFirst, BoundOnce,
              SignedForBound, NoSignature
<1>2. CASE ContractNext /\ UNCHANGED <<certified, signed>>
  BY <1>2, AnnounceInv, BindInv, ReportInv DEF ContractNext
<1> QED BY <1>1, <1>2, CertifyInv, SignInvOfContract DEF SignerNext

(* The initial states satisfy it. *)
LEMMA SignerInitInv == SignerInit => ContractInv
BY DEF SignerInit, ContractInit, ContractInv, ContractTypeOK, AnnouncedFirst, BoundOnce,
       SignedForBound

(* A signer signs for an identity only with the one key that is bound to it,  *)
(* was announced for it and certified with it; what it reported is bound.     *)
THEOREM SignerMeans ==
    ASSUME NoKey \notin Keys, KeyOf \in [Certs -> Keys]
    PROVE  SignerSpec => []ContractInv
BY SignerInitInv, SignerNextInv, PTL DEF SignerSpec

(* A signer takes nothing back: neither a binding nor a report nor a          *)
(* certificate.                                                               *)
THEOREM SignerKeeps ==
    ASSUME NoKey \notin Keys, KeyOf \in [Certs -> Keys]
    PROVE  SignerSpec => NothingTakenBack
<1>1. ASSUME ContractInv, [SignerNext]_signerVars
      PROVE  [/\ \A u \in Uids : bound[u] # NoKey => bound'[u] = bound[u]
              /\ known \subseteq known' /\ reported \subseteq reported'
              /\ certified \subseteq certified']_signerVars
  BY <1>1 DEF ContractInv, ContractTypeOK, SignerNext, ContractNext, Announce, Bind, Report,
              Certify, Sign, Taken
<1> QED BY <1>1, SignerMeans, PTL DEF SignerSpec, NothingTakenBack

=============================================================================
