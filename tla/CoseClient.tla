------------------------------ MODULE CoseClient ------------------------------
(***************************************************************************)
(* The service: registration, the loader and signing share the identity    *)
(* table, its connection pool and the identity cache, and one process that *)
(* can die.                                                                *)
(***************************************************************************)
EXTENDS Registration, Signing

clientVars == <<rows, tx, identityCache, reg, backend, csrJobs, csrs, granted,
                skidStore, uidCache, failCount, ld, trustList, installed, sig, answer>>

ClientInit == RegInit /\ LoaderInit /\ SignInit

RegisterStep ==
    /\ \/ \E h \in Requests : Step(h)
       \/ \E p \in Pairs : SubmitCSR(p)
       \/ \E k \in Keys : TxEnds(k) \/ ConnectionBreaks(k)
    /\ UNCHANGED loaderVars /\ UNCHANGED signVars

LoadStep == LoaderStep /\ UNCHANGED contextVars /\ UNCHANGED regVars /\ UNCHANGED signVars

(* A certificate is issued for a key whose CSR has arrived. *)
Issued(list) == \A i \in DOMAIN list : \E u \in Uids : <<u, KeyOf[list[i]]>> \in csrs

PublishStep ==
    /\ \E list \in Lists : Issued(list) /\ Publish(list)
    /\ UNCHANGED contextVars /\ UNCHANGED regVars /\ UNCHANGED signVars

SigningStep ==
    /\ \E s \in Slots : SignStep(s)
    /\ UNCHANGED <<rows, tx>> /\ UNCHANGED regVars /\ UNCHANGED loaderVars

(* The process dies and is started again: only the table, the transactions    *)
(* of the server and the other services remember anything.                    *)
ProcessRestart == ContextCrash /\ RegCrash /\ LoaderRestart /\ SignReset

ClientNext == RegisterStep \/ LoadStep \/ PublishStep \/ SigningStep \/ ProcessRestart

ClientSpec == ClientInit /\ [][ClientNext]_clientVars

-----------------------------------------------------------------------------
ClientTypeOK == RegTypeOK /\ LoaderTypeOK /\ SignTypeOK

(* What a client was answered last, if that is a COSE object. *)
LastSigned ==
    IF answer.code = 200
    THEN [uid |-> answer.uid, key |-> answer.cose.signature[2], kid |-> answer.cose.kid]
    ELSE [uid |-> NoUid, key |-> NoKey, kid |-> NoCert]

Signer == INSTANCE SignerContract
    WITH bound <- rows, known <- backend, reported <- granted,
         certified <- csrs, signed <- LastSigned

(* Through races for a uid, lost commits, reloads and restarts the service is *)
(* a signer: it signs with the one key it has bound to the identity, after    *)
(* announcing it, and names a certificate that a CSR for that key asked for.  *)
ImplementsSigner == Signer!SignerSpec

(* To the loader a registration with all its steps, races and lost answers is *)
(* one that fills a row or does nothing, and the connections that             *)
(* transactions and other requests hold only make its lookups wait or fail.   *)
Loader == INSTANCE SkidLoader
    WITH tx <- [k \in Keys |-> [state |-> "none", uid |-> NoUid]],
         identityCache <- [u \in Uids |-> NoKey]

ImplementsLoader == Loader!SkidSpec

=============================================================================
