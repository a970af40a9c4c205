--------------------------- MODULE CoseClientProofs ---------------------------
(***************************************************************************)
(* Proofs about the whole service: the invariants of registration, the     *)
(* loader and signing hold together, although each of the three changes    *)
(* what the others rely on, and the service is a signer.                   *)
(***************************************************************************)
EXTENDS CoseClient, RegistrationProofs, SigningProofs, FiniteSetTheorems

(* A key is announced for one uid only, and a CSR is submitted only for a key *)
(* that was announced: so a key that is certified and bound is both for the   *)
(* same identity.                                                             *)
AnnouncedOnce ==
    /\ \A k \in Keys : tx[k].state = "none" => \A u \in Uids : <<u, k>> \notin backend
    /\ \A u, v \in Uids, k \in Keys : <<u, k>> \in backend /\ <<v, k>> \in backend => u = v
    /\ \A h \in Requests : reg[h].pc \in Working =>
        \A u \in Uids : <<u, reg[h].key>> \in backend => u = reg[h].uid
    /\ csrJobs \subseteq backend /\ csrs \subseteq backend

(* Every certificate the loader or a request has in hand was asked for.       *)
CertificatesIssued ==
    /\ Issued(trustList) /\ Issued(ld.list) /\ Issued(installed)
    /\ \A s \in Slots : sig[s].pc = "SignHash" =>
        \E u \in Uids : <<u, KeyOf[sig[s].kid]>> \in csrs

ClientInv ==
    /\ RegInv /\ SafeReg /\ CacheMirrorsTable /\ AnnouncedOnce
    /\ LoaderInv /\ SignInv /\ CertificatesIssued

-----------------------------------------------------------------------------

(* A step that announces nothing, and starts no attempt but with a new key.   *)
LEMMA NothingAnnounced ==
    ASSUME RegInv, AnnouncedOnce, UNCHANGED backend,
           \A k \in Keys : tx'[k].state = "none" => tx[k].state = "none",
           \A h \in Requests : reg'[h].pc \in Working =>
               \/ reg[h].pc \in Working /\ reg'[h].uid = reg[h].uid /\ reg'[h].key = reg[h].key
               \/ reg'[h].key \in Keys /\ tx[reg'[h].key].state = "none",
           csrJobs' \subseteq backend, csrs' \subseteq backend
    PROVE  AnnouncedOnce'
BY DEF AnnouncedOnce

(* The key service accepts a key that this request alone has.                 *)
LEMMA AcceptedOnce ==
    ASSUME RegInv, AnnouncedOnce, NEW h \in Requests, KeyServiceAccepts(h)
    PROVE  AnnouncedOnce'
<1>1. /\ reg[h].pc = "SubmitKeyRegistration" /\ reg' = [reg EXCEPT ![h].pc = "KeyRegistered"]
      /\ backend' = backend \cup {<<reg[h].uid, reg[h].key>>}
      /\ UNCHANGED <<tx, csrJobs, csrs>>
  BY DEF KeyServiceAccepts, Goto
<1>2. reg[h].uid \in Uids /\ reg[h].key \in Keys /\ tx[reg[h].key].state \in {"open", "ended"}
  BY <1>1 DEF RegInv, RegConsistent, RequestOwnsTx, Working
<1>3. ASSUME NEW g \in Requests
      PROVE  reg'[g].uid = reg[g].uid /\ reg'[g].key = reg[g].key
             /\ (reg'[g].pc \in Working => reg[g].pc \in Working)
  BY <1>1 DEF RegInv, RegTypeOK, RequestStates, Working
<1>4. \A k \in Keys : tx'[k].state = "none" => \A u \in Uids : <<u, k>> \notin backend'
  BY <1>1, <1>2 DEF AnnouncedOnce
<1>5. \A u \in Uids : <<u, reg[h].key>> \in backend => u = reg[h].uid
  BY <1>1 DEF AnnouncedOnce, Working
<1>6. \A u, v \in Uids, k \in Keys : <<u, k>> \in backend' /\ <<v, k>> \in backend' => u = v
  BY <1>1, <1>5 DEF AnnouncedOnce
<1>7. ASSUME NEW g \in Requests, reg'[g].pc \in Working, NEW u \in Uids,
             <<u, reg'[g].key>> \in backend'
      PROVE  u = reg'[g].uid
  <2>1. CASE g = h
    BY <1>1, <1>3, <1>5, <1>7, <2>1
  <2>2. CASE g # h
    <3>1. reg[g].key # reg[h].key
      BY <1>1, <1>3, <1>7, <2>2 DEF RegInv, RegConsistent, Working
    <3> QED BY <1>1, <1>3, <1>7, <3>1 DEF AnnouncedOnce
  <2> QED BY <2>1, <2>2
<1>8. csrJobs' \subseteq backend' /\ csrs' \subseteq backend'
  BY <1>1 DEF AnnouncedOnce
<1> QED BY <1>4, <1>6, <1>7, <1>8 DEF AnnouncedOnce

(* A step of a request. *)
LEMMA StepAnnounces ==
    ASSUME RegInv, AnnouncedOnce, NEW h \in Requests, Step(h) PROVE AnnouncedOnce'
<1>1. CASE KeyServiceAccepts(h)
  BY <1>1, AcceptedOnce
<1>2. CASE CloseTransaction(h)
  <2>1. /\ reg[h].pc = "KeyRegistered" /\ reg' = [reg EXCEPT ![h].pc = "CloseTransaction"]
        /\ csrJobs' = csrJobs \cup {<<reg[h].uid, reg[h].key>>} /\ UNCHANGED <<backend, csrs>>
        /\ tx' = [tx EXCEPT ![reg[h].key].state = IF @ = "open" THEN "committing" ELSE @]
    BY <1>2 DEF CloseTransaction, Goto, SendCommit
  <2>2. <<reg[h].uid, reg[h].key>> \in backend
    BY <2>1 DEF RegInv, RegConsistent, RequestOwnsTx
  <2>3. \A k \in Keys : tx'[k].state = "none" => tx[k].state = "none"
    BY <2>1 DEF RegInv, RegTypeOK, ContextTypeOK
  <2>4. \A g \in Requests : reg'[g].uid = reg[g].uid /\ reg'[g].key = reg[g].key
            /\ (reg'[g].pc \in Working => reg[g].pc \in Working)
    BY <2>1 DEF RegInv, RegTypeOK, RequestStates, Working
  <2> QED BY <2>1, <2>2, <2>3, <2>4, NothingAnnounced DEF AnnouncedOnce
<1>3. CASE ExistsNot(h)
  <2>1. PICK k \in Keys :
          tx[k].state = "none" /\ reg' = [reg EXCEPT ![h].pc = "StartTransaction", ![h].key = k]
    BY <1>3 DEF ExistsNot, Fresh
  <2>2. \A g \in Requests : g # h => reg'[g] = reg[g]
    BY <2>1 DEF RegInv, RegTypeOK
  <2>3. reg'[h].key = k
    BY <2>1 DEF RegInv, RegTypeOK, RequestStates
  <2>4. UNCHANGED <<tx, backend, csrJobs, csrs>>
    BY <1>3 DEF ExistsNot
  <2> QED BY <2>1, <2>2, <2>3, <2>4, NothingAnnounced DEF AnnouncedOnce
<1>4. CASE ~KeyServiceAccepts(h) /\ ~CloseTransaction(h) /\ ~ExistsNot(h)
  <2>1. UNCHANGED <<backend, csrJobs, csrs>>
    BY <1>4 DEF Step, Progress, Fault, Receive, ExistsCached, ExistsFetched, ExistsFails,
                ExistsCacheStore, StartTransaction, ConnectionNotAvailable,
                StoreNewIdentity, StoreRefused, DatabaseFault, RegistrationFails, Fail,
                Created, CommitRefused, CommitUnanswered
  <2>2. \A k \in Keys : tx'[k].state = "none" => tx[k].state = "none"
    BY <1>4 DEF Step, Progress, Fault, Receive, ExistsCached, ExistsFetched, ExistsFails,
                ExistsCacheStore, StartTransaction, ConnectionNotAvailable,
                StoreNewIdentity, StoreRefused, DatabaseFault, RegistrationFails, Fail,
                Created, CommitRefused, CommitUnanswered, BeginTx, InsertRow, CancelTx,
                AbandonCommit, RegInv, RegTypeOK, ContextTypeOK
  <2>3. ASSUME NEW g \in Requests, reg'[g].pc \in Working
        PROVE  reg[g].pc \in Working /\ reg'[g].uid = reg[g].uid /\ reg'[g].key = reg[g].key
    BY <1>4, <2>3 DEF Step, Progress, Fault, Receive, ExistsCached, ExistsFetched, ExistsFails,
                ExistsCacheStore, StartTransaction, ConnectionNotAvailable,
                StoreNewIdentity, StoreRefused, DatabaseFault, RegistrationFails, Fail,
                Created, CommitRefused, CommitUnanswered, Answer, IdleRequest, Goto, Working,
                RegInv, RegTypeOK, RequestStates
  <2> QED BY <2>1, <2>2, <2>3, NothingAnnounced DEF AnnouncedOnce
<1> QED BY <1>1, <1>2, <1>3, <1>4

(* Every step of registration announces a key for one uid only.               *)
LEMMA NextAnnounces == RegInv /\ AnnouncedOnce /\ [RegNext]_vars => AnnouncedOnce'
<1> SUFFICES ASSUME RegInv, AnnouncedOnce, [RegNext]_vars PROVE AnnouncedOnce'
  OBVIOUS
<1>1. CASE \E h \in Requests : Step(h)
  BY <1>1, StepAnnounces
<1>2. ASSUME NEW p \in Pairs, SubmitCSR(p) PROVE AnnouncedOnce'
  BY <1>2 DEF SubmitCSR, AnnouncedOnce
<1>3. ASSUME NEW k \in Keys, TxEnds(k) \/ ConnectionBreaks(k) PROVE AnnouncedOnce'
  <2>1. UNCHANGED <<reg, backend, csrJobs, csrs>>
        /\ tx' = [tx EXCEPT ![k] = [state |-> "ended", uid |-> NoUid]]
    BY <1>3 DEF TxEnds, TxCommit, TxRollback, ConnectionBreaks, TxLost, EndTx
  <2> QED BY <2>1, NothingAnnounced DEF AnnouncedOnce, RegInv, RegTypeOK, ContextTypeOK
<1>4. CASE Crash
  <2>1. UNCHANGED <<backend, csrs>> /\ csrJobs' = {}
        /\ \A k \in Keys : tx'[k].state = "none" => tx[k].state = "none"
    BY <1>4 DEF Crash, ContextCrash, RegCrash, RegInv, RegTypeOK, ContextTypeOK
  <2>2. \A h \in Requests : reg'[h].pc \notin Working
    BY <1>4 DEF Crash, RegCrash, IdleRequest, Working
  <2> QED BY <2>1, <2>2, NothingAnnounced DEF AnnouncedOnce
<1>5. CASE UNCHANGED vars
  BY <1>5 DEF vars, AnnouncedOnce
<1> QED BY <1>1, <1>2, <1>3, <1>4, <1>5 DEF RegNext

-----------------------------------------------------------------------------

(* What a step of registration means to the others: rows are filled, never    *)
(* changed, and each with a key of its own.                                   *)
LEMMA RowsGrow ==
    ASSUME RegInv, KeyHasOneUid, [RegNext]_vars
    PROVE  /\ RowsOK' /\ KeyHasOneUid'
           /\ \A u \in Uids : rows[u] # NoKey => rows'[u] = rows[u]
<1>1. RegInv' /\ [Contract!ContractNext]_(Contract!contractVars)
  BY NextInv, NextRefines
<1>2. RowsOK /\ RowsOK'
  BY <1>1 DEF RegInv, RegTypeOK, ContextTypeOK, RowsOK
<1>3. ASSUME NEW u \in Uids, NEW k \in Keys, Contract!Bind(u, k)
      PROVE  KeyHasOneUid' /\ \A v \in Uids : rows[v] # NoKey => rows'[v] = rows[v]
  BY <1>2, <1>3 DEF Contract!Bind, RowsOK, KeyHasOneUid
<1>4. CASE UNCHANGED rows
  BY <1>2, <1>4 DEF KeyHasOneUid
<1>5. ASSUME NEW u \in Uids, NEW k \in Keys, Contract!Announce(u, k) \/ Contract!Report(u, k)
      PROVE  UNCHANGED rows
  BY <1>5 DEF Contract!Announce, Contract!Report
<1>6. CASE UNCHANGED Contract!contractVars
  BY <1>4, <1>6 DEF Contract!contractVars
<1>7. CASE Contract!ContractNext
  <2>1. PICK u \in Uids, k \in Keys :
          Contract!Announce(u, k) \/ Contract!Bind(u, k) \/ Contract!Report(u, k)
    BY <1>7 DEF Contract!ContractNext
  <2> QED BY <1>2, <1>3, <1>4, <1>5, <2>1
<1> QED BY <1>1, <1>2, <1>6, <1>7

(* The invariant of registration in any step of it. *)
RegistrationInv == RegInv /\ SafeReg /\ CacheMirrorsTable /\ AnnouncedOnce

(* It is inductive.                                                           *)
LEMMA RegistrationNext == RegistrationInv /\ [RegNext]_vars => RegistrationInv'
BY NextInv, NextSafe, NextCache, NextAnnounces DEF RegistrationInv

(* A CSR that has arrived stays there. *)
LEMMA CsrsStay == ASSUME [RegNext]_vars PROVE csrs \subseteq csrs'
BY DEF RegNext, Step, Progress, Fault, Receive, ExistsCached, ExistsFetched, ExistsFails,
       ExistsCacheStore, ExistsNot, StartTransaction, ConnectionNotAvailable, StoreNewIdentity,
       StoreRefused, DatabaseFault, RegistrationFails, Fail, KeyServiceAccepts,
       CloseTransaction, Created, CommitRefused, CommitUnanswered, SubmitCSR, TxEnds, TxCommit,
       TxRollback, ConnectionBreaks, TxLost, Crash, RegCrash, vars

(* One lemma per part of the service.  Registration moves. *)
LEMMA RegisterStepInv == ASSUME ClientInv, RegisterStep PROVE ClientInv'
<1>1. [RegNext]_vars /\ UNCHANGED loaderVars /\ UNCHANGED signVars
  BY DEF RegisterStep, RegNext
<1>2. RegistrationInv'
  BY <1>1, RegistrationNext DEF ClientInv, RegistrationInv
<1>3. /\ RowsOK' /\ KeyHasOneUid'
      /\ \A u \in Uids : rows[u] # NoKey => rows'[u] = rows[u]
  BY <1>1, RowsGrow DEF ClientInv, LoaderInv
<1>4. LoaderInv'
  BY <1>1, <1>3, RowsGrowInv DEF ClientInv
<1>5. SignInv'
  BY <1>1, <1>3, SignStays DEF ClientInv
<1>6. CertificatesIssued'
  BY <1>1, CsrsStay DEF ClientInv, CertificatesIssued, Issued, loaderVars, signVars
<1> QED BY <1>2, <1>4, <1>5, <1>6 DEF ClientInv, RegistrationInv

(* Nothing of registration moves. *)
LEMMA RegistrationRests ==
    ASSUME RegistrationInv, UNCHANGED contextVars, UNCHANGED regVars PROVE RegistrationInv'
<1>1. UNCHANGED vars
  BY DEF contextVars, regVars, vars
<1> QED BY <1>1, RegistrationNext

(* The loader moves: it passes on lists of issued certificates. *)
LEMMA LoadStepInv == ASSUME ClientInv, LoadStep PROVE ClientInv'
<1>1. LoaderStep /\ UNCHANGED contextVars /\ UNCHANGED regVars /\ UNCHANGED signVars
  BY DEF LoadStep
<1>2. RegistrationInv'
  BY <1>1, RegistrationRests DEF ClientInv, RegistrationInv
<1>3. UNCHANGED <<rows, csrs, sig, trustList>>
  BY <1>1 DEF contextVars, regVars, signVars, LoaderStep, Tick, ListArrives, ListVerified,
              RequestFails, ListRefused, CountFailure, MatchCert, SkipCert, LookupFails, Install
<1>4. LoaderInv'
  BY <1>1, <1>3, LoaderStepInv DEF ClientInv
<1>5. SignInv'
  BY <1>1, <1>3, SignStays DEF ClientInv
<1>6. ld'.list \in {ld.list, trustList, <<>>} /\ installed' \in {installed, ld.list, <<>>}
  <2>1. ld \in LoaderStates
    BY DEF ClientInv, LoaderInv, LoaderTypeOK
  <2>2. CASE ListArrives
    BY <2>1, <2>2 DEF ListArrives, LoaderStates
  <2>3. CASE ListVerified \/ MatchCert \/ SkipCert \/ LookupFails
    BY <2>1, <2>3 DEF ListVerified, MatchCert, SkipCert, LookupFails, LoaderStates
  <2>4. CASE Tick \/ CountFailure \/ Install
    BY <2>4 DEF Tick, CountFailure, Install, LoaderIdle
  <2> QED BY <1>1, <2>2, <2>3, <2>4 DEF LoaderStep, RequestFails, ListRefused
<1>7. Issued(<<>>)
  BY DEF Issued
<1>8. CertificatesIssued'
  BY <1>3, <1>6, <1>7 DEF ClientInv, CertificatesIssued, Issued
<1> QED BY <1>2, <1>4, <1>5, <1>8 DEF ClientInv, RegistrationInv

(* The server publishes a list. *)
LEMMA PublishStepInv == ASSUME ClientInv, PublishStep PROVE ClientInv'
<1>1. PICK list \in Lists : Issued(list) /\ Publish(list)
  BY DEF PublishStep
<1>2. UNCHANGED contextVars /\ UNCHANGED regVars /\ UNCHANGED signVars
  BY DEF PublishStep
<1>3. RegistrationInv'
  BY <1>2, RegistrationRests DEF ClientInv, RegistrationInv
<1>4. UNCHANGED <<rows, csrs, sig>>
  BY <1>2 DEF contextVars, regVars, signVars
<1>5. LoaderInv'
  BY <1>1, <1>4, PublishInv DEF ClientInv
<1>6. SignInv'
  BY <1>2, <1>4, SignStays DEF ClientInv
<1>7. CertificatesIssued'
  BY <1>1, <1>4 DEF ClientInv, CertificatesIssued, Issued, Publish
<1> QED BY <1>3, <1>5, <1>6, <1>7 DEF ClientInv, RegistrationInv

(* A signing request moves: it may fill the cache, and the kid it looks up is *)
(* from the installed list.                                                   *)
LEMMA SigningStepInv == ASSUME ClientInv, SigningStep PROVE ClientInv'
<1>1. PICK s \in Slots : SignStep(s)
  BY DEF SigningStep
<1>2. UNCHANGED <<rows, tx, reg, backend, csrJobs, csrs, granted>> /\ UNCHANGED loaderVars
  BY DEF SigningStep, regVars
<1>3. CacheOK
  BY DEF ClientInv, RegInv, RegTypeOK, ContextTypeOK, CacheMirrorsTable, CacheOK
<1>4. SignInv' /\ CacheOK'
  BY <1>1, <1>2, <1>3, SignStepInv DEF ClientInv
<1>5. RegInv'
  <2>1. RegTypeOK'
    BY <1>2, <1>4 DEF ClientInv, CacheOK, RegInv, RegTypeOK, ContextTypeOK
  <2>2. (\A h \in Requests : RequestOwnsTx(h)') /\ (\A k \in Keys : TxMayCommit(k)')
    BY <1>2 DEF ClientInv, RegInv, RegConsistent, RequestOwnsTx, TxMayCommit
  <2>3. RegConsistent' /\ NoLeakedTransaction'
    BY <1>2, <2>2 DEF ClientInv, RegInv, RegConsistent, NoLeakedTransaction
  <2> QED BY <2>1, <2>3 DEF RegInv
<1>6. RegistrationInv'
  BY <1>2, <1>4, <1>5 DEF ClientInv, RegistrationInv, SafeReg, CommittedKeyIsRegistered,
                          GrantedIsDurable, CacheMirrorsTable, CacheOK, AnnouncedOnce
<1>7. LoaderInv'
  BY <1>2, RowsGrowInv DEF ClientInv, LoaderInv, RowsOK, KeyHasOneUid
<1>8. CertificatesIssued'
  <2>1. Issued(trustList)' /\ Issued(ld.list)' /\ Issued(installed)'
    BY <1>2 DEF ClientInv, CertificatesIssued, Issued, loaderVars
  <2>2. ASSUME NEW r \in Slots, r # s PROVE sig'[r] = sig[r]
    BY <1>1, <2>2 DEF SignStep, SignReceive, InvalidUuid, IdentityFromCache, IdentityFromTable,
           IdentityCacheStore, IdentityUnknown, IdentityFault, AuthOk, AuthRefused,
           PayloadAccepted, PayloadRefused, SkidKnown, SkidUnknown, CreateSignedCOSE,
           SigningFails, SignGoto, Respond, RespondWith, ClientInv, SignInv
  <2>3. ASSUME ~SkidKnown(s) PROVE sig'[s].pc # "SignHash"
    <3>1. sig \in [Slots -> SlotStates]
      BY DEF ClientInv, SignInv
    <3>2. CASE SignReceive(s)
      BY <3>1, <3>2 DEF SignReceive, IdleSlot
    <3>3. CASE IdentityFromCache(s) \/ IdentityFromTable(s) \/ PayloadAccepted(s)
      BY <3>1, <3>3 DEF IdentityFromCache, IdentityFromTable, PayloadAccepted, SlotStates
    <3>4. CASE IdentityCacheStore(s) \/ AuthOk(s)
      BY <3>1, <3>4 DEF IdentityCacheStore, AuthOk, SignGoto, SlotStates
    <3>5. CASE \E code \in {400, 401, 404, 500}, cose \in {NoCose} : RespondWith(s, code, cose)
      BY <3>1, <3>5 DEF RespondWith, IdleSlot
    <3>6. CASE CreateSignedCOSE(s)
      BY <3>1, <3>6 DEF CreateSignedCOSE, RespondWith, IdleSlot
    <3> QED BY <1>1, <2>3, <3>2, <3>3, <3>4, <3>5, <3>6
            DEF SignStep, InvalidUuid, IdentityUnknown, IdentityFault, AuthRefused,
                PayloadRefused, SkidUnknown, SigningFails, Respond
  <2>4. ASSUME SkidKnown(s) PROVE \E u \in Uids : <<u, KeyOf[sig'[s].kid]>> \in csrs
    <3>1. /\ sig'[s].kid = skidStore[sig[s].uid] /\ skidStore[sig[s].uid] # NoCert
          /\ sig[s].uid \in Uids
      BY <2>4 DEF SkidKnown, ClientInv, SignInv, SlotOK, SlotStates
    <3>2. \E i \in DOMAIN installed : installed[i] = skidStore[sig[s].uid]
      BY <3>1 DEF ClientInv, LoaderInv, StoreIsNewestMatch, IsNewestFor, UsableFor
    <3> QED BY <3>1, <3>2 DEF ClientInv, CertificatesIssued, Issued
  <2> QED BY <1>2, <2>1, <2>2, <2>3, <2>4 DEF ClientInv, CertificatesIssued
<1> QED BY <1>4, <1>6, <1>7, <1>8 DEF ClientInv, RegistrationInv

(* The process dies and starts again. *)
LEMMA ProcessRestartInv == ASSUME ClientInv, ProcessRestart PROVE ClientInv'
<1>1. Crash /\ LoaderReset /\ SignReset /\ UNCHANGED trustList
  BY DEF ProcessRestart, Crash, LoaderRestart
<1>2. RegistrationInv'
  BY <1>1, RegistrationNext DEF ClientInv, RegistrationInv, RegNext
<1>3. UNCHANGED <<rows, csrs>>
  BY <1>1 DEF Crash, ContextCrash, RegCrash
<1>4. LoaderInv'
  BY <1>1, <1>3, ResetInv DEF ClientInv, LoaderInv, LoaderTypeOK, RowsOK, KeyHasOneUid
<1>5. SignInv'
  BY <1>1, SignResetInv
<1>6. CertificatesIssued'
  <2>1. ld'.list = <<>> /\ installed' = <<>> /\ UNCHANGED <<trustList, csrs>>
    BY <1>1, <1>3 DEF LoaderReset, LoaderIdle
  <2>2. Issued(trustList)'
    BY <2>1 DEF ClientInv, CertificatesIssued, Issued
  <2>3. Issued(ld.list)' /\ Issued(installed)'
    BY <2>1 DEF Issued
  <2>4. \A s \in Slots : sig'[s].pc = "Idle"
    BY <1>1 DEF SignReset, IdleSlot
  <2> QED BY <2>2, <2>3, <2>4 DEF CertificatesIssued
<1> QED BY <1>2, <1>4, <1>5, <1>6 DEF ClientInv, RegistrationInv

(* The initial states satisfy the invariant. *)
LEMMA ClientInitInv == ClientInit => ClientInv
<1> SUFFICES ASSUME ClientInit PROVE ClientInv
  OBVIOUS
<1>1. RegInv /\ SafeReg /\ CacheMirrorsTable
  BY InitInv, InitSafe, InitCache DEF ClientInit
<1>2. AnnouncedOnce
  BY DEF ClientInit, RegInit, AnnouncedOnce, IdleRequest, Working
<1>3. RowsOK /\ KeyHasOneUid
  BY DEF ClientInit, RegInit, ContextInit, RowsOK, KeyHasOneUid
<1>4. LoaderInv /\ SignInv
  BY <1>3, InitLoaderInv, SignInitInv DEF ClientInit
<1>5. CertificatesIssued
  BY DEF ClientInit, LoaderInit, LoaderIdle, SignInit, IdleSlot, CertificatesIssued, Issued
<1> QED BY <1>1, <1>2, <1>4, <1>5 DEF ClientInv

(* Every step preserves it. *)
LEMMA ClientNextInv == ClientInv /\ [ClientNext]_clientVars => ClientInv'
<1> SUFFICES ASSUME ClientInv, [ClientNext]_clientVars PROVE ClientInv'
  OBVIOUS
<1>1. CASE UNCHANGED clientVars
  <2>1. /\ UNCHANGED contextVars /\ UNCHANGED regVars /\ UNCHANGED loaderVars
        /\ UNCHANGED signVars /\ UNCHANGED rows /\ UNCHANGED csrs
    BY <1>1 DEF clientVars, contextVars, regVars, loaderVars, signVars
  <2>2. RegistrationInv'
    BY <2>1, RegistrationRests DEF ClientInv, RegistrationInv
  <2>3. LoaderInv'
    BY <2>1, RowsGrowInv DEF ClientInv, LoaderInv, RowsOK, KeyHasOneUid
  <2>4. SignInv'
    BY <2>1, SignStays DEF ClientInv
  <2>5. CertificatesIssued'
    BY <2>1 DEF ClientInv, CertificatesIssued, Issued, loaderVars, signVars
  <2> QED BY <2>2, <2>3, <2>4, <2>5 DEF ClientInv, RegistrationInv
<1> QED BY <1>1, RegisterStepInv, LoadStepInv, PublishStepInv, SigningStepInv, ProcessRestartInv
        DEF ClientNext

(* The inductive invariant holds throughout. *)
THEOREM ClientInvariant == ClientSpec => []ClientInv
BY ClientInitInv, ClientNextInv, PTL DEF ClientSpec

-----------------------------------------------------------------------------

(* Every variable of the service keeps its type. *)
THEOREM ClientTypeCorrect == ClientSpec => []ClientTypeOK
<1>1. ClientInv => ClientTypeOK
  BY SignInvType DEF ClientInv, RegInv, LoaderInv, ClientTypeOK
<1> QED BY <1>1, ClientInvariant, PTL

(* So do the lookups, the loader and the requests that use them: a request    *)
(* that looks for its SKID or signs has an accepted payload.                  *)
THEOREM SigningTypeCorrect == ClientSpec => []SigningTypeOK
<1>1. ClientInv => SigningTypeOK
  BY SignInvType DEF ClientInv, RegInv, RegTypeOK, LoaderInv, SkidTypeOK, SigningTypeOK
<1> QED BY <1>1, ClientInvariant, PTL

(* Every COSE object verifies with the certificate it names, and that is one  *)
(* for the key the table binds to the identity: handleRequest reads key and   *)
(* SKID at two moments, and whatever registrations, reloads and restarts do   *)
(* between them the two belong together.                                      *)
THEOREM EveryCoseVerifiable == ClientSpec => []CoseVerifiable
<1>1. ClientInv => CoseVerifiable
  BY SignInvVerifiable DEF ClientInv
<1> QED BY <1>1, ClientInvariant, PTL

(* All ways to ask for a signature of a document sign the same digest, in the *)
(* service that runs, not only in getPayloadAndHash.                          *)
THEOREM AllSignedAsAsked == ClientSpec => []SignedAsAsked
<1>1. ClientInv => SignedAsAsked
  BY SignInvAsAsked DEF ClientInv
<1> QED BY <1>1, ClientInvariant, PTL

(* What was proved of registration alone stays true while signing requests    *)
(* fill its cache too: a cached identity is the committed one.                *)
THEOREM ClientCacheIsTrue == ClientSpec => []CacheMirrorsTable
<1>1. ClientInv => CacheMirrorsTable
  BY DEF ClientInv
<1> QED BY <1>1, ClientInvariant, PTL

(* And what was proved of the loader, while the table grows by registrations  *)
(* in all their steps: a SKID is the newest match of the installed list.      *)
THEOREM ClientNewestMatch == ClientSpec => []StoreIsNewestMatch
<1>1. ClientInv => StoreIsNewestMatch
  BY DEF ClientInv, LoaderInv
<1> QED BY <1>1, ClientInvariant, PTL

(* After too many failed loads the service signs for nobody, whoever was      *)
(* certified before.                                                          *)
THEOREM ClientEmptyAfterMaxFailures == ClientSpec => []StoreEmptyAfterMaxFailures
<1>1. ClientInv => StoreEmptyAfterMaxFailures
  BY DEF ClientInv, LoaderInv
<1> QED BY <1>1, ClientInvariant, PTL

(* A reload next to registrations and signing takes the SKID from nobody who  *)
(* has a usable certificate in the new list.                                  *)
THEOREM ClientReloadsKeepMatched == ClientSpec => ReloadKeepsMatched
<1>1. ClientInv /\ [ClientNext]_clientVars => [SkidNext]_skidVars \/ UNCHANGED ld \/ LoaderReset
  BY DEF ClientNext, RegisterStep, LoadStep, PublishStep, SigningStep, ProcessRestart,
         LoaderRestart, loaderVars, clientVars, SkidNext, ServiceNext, Publish
<1>2. ClientInv => SkidInv
  BY DEF ClientInv, RegInv, RegTypeOK, SkidInv
<1>3. ClientInv /\ [ClientNext]_clientVars =>
        [ld.pc = "match" /\ ld'.pc = "waiting" =>
            \A u \in Uids :
                skidStore[u] # NoCert /\ UsableFor(u, ld.list) # {} => skidStore'[u] # NoCert]_skidVars
  BY <1>1, <1>2, NextKeepsMatched DEF LoaderReset, LoaderIdle
<1> QED BY <1>3, ClientInvariant, PTL DEF ClientSpec, ReloadKeepsMatched

-----------------------------------------------------------------------------

(* The contract of registration is a part of the contract of the signer. *)
LEMMA ContractOfSigner ==
    ASSUME [Contract!ContractNext]_(Contract!contractVars), UNCHANGED <<csrs, answer>>
    PROVE  [Signer!SignerNext]_(Signer!signerVars)
<1>1. UNCHANGED <<csrs, LastSigned>>
  BY DEF LastSigned
<1>2. CASE UNCHANGED Contract!contractVars
  BY <1>1, <1>2 DEF Contract!contractVars, Signer!signerVars
<1>3. ASSUME NEW u \in Uids, NEW k \in Keys,
             Contract!Announce(u, k) \/ Contract!Bind(u, k) \/ Contract!Report(u, k)
      PROVE  Signer!Announce(u, k) \/ Signer!Bind(u, k) \/ Signer!Report(u, k)
  BY <1>3 DEF Contract!Announce, Contract!Bind, Contract!Report,
              Signer!Announce, Signer!Bind, Signer!Report
<1>4. CASE Contract!ContractNext
  <2>1. Signer!ContractNext
    BY <1>3, <1>4 DEF Contract!ContractNext, Signer!ContractNext
  <2> QED BY <1>1, <2>1 DEF Signer!SignerNext
<1> QED BY <1>2, <1>4

(* Registration: a CSR arrives, or the contract moves. *)
LEMMA RegisterRefines ==
    ASSUME ClientInv, RegisterStep PROVE [Signer!SignerNext]_(Signer!signerVars)
<1>1. [RegNext]_vars /\ UNCHANGED answer
  BY DEF RegisterStep, RegNext, signVars
<1>2. UNCHANGED LastSigned
  BY <1>1 DEF LastSigned
<1>3. CASE UNCHANGED csrs
  BY <1>1, <1>3, NextRefines, ContractOfSigner DEF ClientInv
<1>4. ASSUME NEW p \in Pairs, SubmitCSR(p), csrs' # csrs
      PROVE  Signer!SignerNext
  <2>1. /\ p[1] \in Uids /\ p[2] \in Keys /\ p = <<p[1], p[2]>>
        /\ p \in backend /\ csrs' = csrs \cup {p} /\ UNCHANGED <<rows, backend, granted>>
    BY <1>4 DEF Pairs, SubmitCSR, ClientInv, AnnouncedOnce
  <2>2. Signer!Certify(p[1], p[2])
    BY <1>2, <2>1 DEF Signer!Certify
  <2> QED BY <2>1, <2>2 DEF Signer!SignerNext
<1>5. ASSUME csrs' # csrs PROVE \E p \in Pairs : SubmitCSR(p)
  BY <1>5 DEF RegisterStep, Step, Progress, Fault, Receive, ExistsCached, ExistsFetched,
        ExistsFails, ExistsCacheStore, ExistsNot, StartTransaction, ConnectionNotAvailable,
        StoreNewIdentity, StoreRefused, DatabaseFault, RegistrationFails, Fail,
        KeyServiceAccepts, CloseTransaction, Created, CommitRefused, CommitUnanswered,
        TxEnds, ConnectionBreaks
<1> QED BY <1>3, <1>4, <1>5

(* The COSE object of a request names a certificate that a CSR for this       *)
(* identity and its bound key asked for.                                      *)
LEMMA SignRefines ==
    ASSUME ClientInv, NEW s \in Slots, CreateSignedCOSE(s),
           UNCHANGED <<rows, backend, granted, csrs>>
    PROVE  Signer!SignerNext
<1> DEFINE u == sig[s].uid
           c == sig[s].kid
<1>1. /\ u \in Uids /\ c \in Certs /\ rows[u] = sig[s].key /\ KeyOf[c] = sig[s].key
      /\ sig[s].key \in Keys /\ sig[s].pc = "SignHash"
  BY DEF ClientInv, SignInv, SlotOK, SignPcs, CreateSignedCOSE
<1>2. LastSigned' = [uid |-> u, key |-> rows[u], kid |-> c]
  BY <1>1 DEF CreateSignedCOSE, RespondWith, LastSigned, GetCOSE, SignHash
<1>3. <<u, KeyOf[c]>> \in csrs
  <2>1. PICK v \in Uids : <<v, KeyOf[c]>> \in csrs
    BY <1>1 DEF ClientInv, CertificatesIssued
  <2>2. <<u, KeyOf[c]>> \in backend
    BY <1>1, NoKeyAssumption DEF ClientInv, SafeReg, CommittedKeyIsRegistered
  <2>3. <<v, KeyOf[c]>> \in backend /\ KeyOf[c] \in Keys
    BY <1>1, <2>1 DEF ClientInv, AnnouncedOnce
  <2>4. u = v
    BY <1>1, <2>2, <2>3 DEF ClientInv, AnnouncedOnce
  <2> QED BY <2>1, <2>4
<1>4. Signer!Sign(u, c)
  BY <1>1, <1>2, <1>3 DEF Signer!Sign
<1> QED BY <1>1, <1>4 DEF Signer!SignerNext

(* Every other step of a request takes the answer away or is invisible. *)
LEMMA SigningStepRefines ==
    ASSUME ClientInv, SigningStep PROVE [Signer!SignerNext]_(Signer!signerVars)
<1>1. PICK s \in Slots : SignStep(s)
  BY DEF SigningStep
<1>2. UNCHANGED <<rows, backend, granted, csrs>>
  BY DEF SigningStep, regVars
<1>3. ASSUME answer'.code # 200 PROVE Signer!Taken
  BY <1>2, <1>3 DEF Signer!Taken, Signer!NoSignature, LastSigned
<1>4. ASSUME UNCHANGED answer PROVE UNCHANGED Signer!signerVars
  BY <1>2, <1>4 DEF Signer!signerVars, LastSigned
<1>5. CASE CreateSignedCOSE(s)
  BY <1>2, <1>5, SignRefines
<1>6. CASE ~CreateSignedCOSE(s)
  <2>1. CASE SignReceive(s)
    BY <1>3, <2>1 DEF SignReceive, NoAnswer, Signer!SignerNext
  <2>2. ASSUME NEW code \in {400, 401, 404, 500}, Respond(s, code) PROVE Signer!SignerNext
    BY <1>3, <2>2 DEF Respond, RespondWith, Signer!SignerNext
  <2>3. \/ UNCHANGED answer
        \/ SignReceive(s)
        \/ \E code \in {400, 401, 404, 500} : Respond(s, code)
    BY <1>1, <1>6 DEF SignStep, InvalidUuid, IdentityFromCache, IdentityFromTable,
        IdentityCacheStore, IdentityUnknown, IdentityFault, AuthOk, AuthRefused,
        PayloadAccepted, PayloadRefused, SkidKnown, SkidUnknown, SigningFails
  <2> QED BY <1>4, <2>1, <2>2, <2>3
<1> QED BY <1>5, <1>6

(* Every step of the service is one of the signer or invisible. *)
LEMMA ClientNextRefines ==
    ClientInv /\ [ClientNext]_clientVars => [Signer!SignerNext]_(Signer!signerVars)
<1> SUFFICES ASSUME ClientInv, [ClientNext]_clientVars
             PROVE  [Signer!SignerNext]_(Signer!signerVars)
  OBVIOUS
<1>1. ASSUME UNCHANGED <<rows, backend, granted, csrs, answer>>
      PROVE  UNCHANGED Signer!signerVars
  BY <1>1 DEF Signer!signerVars, LastSigned
<1>2. CASE LoadStep \/ PublishStep
  BY <1>1, <1>2 DEF LoadStep, PublishStep, contextVars, regVars, signVars
<1>3. CASE ProcessRestart
  <2>1. Signer!Taken
    BY <1>3 DEF ProcessRestart, ContextCrash, RegCrash, SignReset, NoAnswer, LastSigned,
                Signer!Taken, Signer!NoSignature
  <2> QED BY <2>1 DEF Signer!SignerNext
<1>4. CASE UNCHANGED clientVars
  BY <1>1, <1>4 DEF clientVars
<1> QED BY <1>2, <1>3, <1>4, RegisterRefines, SigningStepRefines DEF ClientNext

(* The whole service is a signer: through races for a uid, lost commits,      *)
(* reloads of certificates and restarts it signs for an identity with the one *)
(* key it has bound to it, after announcing that key, and names a certificate *)
(* that a CSR for this uid and key asked for.                                 *)
THEOREM ClientIsSigner == ClientSpec => ImplementsSigner
<1>1. ClientInit => Signer!SignerInit
  BY DEF ClientInit, RegInit, ContextInit, SignInit, NoAnswer, LastSigned,
         Signer!SignerInit, Signer!ContractInit, Signer!NoSignature
<1> QED BY <1>1, ClientInvariant, ClientNextRefines, PTL
         DEF ClientSpec, ImplementsSigner, Signer!SignerSpec

(* What a signer promises, said of the service. *)
Promise == INSTANCE ContractProofs
    WITH bound <- rows, known <- backend, reported <- granted,
         certified <- csrs, signed <- LastSigned

(* Both instances of the contract are the same signer. *)
LEMMA SignerIsPromise == Signer!SignerSpec => Promise!SignerSpec
<1>1. Signer!SignerInit => Promise!SignerInit
  BY DEF Signer!SignerInit, Promise!SignerInit, Signer!ContractInit, Promise!ContractInit,
         Signer!NoSignature, Promise!NoSignature
<1>2. [Signer!SignerNext]_(Signer!signerVars) => [Promise!SignerNext]_(Promise!signerVars)
  <2>1. Signer!ContractNext => Promise!ContractNext
    BY DEF Signer!ContractNext, Promise!ContractNext, Signer!Announce, Promise!Announce,
           Signer!Bind, Promise!Bind, Signer!Report, Promise!Report
  <2>2. /\ \A u \in Uids, k \in Keys : Signer!Certify(u, k) => Promise!Certify(u, k)
        /\ \A u \in Uids, c \in Certs : Signer!Sign(u, c) => Promise!Sign(u, c)
    BY DEF Signer!Certify, Promise!Certify, Signer!Sign, Promise!Sign
  <2>3. Signer!Taken => Promise!Taken
    BY DEF Signer!Taken, Promise!Taken, Signer!NoSignature, Promise!NoSignature
  <2>4. UNCHANGED Signer!signerVars => UNCHANGED Promise!signerVars
    BY DEF Signer!signerVars, Promise!signerVars
  <2> QED BY <2>1, <2>2, <2>3, <2>4 DEF Signer!SignerNext, Promise!SignerNext
<1> QED BY <1>1, <1>2, PTL DEF Signer!SignerSpec, Promise!SignerSpec

(* What a client was answered with is signed with the key that was announced  *)
(* and bound to its identity and with which its certificate was asked for.    *)
THEOREM ClientSignsForBound == ClientSpec => []Promise!ContractInv
<1>1. NoKey \notin Keys /\ KeyOf \in [Certs -> Keys]
  BY NoKeyAssumption, CertsAssumption
<1> QED BY <1>1, ClientIsSigner, SignerIsPromise, Promise!SignerMeans, PTL
         DEF ImplementsSigner

(* Nothing the service has bound, announced, reported or asked a certificate  *)
(* for is taken back, by no race, failure, reload or restart.                 *)
THEOREM ClientTakesNothingBack == ClientSpec => Promise!NothingTakenBack
<1>1. NoKey \notin Keys /\ KeyOf \in [Certs -> Keys]
  BY NoKeyAssumption, CertsAssumption
<1> QED BY <1>1, ClientIsSigner, SignerIsPromise, Promise!SignerKeeps, PTL
         DEF ImplementsSigner

(* The contract of registration is kept by the whole service: signing and the *)
(* loader bind, announce and report nothing.                                  *)
THEOREM ClientContract == ClientSpec => ImplementsContract
<1>1. ClientInit => Contract!ContractInit
  BY DEF ClientInit, RegInit, ContextInit, Contract!ContractInit
<1>2. ClientInv /\ [ClientNext]_clientVars => [Contract!ContractNext]_(Contract!contractVars)
  <2> SUFFICES ASSUME ClientInv, [ClientNext]_clientVars
               PROVE  [Contract!ContractNext]_(Contract!contractVars)
    OBVIOUS
  <2>1. CASE RegisterStep
    BY <2>1, NextRefines DEF RegisterStep, RegNext, ClientInv
  <2>2. CASE ~RegisterStep
    BY <2>2 DEF ClientNext, LoadStep, PublishStep, SigningStep, ProcessRestart, ContextCrash,
                RegCrash, contextVars, regVars, clientVars, Contract!contractVars
  <2> QED BY <2>1, <2>2
<1> QED BY <1>1, <1>2, ClientInvariant, PTL
         DEF ClientSpec, ImplementsContract, Contract!ContractSpec

(* A PUT still waits in no circle when signing requests and the loader take   *)
(* connections, too: those hold one only while a statement runs.              *)
THEOREM ClientWaitsInNoCircle == ClientSpec => []NoCircularWait
<1>1. ClientInit => NothingInserted
  BY DEF ClientInit, RegInit, IdleRequest, NothingInserted
<1>2. ClientInv /\ NothingInserted /\ [ClientNext]_clientVars => NothingInserted'
  <2> SUFFICES ASSUME ClientInv, NothingInserted, [ClientNext]_clientVars
               PROVE  NothingInserted'
    OBVIOUS
  <2>1. CASE RegisterStep
    BY <2>1, NextInsertsOnce DEF RegisterStep, RegNext, ClientInv
  <2>2. CASE ProcessRestart
    BY <2>2, NextInsertsOnce DEF ProcessRestart, Crash, RegNext, ClientInv
  <2>3. CASE ~RegisterStep /\ ~ProcessRestart
    BY <2>3 DEF ClientNext, LoadStep, PublishStep, SigningStep, contextVars, regVars,
                clientVars, NothingInserted
  <2> QED BY <2>1, <2>2, <2>3
<1>3. ClientInv /\ NothingInserted => NoCircularWait
  BY NoCircle DEF ClientInv
<1> QED BY <1>1, <1>2, <1>3, ClientInvariant, PTL DEF ClientSpec

-----------------------------------------------------------------------------

(* The loader of the refinement always finds a connection: no transaction of  *)
(* its own holds one.                                                         *)
LEMMA LoaderHasConn == Loader!PoolHasConn
<1>1. {k \in Keys : Loader!HoldsConn(k)} = {}
  BY DEF Loader!HoldsConn
<1>2. MaxOpenConns <= 0 \/ 0 < MaxOpenConns
  BY MaxOpenConnsAssumption
<1>3. Loader!Cardinality({}) = Cardinality({})
  BY Zenon DEF Loader!Cardinality, Cardinality, Loader!IsFiniteSet, IsFiniteSet
<1>4. Loader!Cardinality({k \in Keys : Loader!HoldsConn(k)}) = 0
  BY <1>1, <1>3, FS_EmptySet, Zenon
<1> QED BY <1>2, <1>4, Zenon DEF Loader!PoolHasConn

(* A step of the loader in the service is one of the loader alone.            *)
LEMMA LoaderStepIsLoaderStep ==
    ASSUME LoaderStep, UNCHANGED rows
    PROVE  Loader!LoaderStep /\ UNCHANGED Loader!contextVars
<1>1. UNCHANGED Loader!contextVars
  BY DEF Loader!contextVars
<1>2. Tick => Loader!Tick
  BY DEF Tick, LoaderIdle, NoSkids, Loader!Tick, Loader!LoaderIdle, Loader!NoSkids
<1>3. ListArrives => Loader!ListArrives
  BY Zenon DEF ListArrives, Loader!ListArrives
<1>4. ListVerified => Loader!ListVerified
  BY DEF ListVerified, Loader!ListVerified
<1>5. Install => Loader!Install
  BY DEF Install, LoaderIdle, NoSkids, Loader!Install, Loader!LoaderIdle, Loader!NoSkids
<1>6. CountFailure => Loader!CountFailure
  BY DEF CountFailure, LoaderIdle, NoSkids, Loader!CountFailure, Loader!LoaderIdle,
         Loader!NoSkids
<1>7. (RequestFails => Loader!RequestFails) /\ (ListRefused => Loader!ListRefused)
  BY <1>6 DEF RequestFails, ListRefused, Loader!RequestFails, Loader!ListRefused
<1>8. \A u \in Uids : UidFetched(KeyOf[Cert], u) => Loader!UidFetched(KeyOf[Cert], u)
  BY LoaderHasConn, Zenon DEF UidFetched, Loader!UidFetched
<1>9. MatchCert => Loader!MatchCert
  BY <1>8, Zenon DEF MatchCert, Matching, Cert, Parses, UidCached, TempWith, Loader!MatchCert,
            Loader!Matching, Loader!Cert, Loader!Parses, Loader!UidCached, Loader!TempWith
<1>10. UidNotExist(KeyOf[Cert]) => Loader!UidNotExist(KeyOf[Cert])
  BY LoaderHasConn, Zenon DEF UidNotExist, Loader!UidNotExist
<1>11. (SkipCert => Loader!SkipCert) /\ (LookupFails => Loader!LookupFails)
  BY <1>10, Zenon DEF SkipCert, LookupFails, Matching, Cert, Parses, Loader!SkipCert,
            Loader!LookupFails, Loader!Matching, Loader!Cert, Loader!Parses
<1> QED BY <1>1, <1>2, <1>3, <1>4, <1>5, <1>7, <1>9, <1>11 DEF LoaderStep, Loader!LoaderStep

(* What the contract of registration does to the table is a Register or       *)
(* nothing.                                                                   *)
LEMMA RegisterIsRegister ==
    ASSUME [Contract!ContractNext]_(Contract!contractVars), UNCHANGED loaderVars
    PROVE  [Loader!SkidNext]_(Loader!skidVars)
<1>1. ASSUME UNCHANGED rows PROVE UNCHANGED Loader!skidVars
  BY <1>1 DEF loaderVars, Loader!skidVars
<1>2. ASSUME NEW u \in Uids, NEW k \in Keys, Contract!Bind(u, k)
      PROVE  Loader!SkidNext
  <2>1. Loader!Register(u, k)
    BY <1>2 DEF Contract!Bind, Loader!Register
  <2> QED BY <2>1 DEF loaderVars, Loader!loaderVars, Loader!ServiceNext, Loader!SkidNext
<1>3. ASSUME NEW u \in Uids, NEW k \in Keys, Contract!Announce(u, k) \/ Contract!Report(u, k)
      PROVE  UNCHANGED rows
  BY <1>3 DEF Contract!Announce, Contract!Report
<1> QED BY <1>1, <1>2, <1>3 DEF Contract!ContractNext, Contract!contractVars

(* Every step of the service is one of the loader's specification or one that *)
(* the loader cannot see.                                                     *)
LEMMA ClientNextIsLoader ==
    ClientInv /\ [ClientNext]_clientVars => [Loader!SkidNext]_(Loader!skidVars)
<1> SUFFICES ASSUME ClientInv, [ClientNext]_clientVars
             PROVE  [Loader!SkidNext]_(Loader!skidVars)
  OBVIOUS
<1>1. CASE RegisterStep
  <2>1. [Contract!ContractNext]_(Contract!contractVars)
    BY <1>1, NextRefines DEF RegisterStep, RegNext, ClientInv
  <2> QED BY <1>1, <2>1, RegisterIsRegister DEF RegisterStep
<1>2. CASE LoadStep
  <2>1. LoaderStep /\ UNCHANGED rows
    BY <1>2 DEF LoadStep, contextVars
  <2> QED BY <2>1, LoaderStepIsLoaderStep DEF Loader!ServiceNext, Loader!SkidNext
<1>3. CASE PublishStep
  <2>1. PICK list \in Lists : Publish(list) /\ UNCHANGED rows
    BY <1>3 DEF PublishStep, contextVars
  <2>2. Loader!Publish(list) /\ UNCHANGED Loader!contextVars
    BY <2>1 DEF Publish, Loader!Publish, Loader!contextVars
  <2> QED BY <2>2 DEF Loader!ServiceNext, Loader!SkidNext
<1>4. CASE ProcessRestart
  <2>1. Loader!LoaderRestart
    BY <1>4 DEF ProcessRestart, LoaderRestart, LoaderReset, LoaderIdle, NoSkids,
                Loader!LoaderRestart, Loader!LoaderReset, Loader!LoaderIdle, Loader!NoSkids
  <2>2. Loader!ContextCrash
    BY <1>4 DEF ProcessRestart, ContextCrash, Loader!ContextCrash
  <2> QED BY <2>1, <2>2 DEF Loader!SkidNext
<1>5. CASE SigningStep \/ UNCHANGED clientVars
  BY <1>5 DEF SigningStep, clientVars, loaderVars, Loader!skidVars
<1> QED BY <1>1, <1>2, <1>3, <1>4, <1>5 DEF ClientNext

(* The service is a loader: what is checked and proved of SkidLoader, where a *)
(* registration is one step and nobody else uses the pool, is true of the     *)
(* loader that runs next to all the steps of registrations and signing.       *)
THEOREM ClientIsLoader == ClientSpec => ImplementsLoader
<1>1. ClientInit => Loader!SkidInit
  BY DEF ClientInit, RegInit, ContextInit, LoaderInit, LoaderIdle, NoSkids, Loader!SkidInit,
         Loader!ContextInit, Loader!LoaderInit, Loader!LoaderIdle, Loader!NoSkids
<1> QED BY <1>1, ClientInvariant, ClientNextIsLoader, PTL
         DEF ClientSpec, ImplementsLoader, Loader!SkidSpec

=============================================================================
