-------------------------- MODULE RegistrationProofs --------------------------
(***************************************************************************)
(* Proofs about Registration, for any number of identities, keys and       *)
(* requests, any pool and any number of attempts to get a connection.      *)
(***************************************************************************)
EXTENDS Registration, TLAPS

(* The inductive invariant. *)
RegInv == RegTypeOK /\ RegConsistent /\ NoLeakedTransaction

TxPcs == {"StoreNewIdentity", "SubmitKeyRegistration", "KeyRegistered"}

USE NoUidAssumption, NoKeyAssumption, MaxDbConnAttemptsAssumption

(* The initial states satisfy the invariant. *)
LEMMA InitInv == RegInit => RegInv
BY DEF RegInit, ContextInit, RegInv, RegTypeOK, ContextTypeOK, RegConsistent,
       NoLeakedTransaction, RequestOwnsTx, TxMayCommit, IdleRequest, TxStates, RequestStates,
       Pcs, Working

(* A request that does not move stays consistent when its transaction does    *)
(* not move, its own row and key are left alone, and the key service forgets  *)
(* nothing.                                                                   *)
LEMMA RequestStable ==
    ASSUME NEW g \in Requests, RequestOwnsTx(g), reg'[g] = reg[g],
           reg[g].pc \in Working => tx'[reg[g].key] = tx[reg[g].key],
           \A u \in Uids : rows[u] # NoKey => rows'[u] = rows[u],
           reg[g].pc \in Working =>
               \A u \in Uids : rows'[u] = reg[g].key => rows[u] = reg[g].key,
           backend \subseteq backend'
    PROVE  RequestOwnsTx(g)'
BY DEF RequestOwnsTx, Working

(* A step that moves one request and neither rows nor transactions keeps the  *)
(* invariant when the request fits its new place, does not take the key of    *)
(* another attempt and does not leave an unfinished transaction behind.       *)
LEMMA RequestMoves ==
    ASSUME RegInv, RegTypeOK', NEW h \in Requests,
           UNCHANGED <<rows, tx>>, backend \subseteq backend',
           \A g \in Requests : g # h => reg'[g] = reg[g],
           RequestOwnsTx(h)',
           reg'[h].pc \in Working =>
               \A g \in Requests : g # h /\ reg[g].pc \in Working => reg[g].key # reg'[h].key,
           reg[h].pc \in TxPcs /\ tx[reg[h].key].state = "open"
               => reg'[h].key = reg[h].key /\ reg'[h].pc \in TxPcs,
           reg[h].pc = "CloseTransaction" => tx[reg[h].key].state # "committing"
    PROVE  RegInv'
<1>1. ASSUME NEW g \in Requests PROVE RequestOwnsTx(g)'
  <2>1. CASE g = h
    BY <2>1
  <2>2. CASE g # h
    BY <2>2, RequestStable DEF RegInv, RegConsistent
  <2> QED BY <2>1, <2>2
<1>2. \A k \in Keys : TxMayCommit(k)'
  BY DEF RegInv, RegConsistent, TxMayCommit
<1>3. RegConsistent'
  BY <1>1, <1>2 DEF RegInv, RegConsistent
<1>4. NoLeakedTransaction'
  BY DEF RegInv, NoLeakedTransaction, TxPcs
<1> QED BY <1>3, <1>4 DEF RegInv

(* A step that moves one transaction, perhaps with the request that owns it,  *)
(* and fills no row but the one the transaction has inserted.                 *)
LEMMA TransactionMoves ==
    ASSUME RegInv, RegTypeOK', NEW k \in Keys,
           backend \subseteq backend',
           \A j \in Keys : j # k => tx'[j] = tx[j],
           \A u \in Uids : rows'[u] = rows[u]
                            \/ (rows[u] = NoKey /\ rows'[u] = k /\ tx[k].uid = u),
           \A h \in Requests :
               \/ reg'[h] = reg[h]
               \/ /\ reg[h].key = k /\ reg[h].pc \in Working
                  /\ reg'[h].pc \in Working => reg'[h].key = k,
           \A h \in Requests :
               reg[h].key = k /\ reg[h].pc \in Working => RequestOwnsTx(h)',
           TxMayCommit(k)',
           tx'[k].uid # NoUid => tx'[k].uid = tx[k].uid \/ ~RowLocked(tx'[k].uid),
           tx'[k].state = "open" =>
               \E h \in Requests : reg'[h].key = k /\ reg'[h].pc \in TxPcs,
           tx'[k].state = "committing" =>
               \E h \in Requests : reg'[h].key = k /\ reg'[h].pc = "CloseTransaction"
    PROVE  RegInv'
<1>1. ASSUME NEW h \in Requests PROVE RequestOwnsTx(h)'
  <2>1. CASE reg[h].key = k /\ reg[h].pc \in Working
    BY <2>1
  <2>2. CASE ~(reg[h].key = k /\ reg[h].pc \in Working)
    <3>1. RequestOwnsTx(h) /\ reg'[h] = reg[h]
      BY <2>2 DEF RegInv, RegConsistent
    <3>2. reg[h].pc \in Working => reg[h].key \in Keys /\ reg[h].key # k
      BY <2>2, <3>1 DEF RequestOwnsTx
    <3> QED BY <3>1, <3>2, RequestStable
  <2> QED BY <2>1, <2>2
<1>2. ASSUME NEW j \in Keys PROVE TxMayCommit(j)'
  <2>1. CASE j = k
    BY <2>1
  <2>2. CASE j # k
    <3>1. TxMayCommit(j) /\ tx'[j] = tx[j]
      BY <2>2 DEF RegInv, RegConsistent
    <3>2. \A u \in Uids : rows[u] # j => rows'[u] # j
      BY <2>2
    <3>3. tx[j].uid # NoUid => tx[j].uid \in Uids /\ tx[j].uid # tx[k].uid
      BY <2>2 DEF RegInv, RegConsistent, RegTypeOK, ContextTypeOK
    <3> QED BY <3>1, <3>2, <3>3 DEF TxMayCommit
  <2> QED BY <2>1, <2>2
<1>3. ASSUME NEW i \in Keys, NEW j \in Keys, tx'[i].uid # NoUid, tx'[i].uid = tx'[j].uid PROVE i = j
  BY <1>3 DEF RegInv, RegConsistent, RowLocked
<1>4. ASSUME NEW h \in Requests, NEW g \in Requests,
             reg'[h].pc \in Working, reg'[g].pc \in Working, reg'[h].key = reg'[g].key
      PROVE  h = g
  BY <1>4 DEF RegInv, RegConsistent
<1>5. RegConsistent'
  BY <1>1, <1>2, <1>3, <1>4 DEF RegConsistent
<1>6. NoLeakedTransaction'
  <2>1. ASSUME NEW j \in Keys, j # k, tx[j].state = "open"
        PROVE  \E h \in Requests : reg'[h].key = j /\ reg'[h].pc \in TxPcs
    BY <2>1 DEF RegInv, NoLeakedTransaction, TxPcs
  <2>2. ASSUME NEW j \in Keys, j # k, tx[j].state = "committing"
        PROVE  \E h \in Requests : reg'[h].key = j /\ reg'[h].pc = "CloseTransaction"
    BY <2>2 DEF RegInv, NoLeakedTransaction
  <2> QED BY <2>1, <2>2 DEF NoLeakedTransaction, TxPcs
<1> QED BY <1>5, <1>6 DEF RegInv

-----------------------------------------------------------------------------

(* One lemma per action.  A request is taken. *)
LEMMA ReceiveInv ==
    ASSUME RegInv, NEW h \in Requests, Receive(h) PROVE RegInv'
<1>1. PICK u \in Uids, ok \in BOOLEAN :
        reg' = [reg EXCEPT ![h] = [pc |-> "Exists", uid |-> u, key |-> NoKey,
                                   tries |-> 0, complete |-> ok]]
  BY DEF Receive
<1>2. UNCHANGED <<rows, tx, identityCache, backend, csrJobs, csrs, granted>> /\ reg[h].pc = "Idle"
  BY DEF Receive
<1>3. RegTypeOK'
  <2>1. [pc |-> "Exists", uid |-> u, key |-> NoKey, tries |-> 0, complete |-> ok] \in RequestStates
    BY DEF RequestStates, Pcs
  <2> QED BY <1>1, <1>2, <2>1 DEF RegInv, RegTypeOK, ContextTypeOK
<1>4. reg'[h].pc = "Exists" /\ reg'[h].uid \in Uids /\ reg'[h].key = NoKey
  BY <1>1 DEF RegInv, RegTypeOK, RequestStates, IdleRequest
<1>5. RequestOwnsTx(h)'
  BY <1>4 DEF RequestOwnsTx, Working
<1>6. \A g \in Requests : g # h => reg'[g] = reg[g]
  BY <1>1 DEF RegInv, RegTypeOK
<1> QED BY <1>2, <1>3, <1>4, <1>5, <1>6, RequestMoves DEF Working, TxPcs

(* An answer, when the request leaves no transaction behind. *)
LEMMA AnswerInv ==
    ASSUME RegInv, NEW h \in Requests, Answer(h),
           identityCache' \in [Uids -> Keys \cup {NoKey}],
           granted' \subseteq Pairs,
           UNCHANGED <<rows, tx, backend, csrJobs, csrs>>,
           reg[h].pc \in {"Exists", "CacheStore", "CloseTransaction"},
           reg[h].pc = "CloseTransaction" => tx[reg[h].key].state = "ended"
    PROVE  RegInv'
<1>1. RegTypeOK'
  <2>1. IdleRequest \in RequestStates
    BY DEF RequestStates, Pcs, IdleRequest
  <2> QED BY <2>1 DEF RegInv, RegTypeOK, ContextTypeOK, Answer
<1>2. reg'[h].pc = "Idle" /\ reg'[h].key = NoKey
  BY DEF RegInv, RegTypeOK, Answer, IdleRequest
<1>3. RequestOwnsTx(h)'
  BY <1>2 DEF RequestOwnsTx, Working
<1>4. \A g \in Requests : g # h => reg'[g] = reg[g]
  BY DEF RegInv, RegTypeOK, Answer
<1> QED BY <1>1, <1>2, <1>3, <1>4, RequestMoves DEF Working, TxPcs

(* Exists has read a committed row and keeps its key to cache it. *)
LEMMA ExistsFetchedInv ==
    ASSUME RegInv, NEW h \in Requests, ExistsFetched(h) PROVE RegInv'
<1>1. PICK k \in Keys :
        /\ rows[reg[h].uid] = k
        /\ reg' = [reg EXCEPT ![h].pc = "CacheStore", ![h].key = k]
  BY DEF ExistsFetched, IdentityFetched
<1>2. UNCHANGED <<rows, tx, identityCache, backend, csrJobs, csrs, granted>> /\ reg[h].pc = "Exists"
  BY DEF ExistsFetched
<1>3. RegTypeOK'
  <2>1. [reg[h] EXCEPT !.pc = "CacheStore", !.key = k] \in RequestStates
    BY DEF RegInv, RegTypeOK, RequestStates, Pcs
  <2> QED BY <1>1, <1>2, <2>1 DEF RegInv, RegTypeOK, ContextTypeOK
<1>4. reg'[h].pc = "CacheStore" /\ reg'[h].uid = reg[h].uid /\ reg'[h].key = k
  BY <1>1 DEF RegInv, RegTypeOK, RequestStates
<1>5. RequestOwnsTx(h)'
  BY <1>1, <1>2, <1>4 DEF RegInv, RegConsistent, RequestOwnsTx, Working
<1>6. \A g \in Requests : g # h => reg'[g] = reg[g]
  BY <1>1 DEF RegInv, RegTypeOK
<1> QED BY <1>2, <1>3, <1>4, <1>5, <1>6, RequestMoves DEF Working, TxPcs

(* Exists finds no row and initIdentity generates a key nobody else has. *)
LEMMA ExistsNotInv ==
    ASSUME RegInv, NEW h \in Requests, ExistsNot(h) PROVE RegInv'
<1>1. PICK k \in Keys :
        Fresh(k) /\ reg' = [reg EXCEPT ![h].pc = "StartTransaction", ![h].key = k]
  BY DEF ExistsNot
<1>2. UNCHANGED <<rows, tx, identityCache, backend, csrJobs, csrs, granted>> /\ reg[h].pc = "Exists"
  BY DEF ExistsNot
<1>3. RegTypeOK'
  <2>1. [reg[h] EXCEPT !.pc = "StartTransaction", !.key = k] \in RequestStates
    BY DEF RegInv, RegTypeOK, RequestStates, Pcs
  <2> QED BY <1>1, <1>2, <2>1 DEF RegInv, RegTypeOK, ContextTypeOK
<1>4. reg'[h].pc = "StartTransaction" /\ reg'[h].uid = reg[h].uid /\ reg'[h].key = k
  BY <1>1 DEF RegInv, RegTypeOK, RequestStates
<1>5. RequestOwnsTx(h)'
  BY <1>1, <1>2, <1>4 DEF RegInv, RegConsistent, RequestOwnsTx, Working, Fresh
<1>6. \A g \in Requests : g # h => reg'[g] = reg[g]
  BY <1>1 DEF RegInv, RegTypeOK
<1>7. \A g \in Requests : reg[g].key # k
  BY <1>1 DEF Fresh
<1> QED BY <1>2, <1>3, <1>4, <1>5, <1>6, <1>7, RequestMoves DEF TxPcs

(* StartTransaction tries again, within maxDbConnAttempts. *)
LEMMA ConnectionNotAvailableInv ==
    ASSUME RegInv, NEW h \in Requests, ConnectionNotAvailable(h) PROVE RegInv'
<1>1. /\ reg[h].pc = "StartTransaction" /\ reg[h].tries + 1 < MaxDbConnAttempts
      /\ reg' = [reg EXCEPT ![h].tries = reg[h].tries + 1]
      /\ UNCHANGED <<rows, tx, identityCache, backend, csrJobs, csrs, granted>>
  BY DEF ConnectionNotAvailable
<1>2. RegTypeOK'
  <2>1. [reg[h] EXCEPT !.tries = reg[h].tries + 1] \in RequestStates
    BY <1>1 DEF RegInv, RegTypeOK, RequestStates
  <2> QED BY <1>1, <2>1 DEF RegInv, RegTypeOK, ContextTypeOK
<1>3. reg'[h].pc = reg[h].pc /\ reg'[h].uid = reg[h].uid /\ reg'[h].key = reg[h].key
  BY <1>1 DEF RegInv, RegTypeOK, RequestStates
<1>4. RequestOwnsTx(h)'
  BY <1>1, <1>3 DEF RegInv, RegConsistent, RequestOwnsTx, Working
<1>5. \A g \in Requests : g # h => reg'[g] = reg[g]
  BY <1>1 DEF RegInv, RegTypeOK
<1>6. \A g \in Requests : g # h /\ reg[g].pc \in Working => reg[g].key # reg'[h].key
  BY <1>1, <1>3 DEF RegInv, RegConsistent, Working
<1> QED BY <1>1, <1>2, <1>3, <1>4, <1>5, <1>6, RequestMoves DEF TxPcs

(* The key service knows the key of the request. *)
LEMMA KeyServiceAcceptsInv ==
    ASSUME RegInv, NEW h \in Requests, KeyServiceAccepts(h) PROVE RegInv'
<1>1. /\ reg[h].pc = "SubmitKeyRegistration"
      /\ reg' = [reg EXCEPT ![h].pc = "KeyRegistered"]
      /\ backend' = backend \cup {<<reg[h].uid, reg[h].key>>}
      /\ UNCHANGED <<rows, tx, identityCache, csrJobs, csrs, granted>>
  BY DEF KeyServiceAccepts, Goto
<1>2. reg[h].uid \in Uids /\ reg[h].key \in Keys
  BY <1>1 DEF RegInv, RegConsistent, RequestOwnsTx, Working
<1>3. RegTypeOK'
  <2>1. [reg[h] EXCEPT !.pc = "KeyRegistered"] \in RequestStates
    BY DEF RegInv, RegTypeOK, RequestStates, Pcs
  <2> QED BY <1>1, <1>2, <2>1 DEF RegInv, RegTypeOK, ContextTypeOK, Pairs
<1>4. reg'[h].pc = "KeyRegistered" /\ reg'[h].uid = reg[h].uid /\ reg'[h].key = reg[h].key
  BY <1>1 DEF RegInv, RegTypeOK, RequestStates
<1>5. RequestOwnsTx(h)'
  <2>1. RequestOwnsTx(h)
    BY DEF RegInv, RegConsistent
  <2>2. <<reg'[h].uid, reg'[h].key>> \in backend'
    BY <1>1, <1>4
  <2> QED BY <1>1, <1>4, <2>1, <2>2 DEF RequestOwnsTx, Working
<1>6. \A g \in Requests : g # h => reg'[g] = reg[g]
  BY <1>1 DEF RegInv, RegTypeOK
<1>7. \A g \in Requests : g # h /\ reg[g].pc \in Working => reg[g].key # reg'[h].key
  BY <1>1, <1>4 DEF RegInv, RegConsistent, Working
<1> QED BY <1>1, <1>3, <1>4, <1>5, <1>6, <1>7, RequestMoves DEF TxPcs

(* The transaction of a request is opened under its fresh key. *)
LEMMA StartTransactionInv ==
    ASSUME RegInv, NEW h \in Requests, StartTransaction(h) PROVE RegInv'
<1>0. PICK k \in Keys : k = reg[h].key
  BY DEF RegInv, RegConsistent, RequestOwnsTx, Working, StartTransaction, Goto
<1>1. /\ reg[h].pc = "StartTransaction"
      /\ reg' = [reg EXCEPT ![h].pc = "StoreNewIdentity"]
      /\ tx' = [tx EXCEPT ![k] = [state |-> "open", uid |-> NoUid]]
      /\ UNCHANGED <<rows, identityCache, backend, csrJobs, csrs, granted>>
  BY <1>0 DEF StartTransaction, Goto, BeginTx
<1>2. RequestOwnsTx(h) /\ tx[k].state = "none"
  BY <1>0, <1>1 DEF RegInv, RegConsistent, RequestOwnsTx, Working
<1>3. TxMayCommit(k)
  BY <1>0, <1>2 DEF RegInv, RegConsistent
<1>4. RegTypeOK'
  <2>1. [reg[h] EXCEPT !.pc = "StoreNewIdentity"] \in RequestStates
    BY <1>0 DEF RegInv, RegTypeOK, RequestStates, Pcs
  <2> QED BY <1>0, <1>1, <1>2, <2>1 DEF RegInv, RegTypeOK, ContextTypeOK, TxStates
<1>5. /\ reg'[h].pc = "StoreNewIdentity" /\ reg'[h].uid = reg[h].uid /\ reg'[h].key = k
      /\ tx'[k].state = "open" /\ tx'[k].uid = NoUid
  BY <1>0, <1>1, <1>2 DEF RegInv, RegTypeOK, RequestStates, ContextTypeOK
<1>6. RequestOwnsTx(h)'
  BY <1>0, <1>1, <1>2, <1>3, <1>5 DEF RequestOwnsTx, TxMayCommit, Working
<1>7. TxMayCommit(k)'
  BY <1>0, <1>1, <1>2, <1>3, <1>5 DEF TxMayCommit
<1>8. \A g \in Requests : g # h => reg'[g] = reg[g] /\ ~(reg[g].key = k /\ reg[g].pc \in Working)
  BY <1>0, <1>1 DEF RegInv, RegTypeOK, RegConsistent, Working
<1>9. \A j \in Keys : j # k => tx'[j] = tx[j]
  BY <1>0, <1>1 DEF RegInv, RegTypeOK, ContextTypeOK
<1> QED BY <1>0, <1>1, <1>2, <1>4, <1>5, <1>6, <1>7, <1>8, <1>9, TransactionMoves DEF TxPcs, Working

(* The INSERT: the row was free and locked by no other transaction. *)
LEMMA StoreNewIdentityInv ==
    ASSUME RegInv, NEW h \in Requests, StoreNewIdentity(h) PROVE RegInv'
<1>0. PICK k \in Keys : k = reg[h].key
  BY DEF RegInv, RegConsistent, RequestOwnsTx, Working, StoreNewIdentity, Goto
<1>1. /\ reg[h].pc = "StoreNewIdentity"
      /\ reg' = [reg EXCEPT ![h].pc = "SubmitKeyRegistration"]
      /\ tx' = [tx EXCEPT ![k].uid = reg[h].uid]
      /\ tx[k].state = "open" /\ ~RowLocked(reg[h].uid) /\ rows[reg[h].uid] = NoKey
      /\ UNCHANGED <<rows, identityCache, backend, csrJobs, csrs, granted>>
  BY <1>0 DEF StoreNewIdentity, Goto, InsertRow, RowFree
<1>2. RequestOwnsTx(h) /\ reg[h].uid \in Uids
  BY <1>0, <1>1 DEF RegInv, RegConsistent, RequestOwnsTx, Working
<1>3. TxMayCommit(k)
  BY <1>0, <1>2 DEF RegInv, RegConsistent
<1>4. RegTypeOK'
  <2>1. [reg[h] EXCEPT !.pc = "SubmitKeyRegistration"] \in RequestStates
    BY <1>0 DEF RegInv, RegTypeOK, RequestStates, Pcs
  <2> QED BY <1>0, <1>1, <1>2, <2>1 DEF RegInv, RegTypeOK, ContextTypeOK
<1>5. /\ reg'[h].pc = "SubmitKeyRegistration" /\ reg'[h].uid = reg[h].uid /\ reg'[h].key = k
      /\ tx'[k].state = "open" /\ tx'[k].uid = reg[h].uid
  BY <1>0, <1>1, <1>2 DEF RegInv, RegTypeOK, RequestStates, ContextTypeOK
<1>6. RequestOwnsTx(h)'
  BY <1>0, <1>1, <1>2, <1>5 DEF RequestOwnsTx, Working
<1>7. TxMayCommit(k)'
  BY <1>0, <1>1, <1>2, <1>3, <1>5 DEF TxMayCommit
<1>8. \A g \in Requests : g # h => reg'[g] = reg[g] /\ ~(reg[g].key = k /\ reg[g].pc \in Working)
  BY <1>0, <1>1 DEF RegInv, RegTypeOK, RegConsistent, Working
<1>9. \A j \in Keys : j # k => tx'[j] = tx[j]
  BY <1>0, <1>1 DEF RegInv, RegTypeOK, ContextTypeOK
<1> QED BY <1>0, <1>1, <1>2, <1>4, <1>5, <1>6, <1>7, <1>8, <1>9, TransactionMoves DEF TxPcs, Working

(* The error returns of initIdentity, and Commit without an answer. *)
LEMMA GiveUpInv ==
    ASSUME RegInv, NEW h \in Requests, Answer(h),
           NEW s \in {"open", "committing"}, NEW t \in {"cancelled", "indoubt"},
           s = "open" <=> t = "cancelled",
           tx' = [tx EXCEPT ![reg[h].key].state = IF @ = s THEN t ELSE @],
           UNCHANGED <<rows, identityCache, backend, csrJobs, csrs, granted>>,
           reg[h].pc \in Working,
           s = "open" <=> reg[h].pc # "CloseTransaction"
    PROVE  RegInv'
<1>0. PICK k \in Keys : k = reg[h].key
  BY DEF RegInv, RegConsistent, RequestOwnsTx
<1>1. RequestOwnsTx(h)
  BY <1>0 DEF RegInv, RegConsistent, RequestOwnsTx
<1>2. TxMayCommit(k)
  BY <1>0, <1>1 DEF RegInv, RegConsistent
<1>3. /\ tx'[k].state = IF tx[k].state = s THEN t ELSE tx[k].state
      /\ tx'[k].uid = tx[k].uid
      /\ \A j \in Keys : j # k => tx'[j] = tx[j]
  BY <1>0, <1>1 DEF RegInv, RegTypeOK, ContextTypeOK
<1>4. RegTypeOK'
  <2>1. IdleRequest \in RequestStates
    BY DEF RequestStates, Pcs, IdleRequest
  <2>2. [tx[k] EXCEPT !.state = IF tx[k].state = s THEN t ELSE tx[k].state]
            \in [state : TxStates, uid : Uids \cup {NoUid}]
    BY <1>0, <1>1 DEF RegInv, RegTypeOK, ContextTypeOK, TxStates
  <2> QED BY <1>0, <2>1, <2>2 DEF RegInv, RegTypeOK, ContextTypeOK, Answer
<1>5. reg'[h].pc = "Idle" /\ reg'[h].key = NoKey
  BY <1>0 DEF RegInv, RegTypeOK, Answer, IdleRequest
<1>6. RequestOwnsTx(h)'
  BY <1>0, <1>5 DEF RequestOwnsTx, Working
<1>7. TxMayCommit(k)'
  BY <1>0, <1>2, <1>3 DEF TxMayCommit
<1>8. \A g \in Requests : g # h => reg'[g] = reg[g] /\ ~(reg[g].key = k /\ reg[g].pc \in Working)
  BY <1>0 DEF RegInv, RegTypeOK, RegConsistent, Answer
<1>9. tx'[k].state \notin {"open", "committing"}
  BY <1>0, <1>1, <1>3 DEF RequestOwnsTx, Working
<1>10. ASSUME NEW g \in Requests
       PROVE  /\ \/ reg'[g] = reg[g]
                 \/ /\ reg[g].key = k /\ reg[g].pc \in Working
                    /\ reg'[g].pc \in Working => reg'[g].key = k
              /\ reg[g].key = k /\ reg[g].pc \in Working => RequestOwnsTx(g)'
  <2>1. CASE g = h
    BY <1>0, <1>5, <1>6, <2>1 DEF Working
  <2>2. CASE g # h
    BY <1>8, <2>2
  <2> QED BY <2>1, <2>2
<1>11. UNCHANGED rows /\ backend' = backend
  OBVIOUS
<1> QED BY <1>3, <1>4, <1>7, <1>9, <1>10, <1>11, TransactionMoves

(* An error return of initIdentity runs the deferred cancel. *)
LEMMA FailInv ==
    ASSUME RegInv, NEW h \in Requests, Fail(h),
           reg[h].pc \in Working, reg[h].pc # "CloseTransaction"
    PROVE  RegInv'
BY GiveUpInv DEF Fail, CancelTx

(* COMMIT is sent: the key is registered and the row is still free. *)
LEMMA CloseTransactionInv ==
    ASSUME RegInv, NEW h \in Requests, CloseTransaction(h) PROVE RegInv'
<1>0. PICK k \in Keys : k = reg[h].key
  BY DEF RegInv, RegConsistent, RequestOwnsTx, Working, CloseTransaction, Goto
<1>1. /\ reg[h].pc = "KeyRegistered"
      /\ reg' = [reg EXCEPT ![h].pc = "CloseTransaction"]
      /\ csrJobs' = csrJobs \cup {<<reg[h].uid, k>>}
      /\ tx' = [tx EXCEPT ![k].state = IF @ = "open" THEN "committing" ELSE @]
      /\ UNCHANGED <<rows, identityCache, backend, csrs, granted>>
  BY <1>0 DEF CloseTransaction, Goto, SendCommit
<1>2. RequestOwnsTx(h) /\ reg[h].uid \in Uids
  BY <1>0, <1>1 DEF RegInv, RegConsistent, RequestOwnsTx, Working
<1>3. TxMayCommit(k) /\ tx[k].state \in {"open", "ended"}
  BY <1>0, <1>1, <1>2 DEF RegInv, RegConsistent, RequestOwnsTx
<1>4. /\ tx'[k].state = IF tx[k].state = "open" THEN "committing" ELSE tx[k].state
      /\ tx'[k].uid = tx[k].uid
      /\ \A j \in Keys : j # k => tx'[j] = tx[j]
  BY <1>0, <1>1, <1>2 DEF RegInv, RegTypeOK, ContextTypeOK
<1>5. RegTypeOK'
  <2>1. [reg[h] EXCEPT !.pc = "CloseTransaction"] \in RequestStates
    BY <1>0 DEF RegInv, RegTypeOK, RequestStates, Pcs
  <2>2. [tx[k] EXCEPT !.state = IF tx[k].state = "open" THEN "committing" ELSE tx[k].state]
            \in [state : TxStates, uid : Uids \cup {NoUid}]
    BY <1>0, <1>2 DEF RegInv, RegTypeOK, ContextTypeOK, TxStates
  <2> QED BY <1>0, <1>1, <1>2, <2>1, <2>2 DEF RegInv, RegTypeOK, ContextTypeOK, Pairs
<1>6. reg'[h].pc = "CloseTransaction" /\ reg'[h].uid = reg[h].uid /\ reg'[h].key = k
  BY <1>0, <1>1 DEF RegInv, RegTypeOK, RequestStates
<1>7. RequestOwnsTx(h)'
  BY <1>0, <1>1, <1>2, <1>3, <1>4, <1>6 DEF RequestOwnsTx, Working
<1>8. TxMayCommit(k)'
  <2>1. /\ <<reg[h].uid, k>> \in backend /\ (\A u \in Uids : rows[u] # k)
        /\ tx[k].state = "open" => tx[k].uid = reg[h].uid
    BY <1>0, <1>1, <1>2 DEF RequestOwnsTx
  <2> QED BY <1>1, <1>2, <1>3, <1>4, <2>1 DEF TxMayCommit
<1>9. \A g \in Requests : g # h => reg'[g] = reg[g] /\ ~(reg[g].key = k /\ reg[g].pc \in Working)
  BY <1>0, <1>1 DEF RegInv, RegTypeOK, RegConsistent, Working
<1>10. ASSUME NEW g \in Requests
       PROVE  /\ \/ reg'[g] = reg[g]
                 \/ /\ reg[g].key = k /\ reg[g].pc \in Working
                    /\ reg'[g].pc \in Working => reg'[g].key = k
              /\ reg[g].key = k /\ reg[g].pc \in Working => RequestOwnsTx(g)'
  <2>1. CASE g = h
    BY <1>0, <1>1, <1>6, <1>7, <2>1 DEF Working
  <2>2. CASE g # h
    BY <1>9, <2>2
  <2> QED BY <2>1, <2>2
<1>11. UNCHANGED rows /\ backend' = backend /\ tx'[k].state # "open"
  BY <1>1, <1>4
<1> QED BY <1>4, <1>5, <1>6, <1>8, <1>10, <1>11, TransactionMoves

(* Commit returns an error and leaves a transaction in doubt. *)
LEMMA CommitUnansweredInv ==
    ASSUME RegInv, NEW h \in Requests, CommitUnanswered(h) PROVE RegInv'
BY GiveUpInv DEF CommitUnanswered, AbandonCommit, Working

(* A transaction that ends without filling a row. *)
LEMMA EndTxInv ==
    ASSUME RegInv, NEW k \in Keys, EndTx(k), tx[k].state # "none",
           UNCHANGED <<rows, identityCache, reg, backend, csrJobs, csrs, granted>>
    PROVE  RegInv'
<1>1. RegTypeOK'
  BY DEF RegInv, RegTypeOK, ContextTypeOK, EndTx, TxStates
<1>2. /\ tx'[k].state = "ended" /\ tx'[k].uid = NoUid
      /\ \A j \in Keys : j # k => tx'[j] = tx[j]
  BY DEF RegInv, RegTypeOK, ContextTypeOK, EndTx
<1>3. TxMayCommit(k)'
  BY <1>2 DEF TxMayCommit
<1>4. ASSUME NEW h \in Requests, reg[h].key = k, reg[h].pc \in Working
      PROVE  RequestOwnsTx(h)'
  <2>1. RequestOwnsTx(h)
    BY DEF RegInv, RegConsistent
  <2> QED BY <1>2, <1>4, <2>1 DEF RequestOwnsTx, Working
<1> QED BY <1>1, <1>2, <1>3, <1>4, TransactionMoves

(* The server commits a transaction, with or without a request that waits. *)
LEMMA TxCommitInv ==
    ASSUME RegInv, NEW k \in Keys, TxCommit(k),
           UNCHANGED <<reg, backend, csrJobs, csrs, granted>>
    PROVE  RegInv'
<1>1. /\ tx[k].state \in {"committing", "indoubt"}
      /\ rows' = [rows EXCEPT ![tx[k].uid] = k]
      /\ tx' = [tx EXCEPT ![k] = [state |-> "ended", uid |-> NoUid]]
      /\ UNCHANGED identityCache
  BY DEF TxCommit, EndTx
<1>2. TxMayCommit(k)
  BY DEF RegInv, RegConsistent
<1>3. tx[k].uid \in Uids /\ rows[tx[k].uid] = NoKey
  BY <1>1, <1>2 DEF TxMayCommit
<1>4. RegTypeOK'
  BY <1>1, <1>3 DEF RegInv, RegTypeOK, ContextTypeOK, TxStates
<1>5. /\ tx'[k].state = "ended" /\ tx'[k].uid = NoUid
      /\ \A j \in Keys : j # k => tx'[j] = tx[j]
  BY <1>1 DEF RegInv, RegTypeOK, ContextTypeOK
<1>6. \A u \in Uids : rows'[u] = rows[u]
                        \/ (rows[u] = NoKey /\ rows'[u] = k /\ tx[k].uid = u)
  BY <1>1, <1>3 DEF RegInv, RegTypeOK, ContextTypeOK
<1>7. TxMayCommit(k)'
  BY <1>5 DEF TxMayCommit
<1>8. ASSUME NEW h \in Requests, reg[h].key = k, reg[h].pc \in Working
      PROVE  RequestOwnsTx(h)'
  <2>1. RequestOwnsTx(h)
    BY DEF RegInv, RegConsistent
  <2>2. reg[h].pc = "CloseTransaction"
    BY <1>1, <1>8, <2>1 DEF RequestOwnsTx, Working
  <2> QED BY <1>5, <1>8, <2>1, <2>2 DEF RequestOwnsTx, Working
<1> QED BY <1>4, <1>5, <1>6, <1>7, <1>8, TransactionMoves

(* The process dies: no request is left, nor a transaction it could own. *)
LEMMA CrashInv == ASSUME RegInv, Crash PROVE RegInv'
<1> DEFINE dies(s) == CASE s \in {"open", "cancelled"} -> "orphaned"
                        [] s = "committing" -> "indoubt"
                        [] OTHER -> s
<1>1. /\ tx' = [k \in Keys |-> [tx[k] EXCEPT !.state = dies(tx[k].state)]]
      /\ identityCache' = [u \in Uids |-> NoKey]
      /\ reg' = [h \in Requests |-> IdleRequest]
      /\ csrJobs' = {}
      /\ UNCHANGED <<rows, backend, csrs, granted>>
  BY DEF Crash, ContextCrash, RegCrash
<1>2. ASSUME NEW k \in Keys
      PROVE  /\ tx'[k] \in [state : TxStates, uid : Uids \cup {NoUid}]
             /\ tx'[k].uid = tx[k].uid
             /\ tx'[k].state = dies(tx[k].state)
  BY <1>1 DEF RegInv, RegTypeOK, ContextTypeOK, TxStates
<1>3. RegTypeOK'
  <2>1. tx' \in [Keys -> [state : TxStates, uid : Uids \cup {NoUid}]]
    BY <1>1, <1>2
  <2>2. IdleRequest \in RequestStates
    BY DEF RequestStates, Pcs, IdleRequest
  <2> QED BY <1>1, <2>1, <2>2 DEF RegInv, RegTypeOK, ContextTypeOK
<1>4. \A h \in Requests : reg'[h].pc = "Idle" /\ reg'[h].key = NoKey
  BY <1>1 DEF IdleRequest
<1>5. \A h \in Requests : RequestOwnsTx(h)'
  BY <1>4 DEF RequestOwnsTx, Working
<1>6. ASSUME NEW k \in Keys PROVE TxMayCommit(k)'
  <2>1. TxMayCommit(k)
    BY DEF RegInv, RegConsistent
  <2> QED BY <1>1, <1>2, <2>1 DEF TxMayCommit
<1>7. RegConsistent'
  BY <1>2, <1>4, <1>5, <1>6 DEF RegInv, RegConsistent, Working
<1>8. NoLeakedTransaction'
  BY <1>2 DEF NoLeakedTransaction
<1> QED BY <1>3, <1>7, <1>8 DEF RegInv

-----------------------------------------------------------------------------
(* Every step of a request preserves the invariant. *)
LEMMA StepInv == ASSUME RegInv, NEW h \in Requests, Step(h) PROVE RegInv'
<1>1. CASE Receive(h)
  BY <1>1, ReceiveInv
<1>2. CASE ExistsCached(h) \/ ExistsFails(h)
  BY <1>2, AnswerInv DEF ExistsCached, ExistsFails, RegInv, RegTypeOK, ContextTypeOK
<1>3. CASE ExistsFetched(h)
  BY <1>3, ExistsFetchedInv
<1>4. CASE ExistsCacheStore(h)
  <2>1. reg[h].key \in Keys
    BY <1>4 DEF RegInv, RegConsistent, RequestOwnsTx, ExistsCacheStore
  <2> QED BY <1>4, <2>1, AnswerInv
            DEF ExistsCacheStore, StoreInCache, RegInv, RegTypeOK, ContextTypeOK
<1>5. CASE ExistsNot(h)
  BY <1>5, ExistsNotInv
<1>6. CASE StartTransaction(h)
  BY <1>6, StartTransactionInv
<1>7. CASE ConnectionNotAvailable(h)
  BY <1>7, ConnectionNotAvailableInv
<1>8. CASE StoreNewIdentity(h)
  BY <1>8, StoreNewIdentityInv
<1>9. CASE StoreRefused(h) \/ DatabaseFault(h) \/ RegistrationFails(h)
  BY <1>9, FailInv DEF StoreRefused, DatabaseFault, RegistrationFails, Working
<1>10. CASE KeyServiceAccepts(h)
  BY <1>10, KeyServiceAcceptsInv
<1>11. CASE CloseTransaction(h)
  BY <1>11, CloseTransactionInv
<1>12. CASE Created(h)
  <2>1. reg[h].uid \in Uids /\ reg[h].key \in Keys
    BY <1>12 DEF RegInv, RegConsistent, RequestOwnsTx, Working, Created
  <2> QED BY <1>12, <2>1, AnswerInv DEF Created, RegInv, RegTypeOK, ContextTypeOK, Pairs
<1>13. CASE CommitRefused(h)
  BY <1>13, AnswerInv DEF CommitRefused, RegInv, RegTypeOK, ContextTypeOK
<1>14. CASE CommitUnanswered(h)
  BY <1>14, CommitUnansweredInv
<1> QED
  BY <1>1, <1>2, <1>3, <1>4, <1>5, <1>6, <1>7, <1>8, <1>9, <1>10, <1>11, <1>12, <1>13, <1>14
  DEF Step, Progress, Fault

(* Every step preserves the invariant: it is inductive. *)
LEMMA NextInv == RegInv /\ [RegNext]_vars => RegInv'
<1> SUFFICES ASSUME RegInv, [RegNext]_vars PROVE RegInv'
  OBVIOUS
<1>1. CASE \E h \in Requests : Step(h)
  BY <1>1, StepInv
<1>2. ASSUME NEW p \in Pairs, SubmitCSR(p) PROVE RegInv'
  BY <1>2 DEF SubmitCSR, RegInv, RegTypeOK, ContextTypeOK, RegConsistent, RequestOwnsTx,
              TxMayCommit, NoLeakedTransaction
<1>3. ASSUME NEW k \in Keys, TxEnds(k) PROVE RegInv'
  BY <1>3, TxCommitInv, EndTxInv DEF TxEnds, TxRollback
<1>4. ASSUME NEW k \in Keys, ConnectionBreaks(k) PROVE RegInv'
  BY <1>4, EndTxInv DEF ConnectionBreaks, TxLost
<1>5. CASE Crash
  BY <1>5, CrashInv
<1>6. CASE UNCHANGED vars
  BY <1>6 DEF vars, RegInv, RegTypeOK, ContextTypeOK, RegConsistent, RequestOwnsTx,
              TxMayCommit, NoLeakedTransaction
<1> QED BY <1>1, <1>2, <1>3, <1>4, <1>5, <1>6 DEF RegNext

(* The inductive invariant holds throughout. *)
THEOREM RegInvariant == RegSpec => []RegInv
BY InitInv, NextInv, PTL DEF RegSpec

(* Every variable keeps its type. *)
THEOREM RegTypeCorrect == RegSpec => []RegTypeOK
BY RegInvariant, PTL DEF RegInv

(* No error path of initIdentity leaves a transaction open behind it, and     *)
(* after a crash none is open: a connection of the pool and a row lock are    *)
(* held by a request in progress or are about to be given back.               *)
THEOREM NoLeak == RegSpec => []NoLeakedTransaction
BY RegInvariant, PTL DEF RegInv

(* Two unfinished attempts never hold the row of one uid, no two requests     *)
(* share a key, and whatever can still commit, even after its request gave up *)
(* or the process died, has a registered key and a free row.                  *)
THEOREM Consistent == RegSpec => []RegConsistent
BY RegInvariant, PTL DEF RegInv

-----------------------------------------------------------------------------

(* Registration implements its contract.  A commit binds an announced key to *)
(* a free uid.                                                               *)
LEMMA CommitBinds ==
    ASSUME RegInv, NEW k \in Keys, TxCommit(k), UNCHANGED <<backend, granted>>
    PROVE  Contract!ContractNext
<1>1. tx[k].state \in {"committing", "indoubt"} /\ rows' = [rows EXCEPT ![tx[k].uid] = k]
  BY DEF TxCommit
<1>2. TxMayCommit(k)
  BY DEF RegInv, RegConsistent
<1>3. tx[k].uid \in Uids /\ <<tx[k].uid, k>> \in backend /\ rows[tx[k].uid] = NoKey
  BY <1>1, <1>2 DEF TxMayCommit
<1>4. \A u \in Uids : rows[u] # k
  BY <1>1, <1>2 DEF TxMayCommit
<1>5. Contract!Bind(tx[k].uid, k)
  BY <1>1, <1>3, <1>4 DEF Contract!Bind
<1> QED BY <1>3, <1>5 DEF Contract!ContractNext

(* Every step of a request is a step of the contract or a stutter. *)
LEMMA StepRefines ==
    ASSUME RegInv, NEW h \in Requests, Step(h)
    PROVE  [Contract!ContractNext]_(Contract!contractVars)
<1>1. CASE KeyServiceAccepts(h)
  <2>1. reg[h].uid \in Uids /\ reg[h].key \in Keys
    BY <1>1 DEF RegInv, RegConsistent, RequestOwnsTx, Working, KeyServiceAccepts, Goto
  <2>2. Contract!Announce(reg[h].uid, reg[h].key)
    BY <1>1 DEF KeyServiceAccepts, Contract!Announce
  <2> QED BY <2>1, <2>2 DEF Contract!ContractNext
<1>2. CASE Created(h)
  <2>1. reg[h].uid \in Uids /\ reg[h].key \in Keys
    BY <1>2 DEF RegInv, RegConsistent, RequestOwnsTx, Working, Created
  <2>2. Contract!Report(reg[h].uid, reg[h].key)
    BY <1>2 DEF Created, Contract!Report
  <2> QED BY <2>1, <2>2 DEF Contract!ContractNext
<1>3. CASE ~KeyServiceAccepts(h) /\ ~Created(h)
  <2>1. UNCHANGED <<rows, backend, granted>>
    BY <1>3 DEF Step, Progress, Fault, Receive, ExistsCached, ExistsFetched, ExistsFails,
                ExistsCacheStore, ExistsNot, StartTransaction, ConnectionNotAvailable,
                StoreNewIdentity, StoreRefused, DatabaseFault, RegistrationFails, Fail,
                CloseTransaction, CommitRefused, CommitUnanswered
  <2> QED BY <2>1 DEF Contract!contractVars
<1> QED BY <1>1, <1>2, <1>3

(* Every step is a step of the contract or a stutter. *)
LEMMA NextRefines ==
    RegInv /\ [RegNext]_vars => [Contract!ContractNext]_(Contract!contractVars)
<1> SUFFICES ASSUME RegInv, [RegNext]_vars
             PROVE  [Contract!ContractNext]_(Contract!contractVars)
  OBVIOUS
<1>1. CASE \E h \in Requests : Step(h)
  BY <1>1, StepRefines
<1>2. ASSUME NEW p \in Pairs, SubmitCSR(p) PROVE UNCHANGED Contract!contractVars
  BY <1>2 DEF SubmitCSR, Contract!contractVars
<1>3. ASSUME NEW k \in Keys, TxEnds(k)
      PROVE  [Contract!ContractNext]_(Contract!contractVars)
  BY <1>3, CommitBinds DEF TxEnds, TxRollback, Contract!contractVars
<1>4. ASSUME NEW k \in Keys, ConnectionBreaks(k) PROVE UNCHANGED Contract!contractVars
  BY <1>4 DEF ConnectionBreaks, TxLost, Contract!contractVars
<1>5. CASE Crash
  BY <1>5 DEF Crash, ContextCrash, RegCrash, Contract!contractVars
<1>6. CASE UNCHANGED vars
  BY <1>6 DEF vars, Contract!contractVars
<1> QED BY <1>1, <1>2, <1>3, <1>4, <1>5, <1>6 DEF RegNext

(* Whatever the requests, the transactions, the key service and crashes do,   *)
(* the committed rows, the registered keys and the reported creations behave  *)
(* as IdentityContract says: a uid gets one registered key and keeps it.      *)
THEOREM Refinement == RegSpec => ImplementsContract
<1>1. RegInit => Contract!ContractInit
  BY DEF RegInit, ContextInit, Contract!ContractInit
<1> QED BY <1>1, RegInvariant, NextRefines, PTL
         DEF RegSpec, ImplementsContract, Contract!ContractSpec

-----------------------------------------------------------------------------

(* What follows from the contract: its steps preserve the two properties. *)
LEMMA ContractKeepsSafe ==
    ASSUME RegTypeOK, CommittedKeyIsRegistered, GrantedIsDurable,
           [Contract!ContractNext]_(Contract!contractVars)
    PROVE  CommittedKeyIsRegistered' /\ GrantedIsDurable'
<1>1. ASSUME NEW u \in Uids, NEW k \in Keys, Contract!Announce(u, k)
      PROVE  CommittedKeyIsRegistered' /\ GrantedIsDurable'
  BY <1>1 DEF Contract!Announce, CommittedKeyIsRegistered, GrantedIsDurable
<1>2. ASSUME NEW u \in Uids, NEW k \in Keys, Contract!Bind(u, k)
      PROVE  CommittedKeyIsRegistered' /\ GrantedIsDurable'
  <2>1. /\ rows[u] = NoKey /\ <<u, k>> \in backend
        /\ rows' = [rows EXCEPT ![u] = k] /\ UNCHANGED <<backend, granted>>
    BY <1>2 DEF Contract!Bind
  <2>2. CommittedKeyIsRegistered'
    BY <2>1 DEF CommittedKeyIsRegistered, RegTypeOK, ContextTypeOK
  <2>3. ASSUME NEW p \in granted PROVE p[1] \in Uids /\ p[2] \in Keys
    BY DEF RegTypeOK, Pairs
  <2>4. GrantedIsDurable'
    BY <2>1, <2>3 DEF GrantedIsDurable, RegTypeOK, ContextTypeOK
  <2> QED BY <2>2, <2>4
<1>3. ASSUME NEW u \in Uids, NEW k \in Keys, Contract!Report(u, k)
      PROVE  CommittedKeyIsRegistered' /\ GrantedIsDurable'
  BY <1>3 DEF Contract!Report, CommittedKeyIsRegistered, GrantedIsDurable
<1>4. CASE UNCHANGED Contract!contractVars
  BY <1>4 DEF Contract!contractVars, CommittedKeyIsRegistered, GrantedIsDurable
<1> QED BY <1>1, <1>2, <1>3, <1>4 DEF Contract!ContractNext

SafeReg == CommittedKeyIsRegistered /\ GrantedIsDurable

(* The two properties hold initially. *)
LEMMA InitSafe == RegInit => SafeReg
BY DEF RegInit, ContextInit, SafeReg, CommittedKeyIsRegistered, GrantedIsDurable

(* Every step preserves them, as a step of the contract. *)
LEMMA NextSafe == RegInv /\ SafeReg /\ [RegNext]_vars => SafeReg'
BY NextRefines, ContractKeepsSafe DEF SafeReg, RegInv

(* Together: the two properties hold throughout. *)
LEMMA SafeThroughout == RegSpec => []SafeReg
BY InitSafe, NextSafe, RegInvariant, PTL DEF RegSpec

(* The public key of every committed identity is at the key service, however  *)
(* registrations, lost answers and crashes interleave.                        *)
THEOREM CommittedIsRegistered == RegSpec => []CommittedKeyIsRegistered
BY SafeThroughout, PTL DEF SafeReg

(* An identity whose creation was reported is in the table with that key for  *)
(* ever.                                                                      *)
THEOREM GrantedStays == RegSpec => []GrantedIsDurable
BY SafeThroughout, PTL DEF SafeReg

-----------------------------------------------------------------------------

(* The identity cache is empty at first. *)
LEMMA InitCache == RegInit => CacheMirrorsTable
BY DEF RegInit, ContextInit, CacheMirrorsTable

(* The contract leaves filled rows alone, so a cached identity stays true.    *)
LEMMA CacheStays ==
    ASSUME RegTypeOK, CacheMirrorsTable, UNCHANGED identityCache,
           [Contract!ContractNext]_(Contract!contractVars)
    PROVE  CacheMirrorsTable'
<1>1. ASSUME NEW u \in Uids, rows[u] # NoKey PROVE rows'[u] = rows[u]
  BY <1>1 DEF Contract!ContractNext, Contract!Announce, Contract!Bind, Contract!Report,
              Contract!contractVars, RegTypeOK, ContextTypeOK
<1> QED BY <1>1 DEF CacheMirrorsTable

(* A request caches only what it has read from the table. *)
LEMMA StepCache ==
    ASSUME RegInv, CacheMirrorsTable, NEW h \in Requests, Step(h) PROVE CacheMirrorsTable'
<1>1. CASE ExistsCacheStore(h)
  <2>1. /\ reg[h].uid \in Uids /\ rows[reg[h].uid] = reg[h].key
        /\ identityCache' = [identityCache EXCEPT ![reg[h].uid] = reg[h].key]
        /\ UNCHANGED rows
    BY <1>1 DEF ExistsCacheStore, StoreInCache, RegInv, RegConsistent, RequestOwnsTx
  <2> QED BY <2>1 DEF CacheMirrorsTable, RegInv, RegTypeOK, ContextTypeOK
<1>2. CASE ~ExistsCacheStore(h)
  <2>1. UNCHANGED identityCache
    BY <1>2 DEF Step, Progress, Fault, Receive, ExistsCached, ExistsFetched, ExistsFails,
                ExistsNot, StartTransaction, ConnectionNotAvailable, StoreNewIdentity,
                StoreRefused, DatabaseFault, RegistrationFails, Fail, KeyServiceAccepts,
                CloseTransaction, Created, CommitRefused, CommitUnanswered
  <2> QED BY <2>1, StepRefines, CacheStays DEF RegInv
<1> QED BY <1>1, <1>2

(* Every step keeps the cache true. *)
LEMMA NextCache == RegInv /\ CacheMirrorsTable /\ [RegNext]_vars => CacheMirrorsTable'
<1> SUFFICES ASSUME RegInv, CacheMirrorsTable, [RegNext]_vars PROVE CacheMirrorsTable'
  OBVIOUS
<1>1. CASE \E h \in Requests : Step(h)
  BY <1>1, StepCache
<1>2. CASE Crash
  BY <1>2 DEF Crash, ContextCrash, CacheMirrorsTable
<1>3. CASE UNCHANGED identityCache
  BY <1>3, NextRefines, CacheStays DEF RegInv
<1>4. ASSUME NEW p \in Pairs, SubmitCSR(p) PROVE UNCHANGED identityCache
  BY <1>4 DEF SubmitCSR
<1>5. ASSUME NEW k \in Keys, TxEnds(k) \/ ConnectionBreaks(k) PROVE UNCHANGED identityCache
  BY <1>5 DEF TxEnds, TxCommit, TxRollback, ConnectionBreaks, TxLost
<1>6. CASE UNCHANGED vars
  BY <1>3, <1>6 DEF vars
<1> QED BY <1>1, <1>2, <1>3, <1>4, <1>5, <1>6 DEF RegNext

(* A cached identity is the committed one: no identity is cached that was     *)
(* rolled back, and none changes after it was cached.                         *)
THEOREM CacheIsTrue == RegSpec => []CacheMirrorsTable
BY InitCache, NextCache, RegInvariant, PTL DEF RegSpec

-----------------------------------------------------------------------------

(* What makes waiting safe: a request that has not inserted its row yet has a *)
(* transaction without one.                                                   *)
NothingInserted ==
    \A h \in Requests : reg[h].pc = "StoreNewIdentity" => tx[reg[h].key].uid = NoUid

(* A step after which a request comes to its insert only with a transaction   *)
(* that is as new as itself, or was there before and inserts nothing.         *)
LEMMA NothingInsertedStays ==
    ASSUME NothingInserted,
           \A h \in Requests : reg'[h].pc = "StoreNewIdentity" =>
               \/ /\ reg[h].pc = "StoreNewIdentity" /\ reg'[h].key = reg[h].key
                  /\ tx'[reg[h].key].uid \in {tx[reg[h].key].uid, NoUid}
               \/ tx'[reg'[h].key].uid = NoUid
    PROVE  NothingInserted'
BY DEF NothingInserted

(* The row is inserted by the request that alone owns the transaction.        *)
LEMMA InsertLeavesOthers ==
    ASSUME RegInv, NothingInserted, NEW h \in Requests, StoreNewIdentity(h)
    PROVE  NothingInserted'
<1>1. /\ reg[h].pc = "StoreNewIdentity"
      /\ reg' = [reg EXCEPT ![h].pc = "SubmitKeyRegistration"]
      /\ tx' = [tx EXCEPT ![reg[h].key].uid = reg[h].uid]
  BY DEF StoreNewIdentity, Goto, InsertRow
<1>2. reg'[h].pc # "StoreNewIdentity" /\ \A g \in Requests : g # h => reg'[g] = reg[g]
  BY <1>1 DEF RegInv, RegTypeOK, RequestStates
<1>3. ASSUME NEW g \in Requests, g # h, reg[g].pc = "StoreNewIdentity"
      PROVE  tx'[reg[g].key] = tx[reg[g].key]
  <2>1. reg[g].key # reg[h].key /\ reg[g].key \in Keys
    BY <1>1, <1>3 DEF RegInv, RegConsistent, RequestOwnsTx, Working
  <2> QED BY <1>1, <2>1 DEF RegInv, RegTypeOK, ContextTypeOK
<1> QED BY <1>2, <1>3, NothingInsertedStays DEF NothingInserted

(* Every step of a request.                                                   *)
LEMMA StepInsertsOnce ==
    ASSUME RegInv, NothingInserted, NEW h \in Requests, Step(h) PROVE NothingInserted'
<1>1. CASE StoreNewIdentity(h)
  BY <1>1, InsertLeavesOthers
<1>2. CASE StartTransaction(h)
  <2>1. /\ reg' = [reg EXCEPT ![h].pc = "StoreNewIdentity"]
        /\ tx' = [tx EXCEPT ![reg[h].key] = [state |-> "open", uid |-> NoUid]]
    BY <1>2 DEF StartTransaction, Goto, BeginTx
  <2>2. \A g \in Requests : reg'[g].key = reg[g].key /\ (g # h => reg'[g] = reg[g])
    BY <2>1 DEF RegInv, RegTypeOK, RequestStates
  <2>3. ASSUME NEW k \in Keys PROVE tx'[k].uid = IF k = reg[h].key THEN NoUid ELSE tx[k].uid
    BY <2>1 DEF RegInv, RegTypeOK, ContextTypeOK
  <2>4. reg[h].key \in Keys
    BY <1>2 DEF StartTransaction, Goto, RegInv, RegConsistent, RequestOwnsTx, Working
  <2>5. \A g \in Requests : reg[g].pc = "StoreNewIdentity" => reg[g].key \in Keys
    BY DEF RegInv, RegConsistent, RequestOwnsTx, Working
  <2> QED BY <2>2, <2>3, <2>4, <2>5, NothingInsertedStays DEF NothingInserted
<1>3. CASE ~StoreNewIdentity(h) /\ ~StartTransaction(h)
  <2>1. \A k \in Keys : tx'[k].uid = tx[k].uid
    BY <1>3 DEF Step, Progress, Fault, Receive, ExistsCached, ExistsFetched, ExistsFails,
                ExistsCacheStore, ExistsNot, ConnectionNotAvailable, StoreRefused,
                DatabaseFault, RegistrationFails, Fail, KeyServiceAccepts, CloseTransaction,
                Created, CommitRefused, CommitUnanswered, CancelTx, SendCommit,
                AbandonCommit, RegInv, RegTypeOK, ContextTypeOK
  <2>2. ASSUME NEW g \in Requests, reg'[g].pc = "StoreNewIdentity" PROVE reg'[g] = reg[g]
    BY <1>3, <2>2 DEF Step, Progress, Fault, Receive, ExistsCached, ExistsFetched,
                ExistsFails, ExistsCacheStore, ExistsNot, ConnectionNotAvailable,
                StoreRefused, DatabaseFault, RegistrationFails, Fail, KeyServiceAccepts,
                CloseTransaction, Created, CommitRefused, CommitUnanswered, Answer,
                IdleRequest, Goto, RegInv, RegTypeOK, RequestStates
  <2>3. \A g \in Requests : reg[g].pc = "StoreNewIdentity" => reg[g].key \in Keys
    BY DEF RegInv, RegConsistent, RequestOwnsTx, Working
  <2> QED BY <2>1, <2>2, <2>3, NothingInsertedStays
<1> QED BY <1>1, <1>2, <1>3

(* Every step of registration.                                                *)
LEMMA NextInsertsOnce == RegInv /\ NothingInserted /\ [RegNext]_vars => NothingInserted'
<1> SUFFICES ASSUME RegInv, NothingInserted, [RegNext]_vars PROVE NothingInserted'
  OBVIOUS
<1>1. CASE \E h \in Requests : Step(h)
  BY <1>1, StepInsertsOnce
<1>2. ASSUME NEW p \in Pairs, SubmitCSR(p) PROVE NothingInserted'
  BY <1>2 DEF SubmitCSR, NothingInserted
<1>3. ASSUME NEW k \in Keys, TxEnds(k) \/ ConnectionBreaks(k) PROVE NothingInserted'
  <2>1. UNCHANGED reg /\ tx' = [tx EXCEPT ![k] = [state |-> "ended", uid |-> NoUid]]
    BY <1>3 DEF TxEnds, TxCommit, TxRollback, ConnectionBreaks, TxLost, EndTx
  <2>2. \A j \in Keys : tx'[j].uid \in {tx[j].uid, NoUid}
    BY <2>1 DEF RegInv, RegTypeOK, ContextTypeOK
  <2>3. \A h \in Requests : reg[h].pc = "StoreNewIdentity" => reg[h].key \in Keys
    BY DEF RegInv, RegConsistent, RequestOwnsTx, Working
  <2> QED BY <2>1, <2>2, <2>3, NothingInsertedStays
<1>4. CASE Crash
  BY <1>4 DEF Crash, RegCrash, IdleRequest, NothingInserted
<1>5. CASE UNCHANGED vars
  BY <1>5 DEF vars, NothingInserted
<1> QED BY <1>1, <1>2, <1>3, <1>4, <1>5 DEF RegNext

(* Who waits for a connection has no transaction yet, and who waits for a row *)
(* has not inserted its own.                                                  *)
LEMMA NoCircle == RegInv /\ NothingInserted => NoCircularWait
<1> SUFFICES ASSUME RegInv, NothingInserted, NEW h \in Requests, NEW k \in Keys,
                    reg[h].key = k
             PROVE  /\ WaitsForConn(h) => ~HoldsConn(k) /\ tx[k].uid = NoUid
                    /\ WaitsForRow(h) => tx[k].uid = NoUid
  BY DEF NoCircularWait
<1>1. ASSUME WaitsForConn(h) PROVE ~HoldsConn(k) /\ tx[k].uid = NoUid
  <2>1. reg[h].pc = "StartTransaction" /\ tx[k].state = "none"
    BY <1>1 DEF WaitsForConn, RegInv, RegConsistent, RequestOwnsTx
  <2> QED BY <2>1 DEF RegInv, RegConsistent, TxMayCommit, HoldsConn
<1>2. ASSUME WaitsForRow(h) PROVE tx[k].uid = NoUid
  BY <1>2 DEF WaitsForRow, NothingInserted
<1> QED BY <1>1, <1>2

(* PUT requests never wait for each other in a circle, for any size of the    *)
(* pool: initIdentity takes its connection first, its row second, and nothing *)
(* after that.                                                                *)
THEOREM NobodyWaitsInCircle == RegSpec => []NoCircularWait
<1>1. RegInit => NothingInserted
  BY DEF RegInit, IdleRequest, NothingInserted
<1> QED BY <1>1, RegInvariant, NextInsertsOnce, NoCircle, PTL DEF RegSpec

=============================================================================
