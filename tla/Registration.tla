----------------------------- MODULE Registration -----------------------------
(***************************************************************************)
(* Registration of new identities: PUT on the creator endpoint             *)
(* (main/main.go, main/identity_handler.go, main/protocol.go), several     *)
(* requests at a time, with crashes of the process, faults of the database *)
(* and lost answers of the key service.                                    *)
(***************************************************************************)
EXTENDS Context

CONSTANTS
    Requests,           \* goroutines that can serve a PUT at the same time
    MaxDbConnAttempts   \* maxDbConnAttempts

ASSUME MaxDbConnAttemptsAssumption == MaxDbConnAttempts \in Nat \ {0}

VARIABLES
    reg,        \* state of each request
    backend,    \* <<uid, key>> registered at the ubirch key service
    csrJobs,    \* <<uid, key>> of the goroutines that submit a CSR
    csrs,       \* <<uid, key>> whose CSR has reached the backend
    granted     \* history: <<uid, key>> whose creation was reported a success

regVars == <<reg, backend, csrJobs, csrs, granted>>
vars == <<rows, tx, identityCache, reg, backend, csrJobs, csrs, granted>>

Pcs == {"Idle", "Exists", "CacheStore", "StartTransaction", "StoreNewIdentity",
        "SubmitKeyRegistration", "KeyRegistered", "CloseTransaction"}

Pairs == Uids \X Keys

(* What a request holds: tries counts the calls of StartTransaction that      *)
(* failed and are repeated, so that the last of MaxDbConnAttempts calls is    *)
(* made with MaxDbConnAttempts - 1 tries behind it; complete is               *)
(* checkIdentityAttributesNotNil of the identity it will store.               *)
RequestStates ==
    [pc : Pcs, uid : Uids \cup {NoUid}, key : Keys \cup {NoKey},
     tries : 0..(MaxDbConnAttempts - 1), complete : BOOLEAN]

RegTypeOK ==
    /\ ContextTypeOK
    /\ reg \in [Requests -> RequestStates]
    /\ backend \subseteq Pairs
    /\ csrJobs \subseteq Pairs
    /\ csrs \subseteq Pairs
    /\ granted \subseteq Pairs

IdleRequest == [pc |-> "Idle", uid |-> NoUid, key |-> NoKey, tries |-> 0, complete |-> TRUE]

RegInit ==
    /\ ContextInit
    /\ reg = [h \in Requests |-> IdleRequest]
    /\ backend = {}
    /\ csrJobs = {}
    /\ csrs = {}
    /\ granted = {}

-----------------------------------------------------------------------------
Goto(h, from, to) ==
    /\ reg[h].pc = from
    /\ reg' = [reg EXCEPT ![h].pc = to]

Answer(h) == reg' = [reg EXCEPT ![h] = IdleRequest]

(* A key pair nothing refers to: what GenerateKey can return. *)
Fresh(k) == tx[k].state = "none" /\ \A h \in Requests : reg[h].key # k

(* Bound on the number of key pairs: a request is only taken while there is  *)
(* one left for it.                                                          *)
KeyBudget ==
    Cardinality({k \in Keys : Fresh(k)})
        > Cardinality({h \in Requests : reg[h].pc # "Idle" /\ reg[h].key = NoKey})

Receive(h) ==
    /\ reg[h].pc = "Idle"
    /\ KeyBudget
    /\ \E u \in Uids, ok \in BOOLEAN :
        reg' = [reg EXCEPT ![h] = [pc |-> "Exists", uid |-> u, key |-> NoKey,
                                   tries |-> 0, complete |-> ok]]
    /\ UNCHANGED <<rows, tx, identityCache, backend, csrJobs, csrs, granted>>

(* Exists finds the identity in the cache: the request is refused. *)
ExistsCached(h) ==
    /\ reg[h].pc = "Exists"
    /\ \E k \in Keys : IdentityCached(reg[h].uid, k)
    /\ Answer(h)
    /\ UNCHANGED <<rows, tx, identityCache, backend, csrJobs, csrs, granted>>

(* Exists reads the row, which is stored in the cache later. *)
ExistsFetched(h) ==
    /\ reg[h].pc = "Exists"
    /\ identityCache[reg[h].uid] = NoKey
    /\ \E k \in Keys :
        /\ IdentityFetched(reg[h].uid, k)
        /\ reg' = [reg EXCEPT ![h].pc = "CacheStore", ![h].key = k]
    /\ UNCHANGED <<rows, tx, identityCache, backend, csrJobs, csrs, granted>>

ExistsCacheStore(h) ==
    /\ reg[h].pc = "CacheStore"
    /\ StoreInCache(reg[h].uid, reg[h].key)
    /\ Answer(h)
    /\ UNCHANGED <<rows, tx, backend, csrJobs, csrs, granted>>

(* GetIdentity returns another error. *)
ExistsFails(h) ==
    /\ reg[h].pc = "Exists"
    /\ identityCache[reg[h].uid] = NoKey
    /\ Answer(h)
    /\ UNCHANGED <<rows, tx, identityCache, backend, csrJobs, csrs, granted>>

(* There is no such identity: initIdentity generates its key pair. *)
ExistsNot(h) ==
    /\ reg[h].pc = "Exists"
    /\ IdentityNotExist(reg[h].uid)
    /\ \E k \in Keys :
        /\ Fresh(k)
        /\ reg' = [reg EXCEPT ![h].pc = "StartTransaction", ![h].key = k]
    /\ UNCHANGED <<rows, tx, identityCache, backend, csrJobs, csrs, granted>>

StartTransaction(h) ==
    /\ Goto(h, "StartTransaction", "StoreNewIdentity")
    /\ BeginTx(reg[h].key)
    /\ UNCHANGED <<rows, identityCache, backend, csrJobs, csrs, granted>>

(* Mutant: one attempt too many. *)
RetryOffByOne(h) ==
    /\ reg[h].pc = "StartTransaction"
    /\ reg[h].tries < MaxDbConnAttempts
    /\ reg' = [reg EXCEPT ![h].tries = @ + 1]
    /\ UNCHANGED <<rows, tx, identityCache, backend, csrJobs, csrs, granted>>

(* The server has no connection left: StartTransaction tries again. *)
ConnectionNotAvailable(h) ==
    /\ reg[h].pc = "StartTransaction"
    /\ reg[h].tries + 1 < MaxDbConnAttempts
    /\ reg' = [reg EXCEPT ![h].tries = @ + 1]
    /\ UNCHANGED <<rows, tx, identityCache, backend, csrJobs, csrs, granted>>

(* Mutant: the identity is cached as soon as it is inserted. *)
StoreAndCache(h) ==
    /\ reg[h].complete
    /\ Goto(h, "StoreNewIdentity", "SubmitKeyRegistration")
    /\ InsertRow(reg[h].key, reg[h].uid)
    /\ StoreInCache(reg[h].uid, reg[h].key)
    /\ UNCHANGED <<rows, backend, csrJobs, csrs, granted>>

StoreNewIdentity(h) ==
    /\ reg[h].complete
    /\ Goto(h, "StoreNewIdentity", "SubmitKeyRegistration")
    /\ InsertRow(reg[h].key, reg[h].uid)
    /\ UNCHANGED <<rows, identityCache, backend, csrJobs, csrs, granted>>

(* Mutant: the deferred cancel is missing. *)
FailWithoutCancel(h) ==
    /\ Answer(h)
    /\ UNCHANGED <<rows, tx, identityCache, backend, csrJobs, csrs, granted>>

(* An error return of initIdentity: the deferred cancel dooms the open       *)
(* transaction, if there is one.                                             *)
Fail(h) ==
    /\ Answer(h)
    /\ CancelTx(reg[h].key)
    /\ UNCHANGED <<rows, identityCache, backend, csrJobs, csrs, granted>>

(* The identity misses an attribute, its uid is already in the table, or the *)
(* connection of the transaction is broken.                                  *)
StoreRefused(h) ==
    /\ reg[h].pc = "StoreNewIdentity"
    /\ ~reg[h].complete \/ ~RowFree(reg[h].uid) \/ tx[reg[h].key].state # "open"
    /\ Fail(h)

(* StartTransaction or StoreNewIdentity returns another error. *)
DatabaseFault(h) ==
    /\ reg[h].pc \in {"StartTransaction", "StoreNewIdentity"}
    /\ Fail(h)

(* SubmitKeyRegistration: the key service accepts the key, and the answer    *)
(* comes back or is lost; or the call fails before that.                     *)
KeyServiceAccepts(h) ==
    /\ Goto(h, "SubmitKeyRegistration", "KeyRegistered")
    /\ backend' = backend \cup {<<reg[h].uid, reg[h].key>>}
    /\ UNCHANGED <<rows, tx, identityCache, csrJobs, csrs, granted>>

(* Mutant: the error of registerPublicKey is not returned. *)
RegistrationErrorIgnored(h) ==
    /\ Goto(h, "SubmitKeyRegistration", "KeyRegistered")
    /\ UNCHANGED <<rows, tx, identityCache, backend, csrJobs, csrs, granted>>

(* Mutant: the attempt is begun again, the deferred cancel has not run.       *)
RegistrationRetried(h) ==
    /\ reg[h].pc \in {"SubmitKeyRegistration", "KeyRegistered"}
    /\ reg' = [reg EXCEPT ![h].pc = "StartTransaction"]
    /\ UNCHANGED <<rows, tx, identityCache, backend, csrJobs, csrs, granted>>

RegistrationFails(h) ==
    /\ reg[h].pc \in {"SubmitKeyRegistration", "KeyRegistered"}
    /\ Fail(h)

(* registerPublicKey returns: the CSR is on its way, COMMIT is sent. *)
CloseTransaction(h) ==
    /\ Goto(h, "KeyRegistered", "CloseTransaction")
    /\ csrJobs' = csrJobs \cup {<<reg[h].uid, reg[h].key>>}
    /\ SendCommit(reg[h].key)
    /\ UNCHANGED <<rows, identityCache, backend, csrs, granted>>

(* The answer of the server to COMMIT. *)
Created(h) ==
    /\ reg[h].pc = "CloseTransaction"
    /\ tx[reg[h].key].state = "ended"
    /\ rows[reg[h].uid] = reg[h].key
    /\ granted' = granted \cup {<<reg[h].uid, reg[h].key>>}
    /\ Answer(h)
    /\ UNCHANGED <<rows, tx, identityCache, backend, csrJobs, csrs>>

(* Mutant: the error of Commit is not returned. *)
CommitErrorIgnored(h) ==
    /\ reg[h].pc = "CloseTransaction"
    /\ tx[reg[h].key].state = "ended"
    /\ granted' = granted \cup {<<reg[h].uid, reg[h].key>>}
    /\ Answer(h)
    /\ UNCHANGED <<rows, tx, identityCache, backend, csrJobs, csrs>>

CommitRefused(h) ==
    /\ reg[h].pc = "CloseTransaction"
    /\ tx[reg[h].key].state = "ended"
    /\ rows[reg[h].uid] # reg[h].key
    /\ Answer(h)
    /\ UNCHANGED <<rows, tx, identityCache, backend, csrJobs, csrs, granted>>

(* The connection breaks before the answer arrives: Commit returns an error  *)
(* and what the server does with the transaction stays unknown.              *)
CommitUnanswered(h) ==
    /\ reg[h].pc = "CloseTransaction"
    /\ Answer(h)
    /\ AbandonCommit(reg[h].key)
    /\ UNCHANGED <<rows, identityCache, backend, csrJobs, csrs, granted>>

(* submitCSROrLogError: one attempt, an error is only logged. *)
SubmitCSR(p) ==
    /\ p \in csrJobs
    /\ csrJobs' = csrJobs \ {p}
    /\ csrs' \in {csrs, csrs \cup {p}}
    /\ UNCHANGED <<rows, tx, identityCache, reg, backend, granted>>

TxEnds(k) ==
    /\ TxCommit(k) \/ TxRollback(k)
    /\ UNCHANGED <<reg, backend, csrJobs, csrs, granted>>

ConnectionBreaks(k) ==
    /\ TxLost(k)
    /\ UNCHANGED <<reg, backend, csrJobs, csrs, granted>>

(* The process dies and is started again. *)
RegCrash ==
    /\ reg' = [h \in Requests |-> IdleRequest]
    /\ csrJobs' = {}
    /\ UNCHANGED <<backend, csrs, granted>>

Crash == ContextCrash /\ RegCrash

(* The steps of a request that lead to its answer. *)
Progress(h) ==
    \/ ExistsCached(h) \/ ExistsFetched(h) \/ ExistsCacheStore(h) \/ ExistsNot(h)
    \/ StartTransaction(h)
    \/ StoreNewIdentity(h) \/ StoreRefused(h)
    \/ KeyServiceAccepts(h) \/ CloseTransaction(h)
    \/ Created(h) \/ CommitRefused(h)

Fault(h) ==
    \/ ExistsFails(h) \/ ConnectionNotAvailable(h) \/ DatabaseFault(h)
    \/ RegistrationFails(h) \/ CommitUnanswered(h)

Step(h) == Receive(h) \/ Progress(h) \/ Fault(h)

RegNext ==
    \/ \E h \in Requests : Step(h)
    \/ \E p \in Pairs : SubmitCSR(p)
    \/ \E k \in Keys : TxEnds(k) \/ ConnectionBreaks(k)
    \/ Crash

RegSpec == RegInit /\ [][RegNext]_vars

(* Fairness: goroutines run; database/sql serves waiting requests in order   *)
(* and PostgreSQL serves waiters of a lock in order, hence strong fairness   *)
(* for the steps that wait for them; the key service answers; a transaction  *)
(* that is doomed or asked to commit ends.                                   *)
RegFairness ==
    /\ \A h \in Requests : SF_vars(Progress(h))
    /\ \A k \in Keys : WF_vars(TxEnds(k))

FairRegSpec == RegSpec /\ RegFairness

-----------------------------------------------------------------------------
(* Safety *)

(* An identity the service can sign with has its public key at the key       *)
(* service: initIdentity registers the key before it commits the row, and    *)
(* nothing else fills a row.                                                 *)
CommittedKeyIsRegistered ==
    \A u \in Uids : rows[u] # NoKey => <<u, rows[u]>> \in backend

(* A creation that was reported a success is never lost or replaced, whatever *)
(* concurrent attempts for the same uid and crashes do.                       *)
GrantedIsDurable ==
    \A p \in granted : rows[p[1]] = p[2]

(* A cached identity is the committed one: nothing is cached that could be    *)
(* rolled back, and no row changes under the cache.                           *)
CacheMirrorsTable ==
    \A u \in Uids : identityCache[u] # NoKey => identityCache[u] = rows[u]

(* A transaction is open only while a request works on it, so that no error   *)
(* path of initIdentity leaks a connection or a row lock.                     *)
NoLeakedTransaction ==
    \A k \in Keys :
        /\ tx[k].state = "open" =>
            \E h \in Requests :
                /\ reg[h].key = k
                /\ reg[h].pc \in {"StoreNewIdentity", "SubmitKeyRegistration", "KeyRegistered"}
        /\ tx[k].state = "committing" =>
            \E h \in Requests : reg[h].key = k /\ reg[h].pc = "CloseTransaction"

(* The requests that wait for a connection of the pool, and those that wait   *)
(* for another transaction that has inserted their uid.                       *)
WaitsForConn(h) == reg[h].pc \in {"Exists", "StartTransaction"} /\ ~PoolHasConn

WaitsForRow(h) == reg[h].pc = "StoreNewIdentity" /\ RowLocked(reg[h].uid)

(* Nobody waits in a circle: a request that waits for a connection holds none *)
(* and no row, and one that waits for a row may hold a connection but no row  *)
(* itself, so the locks are held by requests that only call the key service   *)
(* or commit, and by transactions nobody works on any more.                   *)
NoCircularWait ==
    \A h \in Requests, k \in Keys :
        reg[h].key = k =>
            /\ WaitsForConn(h) => ~HoldsConn(k) /\ tx[k].uid = NoUid
            /\ WaitsForRow(h) => tx[k].uid = NoUid

(* How a request, its transaction and its key go together at each step.       *)
Working == {"StartTransaction", "StoreNewIdentity", "SubmitKeyRegistration",
            "KeyRegistered", "CloseTransaction"}

RequestOwnsTx(h) ==
    LET r == reg[h]
    IN  /\ r.pc \in {"Idle", "Exists"} => r.key = NoKey
        /\ r.pc # "Idle" => r.uid \in Uids
        /\ r.pc = "CacheStore" => r.key \in Keys /\ rows[r.uid] = r.key
        /\ r.pc \in Working => r.key \in Keys
        /\ r.pc = "StartTransaction" => tx[r.key].state = "none"
        /\ r.pc \in {"StoreNewIdentity", "SubmitKeyRegistration", "KeyRegistered"} =>
            /\ tx[r.key].state \in {"open", "ended"}
            /\ \A u \in Uids : rows[u] # r.key
        /\ r.pc \in {"SubmitKeyRegistration", "KeyRegistered"} =>
            (tx[r.key].state = "open" => tx[r.key].uid = r.uid)
        /\ r.pc \in {"KeyRegistered", "CloseTransaction"} => <<r.uid, r.key>> \in backend
        /\ r.pc = "CloseTransaction" =>
            /\ tx[r.key].state \in {"committing", "ended"}
            /\ tx[r.key].state = "committing" => tx[r.key].uid = r.uid

(* What a transaction that has not ended may still do to the table. *)
TxMayCommit(k) ==
    /\ tx[k].state \in {"none", "ended"} => tx[k].uid = NoUid
    /\ tx[k].state # "ended" => \A u \in Uids : rows[u] # k
    /\ tx[k].uid # NoUid => rows[tx[k].uid] = NoKey
    /\ tx[k].state \in {"committing", "indoubt"} =>
        tx[k].uid \in Uids /\ <<tx[k].uid, k>> \in backend

(* The invariant behind the others: at most one unfinished transaction holds  *)
(* the row of a uid, no two attempts share a key, and a transaction that can  *)
(* still commit has its key registered and its row free, even when nobody     *)
(* waits for the commit any more.                                             *)
RegConsistent ==
    /\ \A h \in Requests : RequestOwnsTx(h)
    /\ \A h, g \in Requests :
        reg[h].pc \in Working /\ reg[g].pc \in Working /\ reg[h].key = reg[g].key => h = g
    /\ \A k \in Keys : TxMayCommit(k)
    /\ \A j, k \in Keys : tx[j].uid # NoUid /\ tx[j].uid = tx[k].uid => j = k

(* Registration implements its contract: the committed rows are the bindings, *)
(* and every other step of requests, transactions and crashes is invisible.   *)
Contract == INSTANCE IdentityContract
                WITH bound <- rows, known <- backend, reported <- granted

ImplementsContract == Contract!ContractSpec

(* Liveness *)

(* Every PUT is answered, although requests wait for connections of the pool  *)
(* and for row locks that other requests hold while they call the key service. *)
RequestsAnswered ==
    \A h \in Requests : reg[h].pc # "Idle" ~> reg[h].pc = "Idle"

(* Every transaction ends and gives back its connection and its row lock. *)
TransactionsEnd ==
    \A k \in Keys : tx[k].state # "none" ~> tx[k].state = "ended"

=============================================================================
