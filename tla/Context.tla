-------------------------------- MODULE Context --------------------------------
(***************************************************************************)
(* The identity table, its transactions and the identity cache             *)
(* (main/database.go, the cache of main/protocol.go).                      *)
(*                                                                         *)
(* Every registration attempt generates a key pair of its own, so the key  *)
(* names the attempt and the database transaction the attempt opens.  A    *)
(* row of the table is abstracted to the public key it stores.             *)
(***************************************************************************)
EXTENDS Integers, FiniteSets

CONSTANTS
    Uids,           \* UUIDs of identities
    Keys,           \* key pairs, in the order-free sense of "fresh values"
    NoUid, NoKey,
    MaxOpenConns    \* limit of the connection pool; no limit if not positive

ASSUME NoUidAssumption == NoUid \notin Uids
ASSUME NoKeyAssumption == NoKey \notin Keys
ASSUME MaxOpenConnsAssumption == MaxOpenConns \in Int

VARIABLES
    rows,           \* [Uids -> Keys \cup {NoKey}]: committed rows
    tx,             \* transaction of each key
    identityCache   \* [Uids -> Keys \cup {NoKey}]: the process's sync.Map

contextVars == <<rows, tx, identityCache>>

(***************************************************************************)
(* State of a transaction:                                                 *)
(*   open        begun, its context is live                                *)
(*   cancelled   its context is cancelled, database/sql will roll it back  *)
(*   committing  COMMIT is sent and the caller waits for the answer        *)
(*   indoubt     COMMIT is sent and nobody waits for the answer any more   *)
(*   orphaned    the process died before it sent COMMIT                    *)
(* uid is the uid of the row the transaction has inserted, or NoUid.       *)
(***************************************************************************)
TxStates == {"none", "open", "cancelled", "committing", "indoubt", "orphaned", "ended"}

ContextTypeOK ==
    /\ rows \in [Uids -> Keys \cup {NoKey}]
    /\ tx \in [Keys -> [state : TxStates, uid : Uids \cup {NoUid}]]
    /\ identityCache \in [Uids -> Keys \cup {NoKey}]

ContextInit ==
    /\ rows = [u \in Uids |-> NoKey]
    /\ tx = [k \in Keys |-> [state |-> "none", uid |-> NoUid]]
    /\ identityCache = [u \in Uids |-> NoKey]

-----------------------------------------------------------------------------
(* Connection pool.  A transaction keeps its connection until it ends, or   *)
(* until the process or the connection is gone.                             *)

HoldsConn(k) == tx[k].state \in {"open", "cancelled", "committing"}

PoolHasConn ==
    \/ MaxOpenConns <= 0
    \/ Cardinality({k \in Keys : HoldsConn(k)}) < MaxOpenConns

(* Transactions. *)

BeginTx(k) ==
    /\ PoolHasConn
    /\ tx' = [tx EXCEPT ![k] = [state |-> "open", uid |-> NoUid]]

(* Mutant: a table without the primary key does not make an INSERT wait. *)
RowNeverLocked(u) == FALSE

(* Mutant: INSERT ... ON CONFLICT DO UPDATE. *)
RowFreeUpsert(u) == TRUE

(* The primary key: an INSERT waits for every transaction that has inserted *)
(* the same uid, and is refused once the uid is in the table.               *)
RowLocked(u) == \E k \in Keys : tx[k].uid = u

RowFree(u) == rows[u] = NoKey

InsertRow(k, u) ==
    /\ tx[k].state = "open"
    /\ ~RowLocked(u)
    /\ RowFree(u)
    /\ tx' = [tx EXCEPT ![k].uid = u]

SendCommit(k) == tx' = [tx EXCEPT ![k].state = IF @ = "open" THEN "committing" ELSE @]

(* Mutant: the context of the transaction is never cancelled. *)
CancelForgotten(k) == UNCHANGED tx

CancelTx(k) == tx' = [tx EXCEPT ![k].state = IF @ = "open" THEN "cancelled" ELSE @]

(* The caller of Commit gives up: the transaction stays with the server. *)
AbandonCommit(k) == tx' = [tx EXCEPT ![k].state = IF @ = "committing" THEN "indoubt" ELSE @]

EndTx(k) == tx' = [tx EXCEPT ![k] = [state |-> "ended", uid |-> NoUid]]

(* The server commits: the inserted row becomes visible. *)
TxCommit(k) ==
    /\ tx[k].state \in {"committing", "indoubt"}
    /\ rows' = [rows EXCEPT ![tx[k].uid] = k]
    /\ EndTx(k)
    /\ UNCHANGED identityCache

(* The server or database/sql rolls back: the context was cancelled, the    *)
(* client is gone, or the commit fails (serialization failure).             *)
TxRollback(k) ==
    /\ tx[k].state \in {"cancelled", "committing", "indoubt", "orphaned"}
    /\ EndTx(k)
    /\ UNCHANGED <<rows, identityCache>>

(* The connection of an open transaction breaks: the server rolls back and  *)
(* the client learns of it with its next statement.                         *)
TxLost(k) ==
    /\ tx[k].state = "open"
    /\ EndTx(k)
    /\ UNCHANGED <<rows, identityCache>>

(* The process dies: its cache is lost, the server keeps its transactions. *)
ContextCrash ==
    /\ tx' = [k \in Keys |->
                [tx[k] EXCEPT !.state = CASE @ \in {"open", "cancelled"} -> "orphaned"
                                          [] @ = "committing" -> "indoubt"
                                          [] OTHER -> @]]
    /\ identityCache' = [u \in Uids |-> NoKey]
    /\ UNCHANGED rows

-----------------------------------------------------------------------------
(* GetIdentity, in the steps other goroutines can see. *)

IdentityCached(u, k) == k # NoKey /\ identityCache[u] = k

IdentityFetched(u, k) == PoolHasConn /\ k # NoKey /\ rows[u] = k

IdentityNotExist(u) == identityCache[u] = NoKey /\ PoolHasConn /\ rows[u] = NoKey

StoreInCache(u, k) == identityCache' = [identityCache EXCEPT ![u] = k]

=============================================================================
