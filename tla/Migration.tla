------------------------------ MODULE Migration ------------------------------
(***************************************************************************)
(* The migration of file based identities into the table                   *)
(* (main/migrator.go), in a process of its own: the identities come from   *)
(* the configuration, their keys from the key file, which other processes  *)
(* wrote before, and a service that uses the same table may register       *)
(* identities meanwhile.  The whole migration is one transaction, whose    *)
(* commit can be left in doubt, but the lookup of each identity takes a    *)
(* second connection of the pool.                                          *)
(***************************************************************************)
EXTENDS Integers, Config, KeyFile

CONSTANTS
    Uids,
    Configs         \* the configurations a migration is started with

ASSUME EntriesAssumption == Entries = Uids \X {"private", "public"}
ASSUME ConfigsAssumption ==
    \A c \in Configs :
        /\ c.identities \in Seq(Range(c.identities)) /\ IsFiniteSet(c.tokens)
        /\ \A i \in DOMAIN c.identities : c.identities[i].uid \in Uids \cup {NilUid}
        /\ \A e \in c.tokens : e.uid \in Uids
        /\ c.dbMaxOpenConns \in Int

VARIABLES
    table,      \* [Uids -> {"none", "file", "service"}]: where the committed row is from
    identities, \* the list that is migrated, with the keys of the file
    mig,        \* the process: pc and position in the list
    staged,     \* uids inserted by the transaction of the migration
    doubtful,   \* transactions that were asked to commit and have no process any more
    maxOpenConns \* limit of the connection pool of the process; none if not positive

migVars == <<disk, mgr, kept, faults, exposed,
             table, identities, mig, staged, doubtful, maxOpenConns>>

Running ==
    mig.pc \in {"StartTransaction", "GetIdentity", "StoreNewIdentity", "CloseTransaction"}

MigEntries ==
    [uid : Uids, private : {"none", "empty", "key"}, public : {"none", "empty", "key"}]

MigStates ==
    [pc : {"Idle", "StartTransaction", "GetIdentity", "StoreNewIdentity", "CloseTransaction",
           "Done", "Failed"},
     next : Nat \ {0}]

(* What a transaction in doubt has inserted, and the list it was made for. *)
Doubts == [rows : SUBSET Uids, list : SUBSET Uids]

MigTypeOK ==
    /\ KeyFileTypeOK
    /\ table \in [Uids -> {"none", "file", "service"}]
    /\ identities \in Seq(MigEntries)
    /\ mig \in MigStates
    /\ mig.next <= Len(identities) + 1
    /\ staged \subseteq Uids
    /\ doubtful \subseteq Doubts
    /\ maxOpenConns \in Int

MigInit ==
    /\ KeyFileInit
    /\ table = [u \in Uids |-> "none"]
    /\ identities = <<>>
    /\ mig = [pc |-> "Idle", next |-> 1]
    /\ staged = {}
    /\ doubtful = {}
    /\ maxOpenConns = 0

-----------------------------------------------------------------------------
(* The uids of the list. *)
Listed == {identities[i].uid : i \in DOMAIN identities}

(* The transaction holds a connection while an identity is looked up. *)
PoolHasSecondConn == maxOpenConns # 1

(* Where the loop goes on. *)
Continue(i) ==
    mig' = IF i > Len(identities') THEN [pc |-> "CloseTransaction", next |-> i]
                                   ELSE [pc |-> "GetIdentity", next |-> i]

(* The process ends with an error, and its pool with it. *)
GivesUp ==
    /\ mig' = [pc |-> "Failed", next |-> 1]
    /\ identities' = <<>>
    /\ staged' = {}
    /\ maxOpenConns' = 0
    /\ UNCHANGED table

(* An error return: the deferred cancel rolls the transaction back. *)
Abort == GivesUp /\ UNCHANGED doubtful

(* The answer to COMMIT does not arrive: the server may still obey it. *)
CommitUnanswered ==
    /\ mig.pc = "CloseTransaction"
    /\ GivesUp
    /\ doubtful' = doubtful \cup {[rows |-> staged, list |-> Listed]}

(* getKeysFromFile: the entries of a list with their keys. *)
WithKeys(list, keys) ==
    [i \in DOMAIN list |->
        [uid |-> list[i].uid,
         private |-> keys[<<list[i].uid, "private">>],
         public |-> keys[<<list[i].uid, "public">>]]]

EntryFound(id) == id.private # "none" /\ id.public # "none"

(* The process is started, and reads the identities and the key file. *)
StartMigration(c, readable) ==
    LET l == LoadFile("flat", readable) IN
    /\ ~Running /\ Load(c) /\ l.ok
    /\ \E list \in IdentityLists(c) : identities' = WithKeys(list, l.keys)
    /\ \A i \in DOMAIN identities' : EntryFound(identities'[i])
    /\ mig' = [pc |-> "StartTransaction", next |-> 1]
    /\ maxOpenConns' = c.dbMaxOpenConns
    /\ UNCHANGED <<table, staged, doubtful>>

(* The lists are refused, the key file is, or it misses a key. *)
StartRefused(c, readable) ==
    LET l == LoadFile("flat", readable) IN
    /\ ~Running /\ Load(c)
    /\ \/ IdentityLists(c) = {}
       \/ ~l.ok
       \/ \E list \in IdentityLists(c) : \E i \in DOMAIN list :
            ~EntryFound(WithKeys(list, l.keys)[i])
    /\ Abort

(* The database is opened and the transaction begins. *)
BeginMigration ==
    /\ mig.pc = "StartTransaction"
    /\ UNCHANGED <<table, identities, staged, doubtful, maxOpenConns>>
    /\ Continue(1)

BeginFault == mig.pc = "StartTransaction" /\ Abort

(* The identity exists, which is only logged, or it does not. *)
LookupIdentity ==
    /\ mig.pc = "GetIdentity"
    /\ PoolHasSecondConn
    /\ mig' = [mig EXCEPT !.pc = "StoreNewIdentity"]
    /\ UNCHANGED <<table, identities, staged, doubtful, maxOpenConns>>

LookupFault == mig.pc = "GetIdentity" /\ PoolHasSecondConn /\ Abort

Entry == identities[mig.next]

(* LoadIdentitiesFile and LoadTokens have refused empty tokens. *)
AttributesNotEmpty == Entry.private = "key" /\ Entry.public = "key"

UidFree(u) == table[u] = "none" /\ u \notin staged

(* An INSERT waits for the end of a transaction that has inserted the uid. *)
InDoubt(u) == \E d \in doubtful : u \in d.rows

Insert(step) ==
    /\ mig.pc = "StoreNewIdentity"
    /\ ~InDoubt(Entry.uid)
    /\ staged' = staged \cup {Entry.uid}
    /\ UNCHANGED <<table, identities, doubtful, maxOpenConns>>
    /\ Continue(mig.next + step)

(* Mutant: the identity behind a stored one is skipped. *)
InsertSkipsNext == Insert(2) /\ AttributesNotEmpty /\ UidFree(Entry.uid)

(* Mutant: the primary key does not protect the rows of the service. *)
InsertOverService == Insert(1) /\ AttributesNotEmpty /\ Entry.uid \notin staged

(* Mutant: the keys are not checked. *)
InsertUnchecked == Insert(1) /\ UidFree(Entry.uid)

InsertIdentity == Insert(1) /\ AttributesNotEmpty /\ UidFree(Entry.uid)

Refused ==
    /\ mig.pc = "StoreNewIdentity"
    /\ AttributesNotEmpty => ~InDoubt(Entry.uid) /\ ~UidFree(Entry.uid)

(* Mutant: an entry that cannot be stored is skipped. *)
SkipRefused ==
    /\ Refused
    /\ UNCHANGED <<table, identities, staged, doubtful, maxOpenConns>>
    /\ Continue(mig.next + 1)

(* Mutant: an entry that cannot be stored is tried again. *)
RetryRefused ==
    /\ Refused
    /\ mig' = [mig EXCEPT !.pc = "GetIdentity"]
    /\ UNCHANGED <<table, identities, staged, doubtful, maxOpenConns>>

(* A key is empty, or the uid is in the table already, or twice in the list:  *)
(* the migration ends.                                                        *)
InsertRefused == Refused /\ Abort

InsertFault == mig.pc = "StoreNewIdentity" /\ Abort

CommitMigration ==
    /\ mig.pc = "CloseTransaction"
    /\ table' = [u \in Uids |-> IF u \in staged THEN "file" ELSE table[u]]
    /\ staged' = {}
    /\ mig' = [pc |-> "Done", next |-> 1]
    /\ UNCHANGED <<identities, doubtful, maxOpenConns>>

(* The error of tx.Commit: the server has refused, or has not answered. *)
CommitFault == mig.pc = "CloseTransaction" /\ (Abort \/ CommitUnanswered)

(* The process dies.  The server rolls back what it was not asked to commit. *)
MigrationDies == Running /\ (Abort \/ CommitUnanswered)

(* The server ends a transaction that nobody waits for. *)
DoubtEnds(d) ==
    /\ doubtful' = doubtful \ {d}
    /\ UNCHANGED <<identities, mig, staged, maxOpenConns>>

DoubtCommits(d) ==
    /\ DoubtEnds(d)
    /\ table' = [u \in Uids |-> IF u \in d.rows THEN "file" ELSE table[u]]

DoubtRollsBack(d) == DoubtEnds(d) /\ UNCHANGED table

(* The service commits a new identity.  Its INSERT waits while a migration    *)
(* has inserted the same uid.                                                 *)
ServiceRegisters(u) ==
    /\ UidFree(u)
    /\ ~InDoubt(u)
    /\ table' = [table EXCEPT ![u] = "service"]
    /\ UNCHANGED <<identities, mig, staged, doubtful, maxOpenConns>>

MigStep ==
    \/ BeginMigration \/ BeginFault
    \/ LookupIdentity \/ LookupFault
    \/ InsertIdentity \/ InsertRefused \/ InsertFault
    \/ CommitMigration \/ CommitFault

Start == \E c \in Configs, r \in BOOLEAN : StartMigration(c, r) \/ StartRefused(c, r)

ServerStep == \E d \in doubtful : DoubtCommits(d) \/ DoubtRollsBack(d)

MigNext ==
    \/ (MigStep \/ MigrationDies \/ ServerStep) /\ UNCHANGED keyFileVars
    \/ mgr.pc = "down" /\ Start /\ UNCHANGED keyFileVars
    \/ \E u \in Uids : ServiceRegisters(u) /\ UNCHANGED keyFileVars
    \/ /\ mig.pc \in {"Idle", "Failed"}
       /\ KeyFileNext
       /\ UNCHANGED <<table, identities, mig, staged, doubtful, maxOpenConns>>

(* A process that was started runs, and the server ends its transactions. *)
MigSpec ==
    /\ MigInit /\ [][MigNext]_migVars
    /\ WF_migVars(Running /\ MigStep /\ UNCHANGED keyFileVars)
    /\ WF_migVars(ServerStep /\ UNCHANGED keyFileVars)

-----------------------------------------------------------------------------
(* Success is only logged when every identity of the list is in the table     *)
(* with the keys of the file: one that exists already, or is listed twice,    *)
(* makes the whole migration fail although it is only warned about.           *)
DoneMeansMigrated ==
    mig.pc = "Done" => \A u \in Listed : table[u] = "file"

(* A step adds all identities of one migration's list or none, whatever fails *)
(* between two of them, and never takes a row from the service.  The list is  *)
(* that of the migration that runs or of one that has reported an error, and  *)
(* whose commit was in doubt.                                                 *)
AllOrNothing ==
    [][LET added == {u \in Uids : table'[u] # table[u] /\ table'[u] = "file"}
       IN  /\ \/ added \in {{}, Listed}
              \/ \E d \in doubtful \ doubtful' : added = d.list
           /\ \A u \in Uids : table[u] # "none" => table'[u] = table[u]]_migVars

(* A migrated identity has a key pair that a completed write of the key file  *)
(* had stored: no empty key comes from a file of the older version, and none  *)
(* from a write that was interrupted, whichever copy of the file was read.    *)
MigratedWithStoredKeys ==
    \A u \in Uids : table[u] = "file" =>
        {<<u, "private">>, <<u, "public">>} \subseteq kept

(* A migration that was started ends, with success or with an error, although *)
(* its lookups need a connection besides that of its transaction, and its     *)
(* inserts wait for the transactions that earlier migrations left in doubt.   *)
(* It does not end by itself if the pool is limited to one connection and     *)
(* there is an identity to look up: then it waits for its own transaction.    *)
WaitsForItself == maxOpenConns = 1 /\ identities # <<>>

MigrationEnds == Running /\ ~WaitsForItself ~> mig.pc \in {"Done", "Failed"}

=============================================================================
