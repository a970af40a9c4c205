---------------------------- MODULE MigrationProofs ----------------------------
(***************************************************************************)
(* Proofs about the migration: it is one transaction, whatever fails and   *)
(* whatever the service registers meanwhile, and it stores no key that the *)
(* key file has not stored before.                                         *)
(***************************************************************************)
EXTENDS Migration, KeyFileProofs, FiniteSetTheorems, SequenceTheorems

PairStored(u) == {<<u, "private">>, <<u, "public">>} \subseteq kept

(* Nothing in the files but what a completed write has stored. *)
DiskKeysKept ==
    \A c \in {disk.file, disk.bck} : \A e \in Entries : c.keys[e] = "key" => e \in kept

(* Nor in the list that is migrated. *)
ListedKeysKept ==
    \A i \in DOMAIN identities :
        LET id == identities[i]
        IN  /\ id.private = "key" => <<id.uid, "private">> \in kept
            /\ id.public = "key" => <<id.uid, "public">> \in kept

(* The transaction has inserted the list up to the position of the process.   *)
StagedIsPrefix ==
    LET before == {i \in DOMAIN identities : i < mig.next}
    IN  /\ mig.pc \in {"GetIdentity", "StoreNewIdentity", "CloseTransaction"} =>
            staged = {identities[i].uid : i \in before}
        /\ mig.pc \notin {"GetIdentity", "StoreNewIdentity", "CloseTransaction"} => staged = {}
        /\ mig.pc \in {"GetIdentity", "StoreNewIdentity"} => mig.next <= Len(identities)
        /\ mig.pc = "CloseTransaction" => mig.next > Len(identities)

(* What is inserted is in nobody's committed row, and has stored keys.  A      *)
(* transaction in doubt has inserted its whole list, and shares no uid with    *)
(* another one or with the migration that runs.                                *)
RowsFit ==
    /\ \A u \in staged : table[u] = "none" /\ PairStored(u)
    /\ \A u \in Uids : table[u] = "file" => PairStored(u)
    /\ \A d \in doubtful : d.rows = d.list
    /\ \A d \in doubtful : \A u \in d.rows :
        table[u] = "none" /\ u \notin staged /\ PairStored(u)
    /\ \A d, e \in doubtful : d # e => d.rows \cap e.rows = {}

MigInv ==
    /\ MigTypeOK /\ KeyFileInv /\ DiskKeysKept /\ ListedKeysKept
    /\ StagedIsPrefix /\ RowsFit /\ DoneMeansMigrated

-----------------------------------------------------------------------------

(* The lists a migration works on are lists of uids with keys. *)
LEMMA ListsTyped ==
    ASSUME NEW c \in Configs, NEW list \in IdentityLists(c)
    PROVE  /\ Len(list) \in Nat /\ DOMAIN list = 1..Len(list)
           /\ \A i \in DOMAIN list : list[i].uid \in Uids
<1> DEFINE ids == c.identities
<1>1. LoadIdentitiesFile(c) /\ \E t \in SetToSeqs(c.tokens) : list = ids \o t
  BY DEF IdentityLists
<1>2. PICK t \in SetToSeqs(c.tokens) : list = ids \o t
  BY <1>1
<1>3. /\ ids \in Seq(Range(ids)) /\ IsFiniteSet(c.tokens)
      /\ \A i \in DOMAIN ids : ids[i].uid \in Uids \cup {NilUid}
      /\ \A e \in c.tokens : e.uid \in Uids
  BY ConfigsAssumption
<1>4. Cardinality(c.tokens) \in Nat
  BY <1>3, FS_CardinalityType
<1>5. t \in Seq(c.tokens) /\ \A i \in DOMAIN t : t[i].uid \in Uids
  BY <1>3, <1>4 DEF SetToSeqs
<1>6. \A i \in DOMAIN ids : ids[i].uid \in Uids
  BY <1>1, <1>3 DEF LoadIdentitiesFile
<1> HIDE DEF ids
<1> DEFINE S == Range(ids) \cup c.tokens
<1>7. ids \in Seq(S) /\ t \in Seq(S)
  BY <1>3, <1>5, SeqMonotonic, Zenon
<1> HIDE DEF S
<1>8. /\ Len(ids \o t) = Len(ids) + Len(t) /\ ids \o t \in Seq(S)
      /\ \A i \in 1..(Len(ids) + Len(t)) :
            (ids \o t)[i] = IF i <= Len(ids) THEN ids[i] ELSE t[i - Len(ids)]
  BY <1>7, ConcatProperties
<1>9. /\ Len(ids) \in Nat /\ DOMAIN ids = 1..Len(ids)
      /\ Len(t) \in Nat /\ DOMAIN t = 1..Len(t)
      /\ Len(list) \in Nat /\ DOMAIN list = 1..Len(list)
  BY <1>2, <1>7, <1>8, LenProperties
<1>10. ASSUME NEW i \in DOMAIN list PROVE list[i].uid \in Uids
  <2>1. i \in 1..(Len(ids) + Len(t))
    BY <1>2, <1>8, <1>9
  <2>2. CASE i <= Len(ids)
    BY <1>2, <1>6, <1>8, <1>9, <2>1, <2>2
  <2>3. CASE i > Len(ids)
    <3>1. i - Len(ids) \in DOMAIN t /\ list[i] = t[i - Len(ids)]
      BY <1>2, <1>8, <1>9, <2>1, <2>3
    <3> QED BY <1>5, <3>1
  <2> QED BY <1>9, <2>1, <2>2, <2>3
<1> QED BY <1>9, <1>10

(* An entry of the list gets the pair the key file stores for its uid; the    *)
(* list keeps its length.                                                     *)
LEMMA WithKeysTyped ==
    ASSUME NEW c \in Configs, NEW list \in IdentityLists(c), NEW keys \in Stores
    PROVE  LET l == WithKeys(list, keys)
           IN  /\ l \in Seq(MigEntries) /\ Len(l) = Len(list)
               /\ \A i \in DOMAIN l :
                    /\ l[i].private = keys[<<l[i].uid, "private">>]
                    /\ l[i].public = keys[<<l[i].uid, "public">>]
<1> DEFINE l == WithKeys(list, keys)
<1>1. /\ Len(list) \in Nat /\ DOMAIN list = 1..Len(list)
      /\ \A i \in DOMAIN list : list[i].uid \in Uids
  BY ListsTyped
<1>2. \A u \in Uids : /\ keys[<<u, "private">>] \in {"none", "empty", "key"}
                      /\ keys[<<u, "public">>] \in {"none", "empty", "key"}
  BY EntriesAssumption DEF Stores
<1>3. DOMAIN l = 1..Len(list) /\ \A i \in 1..Len(list) : l[i] \in MigEntries
  BY <1>1, <1>2 DEF WithKeys, MigEntries
<1>4. l \in [1..Len(list) -> MigEntries]
  BY <1>3 DEF WithKeys
<1>5. \A i \in DOMAIN l : /\ l[i].private = keys[<<l[i].uid, "private">>]
                          /\ l[i].public = keys[<<l[i].uid, "public">>]
  BY <1>1 DEF WithKeys
<1> HIDE DEF l
<1>6. l \in Seq(MigEntries) /\ Len(l) = Len(list)
  BY <1>1, <1>4
<1> QED BY <1>5, <1>6 DEF l

(* What loadFile returns was stored. *)
LEMMA LoadedWasStored ==
    ASSUME DiskKeysKept, NEW form, NEW readable, NEW e \in Entries,
           LoadFile(form, readable).keys[e] = "key"
    PROVE  e \in kept
<1>1. NoKeys[e] # "key"
  BY DEF NoKeys
<1>2. LoadFile(form, readable).keys \in {NoKeys, disk.file.keys, disk.bck.keys}
  BY DEF LoadFile, Loaded, LoadError, Decoded
<1> QED BY <1>1, <1>2 DEF DiskKeysKept

(* A step of the key file: only completed writes add to what is stored. *)
LEMMA FilesMove ==
    ASSUME KeyFileTypeOK, DiskKeysKept, [KeyFileNext]_keyFileVars
    PROVE  kept \subseteq kept' /\ DiskKeysKept'
<1>1. \A e \in Entries : Missing.keys[e] # "key" /\ Torn.keys[e] # "key"
  BY DEF Missing, Torn, NoKeys
<1>2. CASE UNCHANGED <<disk, kept>>
  BY <1>2 DEF DiskKeysKept
<1>3. CASE Backup
  <2>1. UNCHANGED kept /\ disk' \in {disk, [file |-> Missing, bck |-> disk.file]}
    BY <1>3 DEF Backup
  <2> QED BY <1>1, <2>1 DEF DiskKeysKept
<1>4. CASE Create
  <2>1. UNCHANGED kept /\ disk'.file = Torn /\ disk'.bck = disk.bck
    BY <1>4 DEF Create, KeyFileTypeOK, Disks
  <2> QED BY <1>1, <2>1 DEF DiskKeysKept
<1>5. CASE Write
  <2>1. /\ kept' = kept \cup {e \in Entries : mgr.keys[e] = "key"}
        /\ disk'.file.keys = mgr.keys /\ disk'.bck = disk.bck
    BY <1>5 DEF Write, Flat, KeyFileTypeOK, Disks
  <2> QED BY <2>1 DEF DiskKeysKept
<1>6. CASE ~Backup /\ ~Create /\ ~Write
  <2>1. UNCHANGED <<disk, kept>>
    BY <1>6 DEF KeyFileNext, keyFileVars, NewFileManager, LoadKeys, GoesDown,
        PortLegacyKeystoreFile, LegacyLoadKeys, SetKey, BackupFails, CreateFails,
        PersistError, WriteFails, Stop
  <2> QED BY <1>2, <2>1
<1> QED BY <1>3, <1>4, <1>5, <1>6

-----------------------------------------------------------------------------

(* Nothing happens to the files. *)
LEMMA FilesRest ==
    ASSUME MigInv, UNCHANGED keyFileVars
    PROVE  /\ KeyFileTypeOK' /\ KeyFileInv' /\ DiskKeysKept' /\ UNCHANGED kept
           /\ (\A u \in Uids : PairStored(u)' <=> PairStored(u))
<1>1. KeyFileInv'
  BY KeyFileNextInv DEF MigInv
<1>2. DiskKeysKept' /\ UNCHANGED kept
  BY FilesMove DEF MigInv, KeyFileInv, keyFileVars
<1> QED BY <1>1, <1>2 DEF KeyFileInv, PairStored

(* The part of the invariant that is about the migration itself. *)
Migrates ==
    /\ MigTypeOK /\ ListedKeysKept /\ StagedIsPrefix /\ RowsFit /\ DoneMeansMigrated

(* While the files rest, a step of the migration has to preserve only what    *)
(* is about the migration.                                                    *)
LEMMA MigratesSuffices ==
    ASSUME MigInv, UNCHANGED keyFileVars,
           KeyFileTypeOK' => Migrates'
    PROVE  MigInv'
BY FilesRest DEF Migrates, MigInv

(* Nor to the rows. *)
LEMMA RowsRest ==
    ASSUME MigInv, UNCHANGED keyFileVars, UNCHANGED <<table, staged, doubtful>>
    PROVE  RowsFit'
BY FilesRest DEF MigInv, MigTypeOK, RowsFit, Doubts

(* The migration ends with an error: what is left of it can only be a          *)
(* transaction in doubt.                                                       *)
LEMMA GivesUpInv ==
    ASSUME MigInv, GivesUp, UNCHANGED keyFileVars, doubtful' \subseteq Doubts,
           RowsFit'
    PROVE  MigInv'
<1>1. /\ mig' = [pc |-> "Failed", next |-> 1] /\ identities' = <<>> /\ staged' = {}
      /\ maxOpenConns' = 0 /\ UNCHANGED table
  BY DEF GivesUp
<1>2. ASSUME KeyFileTypeOK' PROVE MigTypeOK'
  <2>1. <<>> \in Seq(MigEntries) /\ Len(<<>>) = 0
    BY EmptySeq
  <2>2. mig' \in MigStates /\ mig'.next = 1
    BY <1>1 DEF MigStates
  <2> QED BY <1>1, <1>2, <2>1, <2>2 DEF MigInv, MigTypeOK
<1>3. ListedKeysKept' /\ StagedIsPrefix' /\ DoneMeansMigrated'
  BY <1>1 DEF ListedKeysKept, StagedIsPrefix, DoneMeansMigrated
<1> QED BY <1>2, <1>3, MigratesSuffices DEF Migrates

(* The transaction is rolled back: nothing is left. *)
LEMMA AbortInv == ASSUME MigInv, Abort, UNCHANGED keyFileVars PROVE MigInv'
<1>1. GivesUp /\ staged' = {} /\ UNCHANGED <<table, doubtful>>
  BY DEF Abort, GivesUp
<1>2. doubtful' \subseteq Doubts
  BY <1>1 DEF MigInv, MigTypeOK
<1>3. RowsFit'
  BY <1>1, FilesRest DEF MigInv, RowsFit, MigTypeOK, Doubts
<1> QED BY <1>1, <1>2, <1>3, GivesUpInv

(* At the end of the list all of it is inserted. *)
LEMMA AllStaged == ASSUME MigInv, mig.pc = "CloseTransaction" PROVE staged = Listed
<1>1. Len(identities) \in Nat /\ DOMAIN identities = 1..Len(identities)
  BY LenProperties DEF MigInv, MigTypeOK
<1>2. /\ staged = {identities[i].uid : i \in {j \in DOMAIN identities : j < mig.next}}
      /\ mig.next > Len(identities) /\ mig.next \in Nat
  BY DEF MigInv, StagedIsPrefix, MigTypeOK, MigStates
<1>3. \A j \in DOMAIN identities : j < mig.next
  BY <1>1, <1>2
<1> QED BY <1>2, <1>3 DEF Listed

(* The transaction is left in doubt, with its whole list. *)
LEMMA UnansweredInv == ASSUME MigInv, CommitUnanswered, UNCHANGED keyFileVars PROVE MigInv'
<1> DEFINE new == [rows |-> staged, list |-> Listed]
<1>1. /\ mig.pc = "CloseTransaction" /\ GivesUp /\ staged' = {} /\ UNCHANGED table
      /\ doubtful' = doubtful \cup {new}
  BY DEF CommitUnanswered, GivesUp
<1>2. staged = Listed /\ staged \subseteq Uids
  BY <1>1, AllStaged DEF MigInv, MigTypeOK
<1>3. new \in Doubts /\ new.rows = staged /\ new.list = staged
  BY <1>2 DEF Doubts
<1> HIDE DEF new
<1>4. doubtful' \subseteq Doubts
  BY <1>1, <1>3 DEF MigInv, MigTypeOK
<1>5. RowsFit'
  <2>1. \A d \in doubtful : d.rows \subseteq Uids
    BY DEF MigInv, MigTypeOK, Doubts
  <2> QED BY <1>1, <1>2, <1>3, <2>1, FilesRest DEF MigInv, RowsFit
<1> QED BY <1>1, <1>4, <1>5, GivesUpInv

(* The list is read, with the keys of the file. *)
LEMMA StartInv ==
    ASSUME MigInv, NEW c \in Configs, NEW readable \in BOOLEAN, StartMigration(c, readable),
           UNCHANGED keyFileVars
    PROVE  MigInv'
<1> DEFINE keys == LoadFile("flat", readable).keys
<1>1. PICK list \in IdentityLists(c) : identities' = WithKeys(list, keys)
  BY DEF StartMigration
<1>2. keys \in Stores
  BY LoadReturns DEF MigInv, KeyFileInv
<1>3. \A e \in Entries : keys[e] = "key" => e \in kept
  BY LoadedWasStored DEF MigInv
<1> HIDE DEF keys
<1>4. /\ identities' \in Seq(MigEntries)
      /\ \A i \in DOMAIN identities' :
            /\ identities'[i].private = keys[<<identities'[i].uid, "private">>]
            /\ identities'[i].public = keys[<<identities'[i].uid, "public">>]
  BY <1>1, <1>2, WithKeysTyped
<1>5. mig' = [pc |-> "StartTransaction", next |-> 1] /\ UNCHANGED <<table, staged, doubtful>>
      /\ ~Running /\ maxOpenConns' \in Int
  BY ConfigsAssumption DEF StartMigration
<1>6. staged = {}
  BY <1>5 DEF MigInv, StagedIsPrefix, Running
<1>7. Len(identities') \in Nat /\ \A i \in DOMAIN identities' : identities'[i] \in MigEntries
  BY <1>4, LenProperties, ElementOfSeq
<1>8. ASSUME KeyFileTypeOK' PROVE MigTypeOK'
  <2>1. mig' \in MigStates /\ mig'.next = 1
    BY <1>5 DEF MigStates
  <2> QED BY <1>4, <1>5, <1>7, <1>8, <2>1 DEF MigInv, MigTypeOK
<1>9. ListedKeysKept'
  <2>1. ASSUME NEW i \in DOMAIN identities'
        PROVE  /\ <<identities'[i].uid, "private">> \in Entries
               /\ <<identities'[i].uid, "public">> \in Entries
    BY <1>7, EntriesAssumption DEF MigEntries
  <2>2. UNCHANGED kept
    BY FilesRest
  <2> QED BY <1>3, <1>4, <2>1, <2>2 DEF ListedKeysKept
<1>10. StagedIsPrefix' /\ DoneMeansMigrated'
  BY <1>5, <1>6 DEF StagedIsPrefix, DoneMeansMigrated
<1>11. RowsFit'
  BY <1>5, RowsRest
<1> QED BY <1>8, <1>9, <1>10, <1>11, MigratesSuffices DEF Migrates

(* Where the loop goes on with the list unchanged. *)
LEMMA ContinueTyped ==
    ASSUME MigTypeOK, UNCHANGED identities, NEW i \in 1..(Len(identities) + 1), Continue(i)
    PROVE  /\ mig' \in MigStates /\ mig'.next = i
           /\ mig'.pc = IF i > Len(identities) THEN "CloseTransaction" ELSE "GetIdentity"
<1>1. Len(identities) \in Nat
  BY LenProperties DEF MigTypeOK
<1>2. mig' = IF i > Len(identities) THEN [pc |-> "CloseTransaction", next |-> i]
                                    ELSE [pc |-> "GetIdentity", next |-> i]
  BY DEF Continue
<1> QED BY <1>1, <1>2 DEF MigStates

(* The transaction begins, with nothing inserted. *)
LEMMA BeginInv == ASSUME MigInv, BeginMigration, UNCHANGED keyFileVars PROVE MigInv'
<1>1. Len(identities) \in Nat /\ DOMAIN identities = 1..Len(identities)
  BY LenProperties DEF MigInv, MigTypeOK
<1>2. /\ mig.pc = "StartTransaction" /\ Continue(1)
      /\ UNCHANGED <<table, identities, staged, doubtful, maxOpenConns>>
  BY DEF BeginMigration
<1>3. /\ mig' \in MigStates /\ mig'.next = 1
      /\ mig'.pc = IF 1 > Len(identities) THEN "CloseTransaction" ELSE "GetIdentity"
  BY <1>1, <1>2, ContinueTyped DEF MigInv
<1>4. ASSUME KeyFileTypeOK' PROVE MigTypeOK'
  BY <1>1, <1>2, <1>3, <1>4 DEF MigInv, MigTypeOK
<1>5. StagedIsPrefix'
  <2>1. staged = {}
    BY <1>2 DEF MigInv, StagedIsPrefix
  <2> QED BY <1>1, <1>2, <1>3, <2>1 DEF StagedIsPrefix
<1>6. ListedKeysKept' /\ RowsFit' /\ DoneMeansMigrated'
  BY <1>2, <1>3, FilesRest, RowsRest DEF MigInv, ListedKeysKept, DoneMeansMigrated
<1> QED BY <1>4, <1>5, <1>6, MigratesSuffices DEF Migrates

(* An identity is looked up: only the pc moves. *)
LEMMA LookupInv == ASSUME MigInv, LookupIdentity, UNCHANGED keyFileVars PROVE MigInv'
<1>1. /\ mig.pc = "GetIdentity" /\ mig \in MigStates
      /\ UNCHANGED <<table, identities, staged, doubtful, maxOpenConns>>
  BY DEF LookupIdentity, MigInv, MigTypeOK
<1>2. mig' \in MigStates /\ mig'.pc = "StoreNewIdentity" /\ mig'.next = mig.next
  BY <1>1 DEF LookupIdentity, MigStates
<1>3. ASSUME KeyFileTypeOK' PROVE MigTypeOK'
  BY <1>1, <1>2, <1>3 DEF MigInv, MigTypeOK
<1>4. StagedIsPrefix'
  BY <1>1, <1>2 DEF MigInv, StagedIsPrefix
<1>5. ListedKeysKept' /\ RowsFit' /\ DoneMeansMigrated'
  BY <1>1, <1>2, FilesRest, RowsRest DEF MigInv, ListedKeysKept, DoneMeansMigrated
<1> QED BY <1>3, <1>4, <1>5, MigratesSuffices DEF Migrates

(* The identity at the position is inserted, and the position moves on. *)
LEMMA InsertInv == ASSUME MigInv, InsertIdentity, UNCHANGED keyFileVars PROVE MigInv'
<1>1. Len(identities) \in Nat /\ DOMAIN identities = 1..Len(identities)
  BY LenProperties DEF MigInv, MigTypeOK
<1>2. /\ mig.pc = "StoreNewIdentity" /\ staged' = staged \cup {Entry.uid}
      /\ UNCHANGED <<table, identities, doubtful, maxOpenConns>> /\ Continue(mig.next + 1)
      /\ Entry.private = "key" /\ Entry.public = "key"
      /\ UidFree(Entry.uid) /\ ~InDoubt(Entry.uid)
  BY DEF InsertIdentity, Insert, AttributesNotEmpty
<1>3. mig.next \in DOMAIN identities /\ mig.next + 1 \in 1..(Len(identities) + 1)
  BY <1>1, <1>2 DEF MigInv, MigTypeOK, MigStates, StagedIsPrefix
<1>4. Entry.uid \in Uids /\ PairStored(Entry.uid)
  <2>1. Entry \in MigEntries
    BY <1>3, ElementOfSeq DEF MigInv, MigTypeOK, Entry
  <2> QED BY <1>2, <1>3, <2>1 DEF MigInv, ListedKeysKept, PairStored, Entry, MigEntries
<1>5. /\ mig' \in MigStates /\ mig'.next = mig.next + 1
      /\ mig'.pc = IF mig.next + 1 > Len(identities) THEN "CloseTransaction" ELSE "GetIdentity"
  BY <1>2, <1>3, ContinueTyped DEF MigInv
<1>6. ASSUME KeyFileTypeOK' PROVE MigTypeOK'
  BY <1>1, <1>2, <1>3, <1>4, <1>5, <1>6 DEF MigInv, MigTypeOK
<1>7. StagedIsPrefix'
  <2>1. staged = {identities[i].uid : i \in {j \in DOMAIN identities : j < mig.next}}
    BY <1>2 DEF MigInv, StagedIsPrefix
  <2>2. \A j \in DOMAIN identities : j < mig.next + 1 <=> j < mig.next \/ j = mig.next
    BY <1>1, <1>3
  <2>3. staged' = {identities[i].uid : i \in {j \in DOMAIN identities : j < mig.next + 1}}
    BY <1>2, <1>3, <2>1, <2>2 DEF Entry
  <2>4. staged' = {identities'[i].uid : i \in {j \in DOMAIN identities' : j < mig'.next}}
    BY <1>2, <1>5, <2>3
  <2>5. /\ mig'.pc = "GetIdentity" => mig'.next <= Len(identities')
        /\ mig'.pc = "CloseTransaction" => mig'.next > Len(identities')
        /\ mig'.pc \in {"GetIdentity", "CloseTransaction"}
    BY <1>1, <1>2, <1>3, <1>5
  <2> QED BY <2>4, <2>5 DEF StagedIsPrefix
<1>8. ListedKeysKept' /\ DoneMeansMigrated'
  BY <1>2, <1>5, FilesRest DEF MigInv, ListedKeysKept, DoneMeansMigrated
<1>9. RowsFit'
  BY <1>2, <1>4, FilesRest DEF MigInv, RowsFit, UidFree, InDoubt, MigTypeOK, Doubts
<1> QED BY <1>6, <1>7, <1>8, <1>9, MigratesSuffices DEF Migrates

(* What is inserted becomes visible. *)
LEMMA CommitInv == ASSUME MigInv, CommitMigration, UNCHANGED keyFileVars PROVE MigInv'
<1>1. /\ mig.pc = "CloseTransaction" /\ staged' = {}
      /\ UNCHANGED <<identities, doubtful, maxOpenConns>>
      /\ mig' = [pc |-> "Done", next |-> 1]
      /\ table' = [u \in Uids |-> IF u \in staged THEN "file" ELSE table[u]]
  BY DEF CommitMigration
<1>2. Len(identities) \in Nat
  BY LenProperties DEF MigInv, MigTypeOK
<1>3. ASSUME KeyFileTypeOK' PROVE MigTypeOK'
  <2>1. mig' \in MigStates /\ mig'.next = 1
    BY <1>1 DEF MigStates
  <2> QED BY <1>1, <1>2, <1>3, <2>1 DEF MigInv, MigTypeOK
<1>4. ListedKeysKept' /\ StagedIsPrefix'
  BY <1>1, FilesRest DEF MigInv, ListedKeysKept, StagedIsPrefix
<1>5. RowsFit'
  BY <1>1, FilesRest DEF MigInv, RowsFit, MigTypeOK, Doubts
<1>6. DoneMeansMigrated'
  <2>1. Listed' = staged /\ staged \subseteq Uids
    BY <1>1, AllStaged DEF Listed, MigInv, MigTypeOK
  <2> QED BY <1>1, <2>1 DEF DoneMeansMigrated
<1> QED BY <1>3, <1>4, <1>5, <1>6, MigratesSuffices DEF Migrates

(* The service adds a row that is not there. *)
LEMMA ServiceInv ==
    ASSUME MigInv, NEW u \in Uids, ServiceRegisters(u), UNCHANGED keyFileVars PROVE MigInv'
<1>1. /\ table[u] = "none" /\ u \notin staged /\ table' = [table EXCEPT ![u] = "service"]
      /\ \A d \in doubtful : u \notin d.rows
      /\ UNCHANGED <<identities, mig, staged, doubtful, maxOpenConns>>
  BY DEF ServiceRegisters, UidFree, InDoubt
<1>2. ASSUME KeyFileTypeOK' PROVE MigTypeOK'
  BY <1>1, <1>2 DEF MigInv, MigTypeOK
<1>3. ListedKeysKept' /\ StagedIsPrefix'
  BY <1>1, FilesRest DEF MigInv, ListedKeysKept, StagedIsPrefix
<1>4. RowsFit'
  BY <1>1, FilesRest DEF MigInv, RowsFit, MigTypeOK, Doubts
<1>5. DoneMeansMigrated'
  <2>1. UNCHANGED Listed
    BY <1>1 DEF Listed
  <2>2. ASSUME NEW i \in DOMAIN identities PROVE identities[i].uid \in Uids
    <3>1. identities[i] \in MigEntries
      BY LenProperties, ElementOfSeq DEF MigInv, MigTypeOK
    <3> QED BY <3>1 DEF MigEntries
  <2> QED BY <1>1, <2>1, <2>2 DEF DoneMeansMigrated, Listed, MigInv, MigTypeOK
<1> QED BY <1>2, <1>3, <1>4, <1>5, MigratesSuffices DEF Migrates

(* The server ends a transaction in doubt: with all of its rows or none.       *)
LEMMA DoubtEndsInv ==
    ASSUME MigInv, NEW d \in doubtful, DoubtCommits(d) \/ DoubtRollsBack(d),
           UNCHANGED keyFileVars
    PROVE  MigInv'
<1>1. doubtful' = doubtful \ {d} /\ UNCHANGED <<identities, mig, staged, maxOpenConns>>
  BY DEF DoubtCommits, DoubtRollsBack, DoubtEnds
<1>2. d.rows \subseteq Uids /\ \A e \in doubtful : e.rows \subseteq Uids
  BY DEF MigInv, MigTypeOK, Doubts
<1>3. /\ table' \in [Uids -> {"none", "file", "service"}]
      /\ \A u \in Uids : table'[u] = table[u] \/ (u \in d.rows /\ table'[u] = "file")
  BY DEF DoubtCommits, DoubtRollsBack, MigInv, MigTypeOK
<1>4. ASSUME KeyFileTypeOK' PROVE MigTypeOK'
  BY <1>1, <1>3, <1>4 DEF MigInv, MigTypeOK
<1>5. ListedKeysKept' /\ StagedIsPrefix'
  BY <1>1, FilesRest DEF MigInv, ListedKeysKept, StagedIsPrefix
<1>6. RowsFit'
  <2>1. /\ UNCHANGED staged /\ staged \subseteq Uids
        /\ \A u \in Uids : PairStored(u)' <=> PairStored(u)
    BY <1>1, FilesRest DEF MigInv, MigTypeOK
  <2>2. RowsFit
    BY DEF MigInv
  <2> QED BY <1>1, <1>2, <1>3, <2>1, <2>2 DEF RowsFit
<1>7. DoneMeansMigrated'
  <2>1. UNCHANGED Listed
    BY <1>1 DEF Listed
  <2>2. ASSUME NEW i \in DOMAIN identities PROVE identities[i].uid \in Uids
    <3>1. identities[i] \in MigEntries
      BY LenProperties, ElementOfSeq DEF MigInv, MigTypeOK
    <3> QED BY <3>1 DEF MigEntries
  <2> QED BY <1>1, <1>3, <2>1, <2>2 DEF DoneMeansMigrated, Listed, MigInv
<1> QED BY <1>4, <1>5, <1>6, <1>7, MigratesSuffices DEF Migrates

(* The key file is used while no migration runs. *)
LEMMA FilesUsedInv ==
    ASSUME MigInv, [KeyFileNext]_keyFileVars,
           UNCHANGED <<table, identities, mig, staged, doubtful, maxOpenConns>>
    PROVE  MigInv'
<1>1. KeyFileInv' /\ DiskKeysKept' /\ kept \subseteq kept'
  BY KeyFileNextInv, FilesMove DEF MigInv, KeyFileInv
<1>2. MigTypeOK'
  BY <1>1 DEF MigInv, MigTypeOK, KeyFileInv
<1>3. ListedKeysKept' /\ StagedIsPrefix' /\ RowsFit'
  BY <1>1 DEF MigInv, ListedKeysKept, StagedIsPrefix, RowsFit, PairStored
<1>4. DoneMeansMigrated'
  BY DEF MigInv, DoneMeansMigrated, Listed
<1> QED BY <1>1, <1>2, <1>3, <1>4 DEF MigInv

(* Nothing is migrated at first. *)
LEMMA MigInitInv == MigInit => MigInv
<1> SUFFICES ASSUME MigInit PROVE MigInv
  OBVIOUS
<1>1. KeyFileInv /\ KeyFileTypeOK
  BY KeyFileInitInv DEF MigInit, KeyFileInv
<1>2. /\ table = [u \in Uids |-> "none"] /\ identities = <<>> /\ staged = {}
      /\ mig = [pc |-> "Idle", next |-> 1] /\ doubtful = {} /\ maxOpenConns = 0
  BY DEF MigInit
<1>3. MigTypeOK
  <2>1. <<>> \in Seq(MigEntries) /\ Len(<<>>) = 0
    BY EmptySeq
  <2>2. mig \in MigStates /\ mig.next = 1
    BY <1>2 DEF MigStates
  <2> QED BY <1>1, <1>2, <2>1, <2>2 DEF MigTypeOK
<1>4. ListedKeysKept /\ StagedIsPrefix /\ RowsFit /\ DoneMeansMigrated
  BY <1>2 DEF ListedKeysKept, StagedIsPrefix, RowsFit, DoneMeansMigrated
<1>5. DiskKeysKept
  <2>1. PICK s \in OldStores, form \in {"flat", "legacy"} :
          /\ disk = [file |-> IF s = NoKeys THEN Missing ELSE [form |-> form, keys |-> s],
                     bck |-> Missing]
          /\ kept = {e \in Entries : s[e] = "key"}
    BY DEF MigInit, KeyFileInit
  <2>2. disk.bck.keys = NoKeys /\ disk.file.keys \in {NoKeys, s}
    BY <2>1 DEF Missing
  <2> QED BY <2>1, <2>2 DEF DiskKeysKept, NoKeys
<1> QED BY <1>1, <1>3, <1>4, <1>5 DEF MigInv

(* Every step preserves the invariant. *)
LEMMA MigNextInv == MigInv /\ [MigNext]_migVars => MigInv'
<1> SUFFICES ASSUME MigInv, [MigNext]_migVars PROVE MigInv'
  OBVIOUS
<1>1. CASE MigStep /\ UNCHANGED keyFileVars
  BY <1>1, AbortInv, UnansweredInv, BeginInv, LookupInv, InsertInv, CommitInv
     DEF MigStep, BeginFault, LookupFault, InsertRefused, InsertFault, CommitFault
<1>2. CASE MigrationDies /\ UNCHANGED keyFileVars
  BY <1>2, AbortInv, UnansweredInv DEF MigrationDies
<1>3. CASE Start /\ UNCHANGED keyFileVars
  BY <1>3, StartInv, AbortInv DEF Start, StartRefused
<1>4. CASE UNCHANGED migVars
  BY <1>4, FilesUsedInv DEF migVars, keyFileVars
<1>5. CASE ServerStep /\ UNCHANGED keyFileVars
  BY <1>5, DoubtEndsInv DEF ServerStep
<1> QED BY <1>1, <1>2, <1>3, <1>4, <1>5, ServiceInv, FilesUsedInv DEF MigNext

(* The inductive invariant holds throughout. *)
THEOREM MigInvariant == MigSpec => []MigInv
BY MigInitInv, MigNextInv, PTL DEF MigSpec

(* Every variable keeps its type. *)
THEOREM MigTypeCorrect == MigSpec => []MigTypeOK
BY MigInvariant, PTL DEF MigInv

(* A migration that logs success has put its whole list into the table. *)
THEOREM DoneIsMigrated == MigSpec => []DoneMeansMigrated
BY MigInvariant, PTL DEF MigInv

(* Every migrated identity has keys that a completed write had stored.  *)
THEOREM MigratedHasStoredKeys == MigSpec => []MigratedWithStoredKeys
<1>1. MigInv => MigratedWithStoredKeys
  BY DEF MigInv, RowsFit, PairStored, MigratedWithStoredKeys
<1> QED BY <1>1, MigInvariant, PTL

(* A list is added as a whole, in one step, and no row of the service is ever *)
(* replaced, for lists of any length, any number of transactions in doubt,    *)
(* and services that register at any time.                                    *)
THEOREM WholeListOrNothing == MigSpec => AllOrNothing
<1> DEFINE added == {u \in Uids : table'[u] # table[u] /\ table'[u] = "file"}
           A == LET new == {u \in Uids : table'[u] # table[u] /\ table'[u] = "file"}
                IN  /\ \/ new \in {{}, Listed}
                       \/ \E d \in doubtful \ doubtful' : new = d.list
                    /\ \A u \in Uids : table[u] # "none" => table'[u] = table[u]
<1>1. ASSUME MigInv, [MigNext]_migVars PROVE [A]_migVars
  <2>1. CASE UNCHANGED table
    BY <2>1
  <2>2. ASSUME NEW u \in Uids, ServiceRegisters(u) PROVE A
    BY <1>1, <2>2 DEF ServiceRegisters, UidFree, MigInv, MigTypeOK
  <2>3. CASE CommitMigration
    <3>1. /\ staged = Listed /\ staged \subseteq Uids
          /\ table' = [u \in Uids |-> IF u \in staged THEN "file" ELSE table[u]]
          /\ \A u \in staged : table[u] = "none"
      BY <1>1, <2>3, AllStaged DEF CommitMigration, MigInv, MigTypeOK, RowsFit
    <3>2. added = staged
      BY <3>1
    <3> QED BY <3>1, <3>2
  <2>4. ASSUME NEW d \in doubtful, DoubtCommits(d) PROVE A
    <3>1. /\ d.rows = d.list /\ d.rows \subseteq Uids /\ d \in doubtful \ doubtful'
          /\ table' = [u \in Uids |-> IF u \in d.rows THEN "file" ELSE table[u]]
          /\ \A u \in d.rows : table[u] = "none"
      BY <1>1, <2>4 DEF DoubtCommits, DoubtEnds, MigInv, MigTypeOK, RowsFit, Doubts
    <3>2. added = d.list
      BY <3>1
    <3> QED BY <3>1, <3>2
  <2>5. CASE /\ ~CommitMigration /\ ~(\E u \in Uids : ServiceRegisters(u))
             /\ ~(\E d \in doubtful : DoubtCommits(d))
    <3>1. UNCHANGED table
      BY <1>1, <2>5 DEF MigNext, migVars, MigStep, MigrationDies, ServerStep, DoubtRollsBack,
         Start, StartMigration, StartRefused, BeginMigration, BeginFault, LookupIdentity,
         LookupFault, InsertIdentity, Insert, InsertRefused, InsertFault, CommitFault,
         CommitUnanswered, Abort, GivesUp
    <3> QED BY <2>1, <3>1
  <2> QED BY <1>1, <2>2, <2>3, <2>4, <2>5
<1> QED BY <1>1, MigInvariant, PTL DEF MigSpec, AllOrNothing

(* What a migration finds after one interruption of an earlier writer: files   *)
(* that it can load, or that only the reader of the older format can.          *)
THEOREM KeyFileStillLoads == MigSpec => []OneFaultStillLoads
<1>1. MigInv => OneFaultStillLoads
  BY InvStillLoads DEF MigInv
<1> QED BY <1>1, MigInvariant, PTL

(* And a migration reads all keys that completed writes had stored, or none,   *)
(* while one of the files still holds them.                                    *)
THEOREM KeyFileKeepsKeys == MigSpec => []OneFaultKeepsKeys
<1>1. MigInv => OneFaultKeepsKeys
  BY InvKeepsKeys DEF MigInv
<1> QED BY <1>1, MigInvariant, PTL

=============================================================================
