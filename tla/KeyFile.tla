------------------------------- MODULE KeyFile -------------------------------
(***************************************************************************)
(* The key file of the file based context (main/file_manager.go,           *)
(* main/legacy_file_manager.go): a map from entries to keys that is        *)
(* replaced as a whole, with a backup of the file before, and the format   *)
(* of an older version that LegacyFileManager ports.  One process at a     *)
(* time uses it and can be interrupted in every write.  The program itself *)
(* only reads the file, as FileManager, in a migration; what is written    *)
(* here is what processes wrote whose files a migration reads.             *)
(***************************************************************************)
EXTENDS Naturals

CONSTANTS
    Entries,        \* IDs of the entries, private and public keys
    OldStores       \* what files of an older version hold

VARIABLES
    disk,       \* the file and its backup
    mgr,        \* the process: its kind, pc and keystore in memory
    kept,       \* history: the entries whose key a completed write stored
    faults,     \* history: interruptions since the last completed write; 2 is for good
    exposed     \* history: a process began to write that had not loaded all kept keys

keyFileVars == <<disk, mgr, kept, faults, exposed>>

(* The bytes of an entry: none, an empty string, a key. *)
Stores == [Entries -> {"none", "empty", "key"}]

NoKeys == [e \in Entries |-> "none"]

ASSUME OldStoresAssumption == OldStores \subseteq Stores

Missing == [form |-> "missing", keys |-> NoKeys]
Torn == [form |-> "torn", keys |-> NoKeys]
Flat(keys) == [form |-> "flat", keys |-> keys]
Legacy(keys) == [form |-> "legacy", keys |-> keys]

Contents == {Missing, Torn} \cup {Flat(s) : s \in Stores} \cup {Legacy(s) : s \in Stores}

Down == [kind |-> "file", pc |-> "down", keys |-> NoKeys]

Disks == [file : Contents, bck : Contents]

(* pc: "down"; "load", the second half of NewLegacyFileManager; "up"; or the  *)
(* part of persistFile that comes next, which writes the keys of mgr.         *)
Managers ==
    [kind : {"file", "legacy"}, pc : {"down", "load", "up", "backup", "create", "write"},
     keys : Stores]

KeyFileTypeOK ==
    /\ disk \in Disks
    /\ mgr \in Managers
    /\ kept \subseteq Entries
    /\ faults \in 0..2
    /\ exposed \in BOOLEAN

KeyFileInit ==
    /\ \E s \in OldStores, form \in {"flat", "legacy"} :
        /\ disk = [file |-> IF s = NoKeys THEN Missing ELSE [form |-> form, keys |-> s],
                   bck |-> Missing]
        /\ kept = {e \in Entries : s[e] = "key"}
    /\ mgr = Down
    /\ faults = 0
    /\ exposed = FALSE

-----------------------------------------------------------------------------
(* json.Unmarshal of a file into a map of keys, or into the struct of the     *)
(* older version, which ignores the fields it does not know.                  *)
Decodes(content, form) == content.form = "flat" \/ content.form = form

Decoded(content, form) == IF content.form = form THEN content.keys ELSE NoKeys

Loaded(keys) == [ok |-> TRUE, keys |-> keys]
LoadError == [ok |-> FALSE, keys |-> NoKeys]

(* Mutant: the backup is not read when the file cannot be decoded. *)
LoadFileStrict(form, readable) ==
    CASE disk.file = Missing -> Loaded(NoKeys)
      [] disk.file # Missing /\ readable ->
            IF Decodes(disk.file, form) THEN Loaded(Decoded(disk.file, form)) ELSE LoadError
      [] OTHER ->
            IF Decodes(disk.bck, form) THEN Loaded(Decoded(disk.bck, form)) ELSE LoadError

(* loadFile; readable: no I/O error on the file.  A file that is missing is   *)
(* an empty one, without a look at the backup; so is a missing backup of a    *)
(* file that cannot be decoded, but not of one that cannot be read.           *)
LoadFile(form, readable) ==
    CASE disk.file = Missing -> Loaded(NoKeys)
      [] disk.file # Missing /\ readable /\ Decodes(disk.file, form) ->
            Loaded(Decoded(disk.file, form))
      [] OTHER ->
            IF Decodes(disk.bck, form) THEN Loaded(Decoded(disk.bck, form))
            ELSE IF disk.bck = Missing /\ readable THEN Loaded(NoKeys)
            ELSE LoadError

(* The process ends. *)
GoesDown == mgr' = Down /\ UNCHANGED disk

(* All that a completed write stored. *)
HoldsKept(keys) == \A e \in kept : keys[e] = "key"

(* persistFile begins with these keys.  They are not all the kept ones if the *)
(* process has found the file moved away, of an older version, or unreadable. *)
BeginsToWrite(keys) == exposed' = (exposed \/ ~HoldsKept(keys))

(* loadKeys *)
LoadKeys(kind, readable) ==
    LET l == LoadFile("flat", readable) IN
    /\ IF l.ok THEN mgr' = [kind |-> kind, pc |-> "up", keys |-> l.keys] /\ UNCHANGED disk
               ELSE GoesDown
    /\ UNCHANGED <<kept, faults, exposed>>

NewFileManager(readable) == mgr.pc = "down" /\ LoadKeys("file", readable)

(* NewLegacyFileManager: a file of the older version is written anew first. *)
PortLegacyKeystoreFile(readable) ==
    LET l == LoadFile("legacy", readable) IN
    /\ mgr.pc = "down"
    /\ l.ok
    /\ mgr' = [kind |-> "legacy", pc |-> IF l.keys = NoKeys THEN "load" ELSE "backup",
               keys |-> l.keys]
    /\ IF l.keys = NoKeys THEN UNCHANGED exposed ELSE BeginsToWrite(l.keys)
    /\ UNCHANGED <<disk, kept, faults>>

LegacyLoadKeys(readable) == mgr.pc = "load" /\ LoadKeys("legacy", readable)

(* setKey writes the whole store; LegacyFileManager changes only its memory.  *)
SetKey(e) ==
    /\ mgr.pc = "up"
    /\ mgr' = [mgr EXCEPT !.keys[e] = "key",
                          !.pc = IF mgr.kind = "file" THEN "backup" ELSE "up"]
    /\ IF mgr.kind = "file" THEN BeginsToWrite(mgr'.keys) ELSE UNCHANGED exposed
    /\ UNCHANGED <<disk, kept, faults>>

-----------------------------------------------------------------------------
(* persistFile *)
PersistGoto(from, to) == mgr.pc = from /\ mgr' = [mgr EXCEPT !.pc = to]

Interrupted == faults' = IF faults = 2 THEN 2 ELSE faults + 1

(* Mutant: the file is overwritten in place. *)
NoBackup ==
    /\ PersistGoto("backup", "create")
    /\ UNCHANGED <<disk, kept, faults, exposed>>

Backup ==
    /\ PersistGoto("backup", "create")
    /\ disk' = IF disk.file = Missing THEN disk ELSE [file |-> Missing, bck |-> disk.file]
    /\ UNCHANGED <<kept, faults, exposed>>

(* The error of os.Rename is only logged. *)
BackupFails ==
    /\ disk.file # Missing
    /\ PersistGoto("backup", "create")
    /\ Interrupted
    /\ UNCHANGED <<disk, kept, exposed>>

(* ioutil.WriteFile truncates the file before it writes. *)
Create ==
    /\ PersistGoto("create", "write")
    /\ disk' = [disk EXCEPT !.file = Torn]
    /\ UNCHANGED <<kept, faults, exposed>>

(* An error return: setKey leaves the key in memory, the constructor fails.   *)
PersistError == IF mgr.kind = "legacy" THEN GoesDown
                ELSE mgr' = [mgr EXCEPT !.pc = "up"] /\ UNCHANGED disk

(* The file was moved away, and is not written. *)
CreateFails == mgr.pc = "create" /\ PersistError /\ Interrupted /\ UNCHANGED <<kept, exposed>>

Write ==
    /\ PersistGoto("write", IF mgr.kind = "legacy" THEN "load" ELSE "up")
    /\ disk' = [disk EXCEPT !.file = Flat(mgr.keys)]
    /\ kept' = kept \cup {e \in Entries : mgr.keys[e] = "key"}
    /\ faults' = IF faults = 2 THEN 2 ELSE 0
    /\ UNCHANGED exposed

WriteFails == mgr.pc = "write" /\ PersistError /\ Interrupted /\ UNCHANGED <<kept, exposed>>

(* The process stops or dies, wherever it is. *)
Stop ==
    /\ mgr.pc # "down"
    /\ GoesDown
    /\ IF mgr.pc \in {"create", "write"} THEN Interrupted ELSE UNCHANGED faults
    /\ UNCHANGED <<kept, exposed>>

KeyFileNext ==
    \/ \E r \in BOOLEAN :
        NewFileManager(r) \/ PortLegacyKeystoreFile(r) \/ LegacyLoadKeys(r)
    \/ \E e \in Entries : SetKey(e)
    \/ Backup \/ BackupFails \/ Create \/ CreateFails \/ Write \/ WriteFails
    \/ Stop

KeyFileSpec == KeyFileInit /\ [][KeyFileNext]_keyFileVars

-----------------------------------------------------------------------------
(* What the next process finds: a FileManager, as every migration, or a       *)
(* LegacyFileManager, which reads the older format first.                     *)
FoundBy(kind) ==
    LET old == LoadFile("legacy", TRUE) IN
    IF kind = "legacy" /\ (~old.ok \/ old.keys # NoKeys) THEN old ELSE LoadFile("flat", TRUE)

(* After one interrupted write, or one backup that failed, FileManager loads  *)
(* the files: what cannot be decoded has a backup that can.  The exception is *)
(* the first write after an older version: interrupted, it leaves a backup    *)
(* that FileManager refuses, so that a migration ends with an error, and only *)
(* LegacyFileManager still reads.                                             *)
OneFaultStillLoads ==
    mgr.pc = "down" /\ faults <= 1 =>
        \/ FoundBy("file").ok
        \/ disk.file = Torn /\ disk.bck.form = "legacy" /\ FoundBy("legacy").ok

(* What completed writes stored survives one interruption at any point of     *)
(* persistFile, one between its two halves and a port of an older version     *)
(* among them: one of the two copies holds all of it, and the next            *)
(* FileManager that loads finds all of it, or none because the file was moved *)
(* away or is of the older version, and never a part.  Unless a process that  *)
(* had found less has written since.                                          *)
OneFaultKeepsKeys ==
    mgr.pc = "down" /\ faults <= 1 /\ ~exposed =>
        LET found == FoundBy("file") IN
        /\ HoldsKept(disk.file.keys) \/ HoldsKept(disk.bck.keys)
        /\ found.ok =>
            \/ HoldsKept(found.keys)
            \/ found.keys = NoKeys /\ disk.file.form \in {"missing", "legacy"}

=============================================================================
