----------------------------- MODULE KeyFileProofs -----------------------------
(***************************************************************************)
(* Proofs about the key file: what completed writes stored survives one    *)
(* interruption, wherever persistFile is when it comes.                    *)
(***************************************************************************)
EXTENDS KeyFile, TLAPS

(* A file that is half written is the mark of an interruption, outside the    *)
(* write itself; two are the mark of two.  And the file is overwritten in     *)
(* place only after the backup of it has failed.                              *)
TornMeansFaults ==
    /\ mgr.pc = "write" => disk.file = Torn
    /\ disk.file = Torn /\ mgr.pc # "write" => faults >= 1
    /\ disk.bck = Torn /\ disk.file \in {Missing, Torn} => faults >= 1
    /\ disk.bck = Torn /\ disk.file = Torn /\ mgr.pc # "write" => faults = 2
    /\ mgr.pc = "create" /\ disk.file # Missing => faults >= 1
    /\ mgr.pc = "create" /\ disk.file = Torn => faults = 2

(* Files of the older version hold some key or an empty one, and have no      *)
(* backup: no write goes back to that format.                                 *)
LegacyIsFirst ==
    /\ \A c \in {disk.file, disk.bck} : c.form = "legacy" => c.keys # NoKeys
    /\ disk.file.form = "legacy" => disk.bck = Missing

Holds(c) == c.form \in {"flat", "legacy"} /\ HoldsKept(c.keys)

BackupHolds == Holds(disk.bck) \/ (disk.bck = Missing /\ kept = {})

(* Which copy of the keys is complete at each step: the file if it can be     *)
(* decoded, else the backup, unless an interrupted write is repeated, when it *)
(* may be only the memory of the process that writes.                         *)
KeysAreSomewhere ==
    /\ disk.file = Missing /\ disk.bck = Missing => kept = {}
    /\ faults <= 1 /\ ~exposed =>
        /\ disk.file.form \in {"flat", "legacy"} => Holds(disk.file)
        /\ disk.file \in {Missing, Torn} =>
            (mgr.pc \in {"create", "write"} /\ faults = 1) \/ BackupHolds
        /\ mgr.pc \in {"backup", "create", "write"} => HoldsKept(mgr.keys)

KeyFileInv == KeyFileTypeOK /\ TornMeansFaults /\ LegacyIsFirst /\ KeysAreSomewhere

-----------------------------------------------------------------------------

(* What a file can hold. *)
LEMMA ContentKinds ==
    ASSUME NEW c \in Contents
    PROVE  /\ c.form \in {"missing", "torn", "flat", "legacy"} /\ c.keys \in Stores
           /\ c = Missing <=> c.form = "missing"
           /\ c = Torn <=> c.form = "torn"
BY DEF Contents, Missing, Torn, Flat, Legacy, NoKeys, Stores

(* The parts of the state. *)
LEMMA StateKinds ==
    ASSUME KeyFileTypeOK
    PROVE  /\ disk.file \in Contents /\ disk.bck \in Contents
           /\ mgr.keys \in Stores /\ mgr.kind \in {"file", "legacy"}
BY DEF KeyFileTypeOK, Disks, Managers

(* What loadFile returns. *)
LEMMA LoadReturns ==
    ASSUME KeyFileTypeOK, NEW form \in {"flat", "legacy"}, NEW readable \in BOOLEAN
    PROVE  LoadFile(form, readable).keys \in Stores
<1>1. NoKeys \in Stores
  BY DEF NoKeys, Stores
<1>2. disk.file.keys \in Stores /\ disk.bck.keys \in Stores
  BY StateKinds, ContentKinds
<1> QED BY <1>1, <1>2 DEF LoadFile, Loaded, LoadError, Decoded

(* The two properties follow. *)
LEMMA InvStillLoads == KeyFileInv => OneFaultStillLoads
<1> SUFFICES ASSUME KeyFileInv, mgr.pc = "down", faults <= 1
             PROVE  \/ FoundBy("file").ok
                    \/ disk.file = Torn /\ disk.bck.form = "legacy" /\ FoundBy("legacy").ok
  BY DEF OneFaultStillLoads
<1>1. /\ disk.file.form \in {"missing", "torn", "flat", "legacy"}
      /\ disk.bck.form \in {"missing", "torn", "flat", "legacy"}
      /\ disk.file = Missing <=> disk.file.form = "missing"
      /\ disk.bck = Missing <=> disk.bck.form = "missing"
      /\ disk.file = Torn <=> disk.file.form = "torn"
      /\ disk.bck = Torn <=> disk.bck.form = "torn"
  BY StateKinds, ContentKinds DEF KeyFileInv
<1>2. ~(disk.file = Torn /\ disk.bck = Torn)
  BY DEF KeyFileInv, TornMeansFaults
<1>3. CASE disk.file.form \in {"missing", "flat"}
  BY <1>1, <1>3 DEF FoundBy, LoadFile, Loaded, Decodes, Decoded
<1>4. CASE disk.file.form = "legacy"
  <2>1. disk.bck = Missing
    BY <1>4 DEF KeyFileInv, LegacyIsFirst
  <2> QED BY <1>1, <1>4, <2>1 DEF FoundBy, LoadFile, Loaded, Decodes, Decoded
<1>5. CASE disk.file = Torn
  <2>1. disk.bck.form = "legacy" => disk.bck.keys # NoKeys
    BY DEF KeyFileInv, LegacyIsFirst
  <2> QED BY <1>1, <1>2, <1>5, <2>1 DEF FoundBy, LoadFile, Loaded, Decodes, Decoded
<1> QED BY <1>1, <1>3, <1>4, <1>5

(* No stored key is lost: outside the writing process the keys are in the     *)
(* file or, where it cannot be decoded, in its backup.                        *)
LEMMA InvKeepsKeys == KeyFileInv => OneFaultKeepsKeys
<1> DEFINE found == FoundBy("file")
<1> SUFFICES ASSUME KeyFileInv, mgr.pc = "down", faults <= 1, ~exposed
             PROVE  /\ HoldsKept(disk.file.keys) \/ HoldsKept(disk.bck.keys)
                    /\ found.ok =>
                        \/ HoldsKept(found.keys)
                        \/ found.keys = NoKeys /\ disk.file.form \in {"missing", "legacy"}
  BY DEF OneFaultKeepsKeys
<1>1. /\ disk.file.form \in {"missing", "torn", "flat", "legacy"}
      /\ disk.bck.form \in {"missing", "torn", "flat", "legacy"}
      /\ disk.file = Missing <=> disk.file.form = "missing"
      /\ disk.bck = Missing <=> disk.bck.form = "missing"
      /\ disk.file = Torn <=> disk.file.form = "torn"
  BY StateKinds, ContentKinds DEF KeyFileInv
<1>2. found = LoadFile("flat", TRUE)
  BY DEF FoundBy
<1> HIDE DEF found
<1>3. kept = {} => HoldsKept(disk.file.keys) /\ HoldsKept(found.keys)
  BY DEF HoldsKept
<1>4. CASE disk.file.form = "flat"
  <2>1. Holds(disk.file)
    BY <1>4 DEF KeyFileInv, KeysAreSomewhere
  <2>2. found.keys = disk.file.keys
    BY <1>1, <1>2, <1>4 DEF LoadFile, Loaded, Decodes, Decoded
  <2> QED BY <2>1, <2>2 DEF Holds
<1>5. CASE disk.file.form = "legacy"
  <2>1. Holds(disk.file) /\ disk.bck = Missing
    BY <1>5 DEF KeyFileInv, KeysAreSomewhere, LegacyIsFirst
  <2>2. found.keys = NoKeys
    BY <1>1, <1>2, <1>5, <2>1 DEF LoadFile, Loaded, Decodes
  <2> QED BY <1>5, <2>1, <2>2 DEF Holds
<1>6. CASE disk.file = Missing
  <2>1. BackupHolds /\ found.keys = NoKeys
    BY <1>2, <1>6 DEF KeyFileInv, KeysAreSomewhere, LoadFile, Loaded
  <2> QED BY <1>1, <1>3, <1>6, <2>1 DEF BackupHolds, Holds
<1>7. CASE disk.file = Torn
  <2>1. BackupHolds
    BY <1>7 DEF KeyFileInv, KeysAreSomewhere
  <2>2. ASSUME Holds(disk.bck), found.ok PROVE found.keys = disk.bck.keys
    BY <1>1, <1>2, <1>7, <2>2 DEF LoadFile, Loaded, LoadError, Decodes, Decoded, Holds
  <2> QED BY <1>3, <2>1, <2>2 DEF BackupHolds, Holds
<1> QED BY <1>1, <1>4, <1>5, <1>6, <1>7

-----------------------------------------------------------------------------

(* A step that does not touch the files, outside persistFile: what it has to  *)
(* see to.                                                                    *)
LEMMA MemoryMoves ==
    ASSUME KeyFileInv, UNCHANGED <<disk, kept, faults>>,
           mgr' \in Managers, mgr.pc \in {"down", "load", "up", "backup"},
           mgr'.pc \in {"down", "load", "up", "backup"},
           exposed' \in BOOLEAN, exposed => exposed',
           mgr'.pc = "backup" => exposed' \/ HoldsKept(mgr'.keys)
    PROVE  KeyFileInv'
<1>1. KeyFileTypeOK'
  BY DEF KeyFileInv, KeyFileTypeOK
<1>2. TornMeansFaults'
  BY DEF KeyFileInv, TornMeansFaults
<1>3. LegacyIsFirst'
  BY DEF KeyFileInv, LegacyIsFirst
<1>4. KeysAreSomewhere'
  BY DEF KeyFileInv, KeysAreSomewhere, BackupHolds, Holds, HoldsKept
<1> QED BY <1>1, <1>2, <1>3, <1>4 DEF KeyFileInv

(* The process ends, in persistFile or not. *)
LEMMA DownTyped == Down \in Managers /\ Down.pc = "down"
BY DEF Down, Managers, NoKeys, Stores

(* loadKeys of either kind of process. *)
LEMMA LoadKeysInv ==
    ASSUME KeyFileInv, NEW kind \in {"file", "legacy"}, NEW readable \in BOOLEAN,
           LoadKeys(kind, readable), mgr.pc \in {"down", "load"}
    PROVE  KeyFileInv'
<1> DEFINE l == LoadFile("flat", readable)
<1>1. l.keys \in Stores
  BY LoadReturns DEF KeyFileInv
<1>2. /\ mgr' = Down \/ mgr' = [kind |-> kind, pc |-> "up", keys |-> l.keys]
      /\ UNCHANGED <<disk, kept, faults, exposed>>
  BY DEF LoadKeys, GoesDown
<1> HIDE DEF l
<1>3. mgr' \in Managers /\ mgr'.pc \in {"down", "up"}
  BY <1>1, <1>2, DownTyped DEF Managers
<1> QED BY <1>2, <1>3, MemoryMoves DEF KeyFileInv, KeyFileTypeOK

(* The file of an older version is read. *)
LEMMA PortInv ==
    ASSUME KeyFileInv, NEW readable \in BOOLEAN, PortLegacyKeystoreFile(readable)
    PROVE  KeyFileInv'
<1> DEFINE l == LoadFile("legacy", readable)
<1>1. /\ mgr.pc = "down"
      /\ mgr' = [kind |-> "legacy", pc |-> IF l.keys = NoKeys THEN "load" ELSE "backup",
                 keys |-> l.keys]
      /\ IF l.keys = NoKeys THEN UNCHANGED exposed ELSE BeginsToWrite(l.keys)
      /\ UNCHANGED <<disk, kept, faults>>
  BY DEF PortLegacyKeystoreFile
<1>2. l.keys \in Stores
  BY LoadReturns DEF KeyFileInv
<1> HIDE DEF l
<1>3. /\ mgr' \in Managers /\ mgr'.keys = l.keys
      /\ mgr'.pc = IF l.keys = NoKeys THEN "load" ELSE "backup"
  BY <1>1, <1>2 DEF Managers
<1>4. /\ exposed' \in BOOLEAN /\ (exposed => exposed')
      /\ mgr'.pc = "backup" => exposed' \/ HoldsKept(mgr'.keys)
  BY <1>1, <1>3 DEF KeyFileInv, KeyFileTypeOK, BeginsToWrite
<1> QED BY <1>1, <1>3, <1>4, MemoryMoves

(* A key is set in memory, and FileManager begins to write. *)
LEMMA SetKeyInv == ASSUME KeyFileInv, NEW e \in Entries, SetKey(e) PROVE KeyFileInv'
<1>1. mgr \in Managers /\ mgr.pc = "up" /\ UNCHANGED <<disk, kept, faults>>
  BY DEF KeyFileInv, KeyFileTypeOK, SetKey
<1>2. /\ mgr' \in Managers
      /\ mgr'.pc = IF mgr.kind = "file" THEN "backup" ELSE "up"
  BY <1>1 DEF SetKey, Managers, Stores
<1>3. /\ exposed' \in BOOLEAN /\ (exposed => exposed')
      /\ mgr'.pc = "backup" => exposed' \/ HoldsKept(mgr'.keys)
  BY <1>2 DEF KeyFileInv, KeyFileTypeOK, SetKey, BeginsToWrite
<1> QED BY <1>1, <1>2, <1>3, MemoryMoves

-----------------------------------------------------------------------------

(* The part of persistFile that comes next: only the pc of the process moves. *)
LEMMA PersistMoves ==
    ASSUME KeyFileTypeOK, NEW from, NEW to \in {"up", "load", "create", "write"},
           PersistGoto(from, to)
    PROVE  /\ mgr.pc = from /\ mgr' \in Managers /\ mgr'.pc = to
           /\ mgr'.keys = mgr.keys /\ mgr'.kind = mgr.kind
BY DEF KeyFileTypeOK, Managers, PersistGoto

(* The file is moved away: the backup is now what the file was. *)
LEMMA BackupInv == ASSUME KeyFileInv, Backup PROVE KeyFileInv'
<1>1. /\ mgr.pc = "backup" /\ mgr' \in Managers /\ mgr'.pc = "create" /\ mgr'.keys = mgr.keys
      /\ UNCHANGED <<kept, faults, exposed>>
  BY PersistMoves DEF KeyFileInv, Backup
<1>2. CASE disk.file = Missing
  <2>1. UNCHANGED disk
    BY <1>2 DEF Backup
  <2>2. KeyFileTypeOK'
    BY <1>1, <2>1 DEF KeyFileInv, KeyFileTypeOK
  <2>3. TornMeansFaults'
    BY <1>1, <1>2, <2>1 DEF KeyFileInv, TornMeansFaults, Missing, Torn
  <2>4. LegacyIsFirst'
    BY <2>1 DEF KeyFileInv, LegacyIsFirst
  <2>5. KeysAreSomewhere'
    BY <1>1, <2>1 DEF KeyFileInv, KeysAreSomewhere, BackupHolds, Holds, HoldsKept
  <2> QED BY <2>2, <2>3, <2>4, <2>5 DEF KeyFileInv
<1>3. CASE disk.file # Missing
  <2>1. disk' = [file |-> Missing, bck |-> disk.file]
    BY <1>3 DEF Backup
  <2>2. disk' \in Disks /\ disk'.file = Missing /\ disk'.bck = disk.file /\ Missing # Torn
    BY <2>1, StateKinds DEF KeyFileInv, Disks, Contents, Missing, Torn
  <2>3. KeyFileTypeOK'
    BY <1>1, <2>2 DEF KeyFileInv, KeyFileTypeOK
  <2>4. TornMeansFaults'
    BY <1>1, <2>2 DEF KeyFileInv, TornMeansFaults
  <2>5. LegacyIsFirst'
    BY <2>2 DEF KeyFileInv, LegacyIsFirst, Missing
  <2>6. KeysAreSomewhere'
    <3>1. disk.file.form \in {"flat", "legacy"} \/ disk.file = Torn
      BY <1>3, StateKinds, ContentKinds DEF KeyFileInv
    <3>2. faults \in 0..2 /\ (disk.file = Torn => faults >= 1)
      BY <1>1 DEF KeyFileInv, KeyFileTypeOK, TornMeansFaults
    <3>3. Missing.form = "missing"
      BY DEF Missing
    <3>4. faults = 0 /\ ~exposed => Holds(disk.file)
      BY <3>1, <3>2 DEF KeyFileInv, KeysAreSomewhere
    <3> QED BY <1>1, <1>3, <2>2, <3>2, <3>3, <3>4
            DEF KeyFileInv, KeysAreSomewhere, BackupHolds, Holds, HoldsKept
  <2> QED BY <2>3, <2>4, <2>5, <2>6 DEF KeyFileInv
<1> QED BY <1>2, <1>3

(* Counting interruptions. *)
LEMMA InterruptedCounts ==
    ASSUME KeyFileTypeOK, Interrupted
    PROVE  /\ faults' \in 0..2 /\ faults' >= 1
           /\ faults >= 1 => faults' = 2
           /\ faults' <= 1 => faults = 0
BY DEF KeyFileTypeOK, Interrupted

(* The backup fails, and the file will be overwritten in place. *)
LEMMA BackupFailsInv == ASSUME KeyFileInv, BackupFails PROVE KeyFileInv'
<1>1. /\ mgr.pc = "backup" /\ mgr' \in Managers /\ mgr'.pc = "create" /\ mgr'.keys = mgr.keys
      /\ UNCHANGED <<disk, kept, exposed>> /\ disk.file # Missing
  BY PersistMoves DEF KeyFileInv, BackupFails
<1>2. /\ faults' \in 0..2 /\ faults' >= 1
      /\ faults >= 1 => faults' = 2
      /\ faults' <= 1 => faults = 0
  BY InterruptedCounts DEF KeyFileInv, BackupFails
<1>3. KeyFileTypeOK'
  BY <1>1, <1>2 DEF KeyFileInv, KeyFileTypeOK
<1>4. TornMeansFaults'
  BY <1>1, <1>2 DEF KeyFileInv, TornMeansFaults
<1>5. LegacyIsFirst'
  BY <1>1 DEF KeyFileInv, LegacyIsFirst
<1>6. KeysAreSomewhere'
  <2>1. disk.file = Torn => faults' = 2
    BY <1>1, <1>2 DEF KeyFileInv, TornMeansFaults
  <2> QED BY <1>1, <1>2, <2>1 DEF KeyFileInv, KeysAreSomewhere, BackupHolds, Holds, HoldsKept
<1> QED BY <1>3, <1>4, <1>5, <1>6 DEF KeyFileInv

(* The file is truncated. *)
LEMMA CreateInv == ASSUME KeyFileInv, Create PROVE KeyFileInv'
<1>1. /\ mgr.pc = "create" /\ mgr' \in Managers /\ mgr'.pc = "write" /\ mgr'.keys = mgr.keys
      /\ UNCHANGED <<kept, faults, exposed>>
  BY PersistMoves DEF KeyFileInv, Create
<1>2. disk' \in Disks /\ disk'.file = Torn /\ disk'.bck = disk.bck
  BY DEF KeyFileInv, KeyFileTypeOK, Disks, Create, Contents
<1>3. Torn.form = "torn" /\ Torn # Missing
  BY DEF Torn, Missing
<1>4. KeyFileTypeOK'
  BY <1>1, <1>2 DEF KeyFileInv, KeyFileTypeOK
<1>5. TornMeansFaults'
  BY <1>1, <1>2, <1>3 DEF KeyFileInv, TornMeansFaults
<1>6. LegacyIsFirst'
  BY <1>2, <1>3 DEF KeyFileInv, LegacyIsFirst
<1>7. KeysAreSomewhere'
  <2>1. faults \in 0..2 /\ (faults = 0 => disk.file = Missing)
    BY <1>1 DEF KeyFileInv, KeyFileTypeOK, TornMeansFaults
  <2> QED BY <1>1, <1>2, <1>3, <2>1
          DEF KeyFileInv, KeysAreSomewhere, BackupHolds, Holds, HoldsKept
<1> QED BY <1>4, <1>5, <1>6, <1>7 DEF KeyFileInv

(* The write completes. *)
LEMMA WriteInv == ASSUME KeyFileInv, Write PROVE KeyFileInv'
<1>1. /\ mgr.pc = "write" /\ mgr' \in Managers /\ mgr'.pc \in {"load", "up"}
      /\ mgr'.keys = mgr.keys /\ UNCHANGED exposed
  BY PersistMoves DEF KeyFileInv, Write
<1>2. mgr.keys \in Stores
  BY StateKinds DEF KeyFileInv
<1>3. disk' \in Disks /\ disk'.file = Flat(mgr.keys) /\ disk'.bck = disk.bck
  BY <1>2 DEF KeyFileInv, KeyFileTypeOK, Disks, Write, Contents
<1>4. Flat(mgr.keys).form = "flat" /\ Flat(mgr.keys).keys = mgr.keys
      /\ Flat(mgr.keys) # Torn /\ Flat(mgr.keys) # Missing
  BY DEF Flat, Torn, Missing
<1>5. /\ faults' \in 0..2 /\ (faults' <= 1 => faults <= 1)
      /\ kept' = kept \cup {e \in Entries : mgr.keys[e] = "key"}
  BY DEF KeyFileInv, KeyFileTypeOK, Write
<1>6. KeyFileTypeOK'
  BY <1>1, <1>3, <1>5 DEF KeyFileInv, KeyFileTypeOK
<1>7. TornMeansFaults'
  BY <1>1, <1>3, <1>4 DEF TornMeansFaults
<1>8. LegacyIsFirst'
  BY <1>3, <1>4 DEF KeyFileInv, LegacyIsFirst
<1>9. KeysAreSomewhere'
  <2>1. ASSUME faults' <= 1, ~exposed' PROVE \A e \in kept' : mgr.keys[e] = "key"
    BY <1>1, <1>5, <2>1 DEF KeyFileInv, KeysAreSomewhere, HoldsKept
  <2> QED BY <1>1, <1>3, <1>4, <2>1 DEF KeysAreSomewhere, Holds, HoldsKept
<1> QED BY <1>6, <1>7, <1>8, <1>9 DEF KeyFileInv

(* persistFile is interrupted: by an error, or by the end of the process. *)
LEMMA PersistInterrupted ==
    ASSUME KeyFileInv, mgr.pc \in {"create", "write"}, Interrupted,
           UNCHANGED <<disk, kept, exposed>>, mgr' \in Managers, mgr'.pc \in {"down", "up"}
    PROVE  KeyFileInv'
<1>1. /\ faults' \in 0..2 /\ faults' >= 1
      /\ faults >= 1 => faults' = 2
      /\ faults' <= 1 => faults = 0
  BY InterruptedCounts DEF KeyFileInv
<1>2. KeyFileTypeOK'
  BY <1>1 DEF KeyFileInv, KeyFileTypeOK
<1>3. TornMeansFaults'
  BY <1>1 DEF KeyFileInv, TornMeansFaults
<1>4. LegacyIsFirst'
  BY DEF KeyFileInv, LegacyIsFirst
<1>5. KeysAreSomewhere'
  BY <1>1 DEF KeyFileInv, KeysAreSomewhere, BackupHolds, Holds, HoldsKept
<1> QED BY <1>2, <1>3, <1>4, <1>5 DEF KeyFileInv

(* The process ends anywhere, or goes on after an error of persistFile. *)
LEMMA PersistErrorInv ==
    ASSUME KeyFileInv, CreateFails \/ WriteFails \/ Stop PROVE KeyFileInv'
<1>1. CASE CreateFails \/ WriteFails
  <2>1. /\ mgr.pc \in {"create", "write"} /\ Interrupted /\ UNCHANGED <<disk, kept, exposed>>
        /\ mgr' \in {Down, [mgr EXCEPT !.pc = "up"]}
    BY <1>1 DEF CreateFails, WriteFails, PersistError, GoesDown
  <2>2. mgr' \in Managers /\ mgr'.pc \in {"down", "up"}
    BY <2>1, DownTyped DEF KeyFileInv, KeyFileTypeOK, Managers
  <2> QED BY <2>1, <2>2, PersistInterrupted
<1>2. CASE Stop
  <2>1. mgr' = Down /\ UNCHANGED <<disk, kept, exposed>>
    BY <1>2 DEF Stop, GoesDown
  <2>2. CASE mgr.pc \in {"create", "write"}
    BY <1>2, <2>1, <2>2, DownTyped, PersistInterrupted DEF Stop
  <2>3. CASE mgr.pc \notin {"create", "write"}
    <3>1. mgr.pc \in {"down", "load", "up", "backup"}
      BY <2>3 DEF KeyFileInv, KeyFileTypeOK, Managers
    <3>2. UNCHANGED faults /\ exposed \in BOOLEAN
      BY <1>2, <2>3 DEF Stop, KeyFileInv, KeyFileTypeOK
    <3> QED BY <2>1, <3>1, <3>2, DownTyped, MemoryMoves
  <2> QED BY <2>2, <2>3
<1> QED BY <1>1, <1>2

-----------------------------------------------------------------------------

(* A key file of either format, or none. *)
LEMMA KeyFileInitInv == KeyFileInit => KeyFileInv
<1> SUFFICES ASSUME KeyFileInit PROVE KeyFileInv
  OBVIOUS
<1>1. PICK s \in OldStores, form \in {"flat", "legacy"} :
        /\ disk = [file |-> IF s = NoKeys THEN Missing ELSE [form |-> form, keys |-> s],
                   bck |-> Missing]
        /\ kept = {e \in Entries : s[e] = "key"}
  BY DEF KeyFileInit
<1>2. mgr = Down /\ faults = 0 /\ exposed = FALSE
  BY DEF KeyFileInit
<1>3. s \in Stores
  BY OldStoresAssumption
<1>4. s # NoKeys => disk.file \in {Flat(s), Legacy(s)}
  BY <1>1 DEF Flat, Legacy
<1>5. disk.bck = Missing /\ (s = NoKeys => disk.file = Missing)
  BY <1>1
<1>6. KeyFileTypeOK
  <2>1. disk.file \in Contents /\ disk.bck \in Contents
    BY <1>3, <1>4, <1>5 DEF Contents
  <2>2. disk \in Disks
    BY <1>1, <2>1 DEF Disks
  <2>3. mgr \in Managers
    BY <1>2 DEF Down, Managers, NoKeys, Stores
  <2>4. kept \subseteq Entries
    BY <1>1
  <2>5. faults \in 0..2
    BY <1>2
  <2>6. exposed \in BOOLEAN
    BY <1>2, Zenon
  <2> QED BY <2>2, <2>3, <2>4, <2>5, <2>6 DEF KeyFileTypeOK
<1>7. \A e \in kept : s[e] = "key" /\ s # NoKeys
  BY <1>1 DEF NoKeys
<1>8. s # NoKeys => /\ disk.file.form \in {"flat", "legacy"} /\ disk.file.keys = s
                    /\ disk.file # Missing /\ disk.file # Torn
  BY <1>4 DEF Flat, Legacy, Missing, Torn
<1>9. Missing.form = "missing" /\ Missing # Torn
  BY DEF Missing, Torn
<1>10. TornMeansFaults
  BY <1>2, <1>5, <1>8, <1>9 DEF TornMeansFaults, Down
<1>11. LegacyIsFirst
  BY <1>5, <1>8, <1>9 DEF LegacyIsFirst
<1>12. KeysAreSomewhere
  <2>1. s = NoKeys => kept = {}
    BY <1>7
  <2> QED BY <1>2, <1>5, <1>7, <1>8, <1>9, <2>1
          DEF KeysAreSomewhere, BackupHolds, Holds, HoldsKept, Down
<1> QED BY <1>6, <1>10, <1>11, <1>12 DEF KeyFileInv

(* Every step preserves the invariant. *)
LEMMA KeyFileNextInv == KeyFileInv /\ [KeyFileNext]_keyFileVars => KeyFileInv'
<1> SUFFICES ASSUME KeyFileInv, [KeyFileNext]_keyFileVars PROVE KeyFileInv'
  OBVIOUS
<1>1. ASSUME NEW r \in BOOLEAN,
             NewFileManager(r) \/ PortLegacyKeystoreFile(r) \/ LegacyLoadKeys(r)
      PROVE  KeyFileInv'
  BY <1>1, LoadKeysInv, PortInv DEF NewFileManager, LegacyLoadKeys
<1>2. CASE UNCHANGED keyFileVars
  <2>1. UNCHANGED <<disk, mgr, kept, faults, exposed>>
    BY <1>2 DEF keyFileVars
  <2> QED BY <2>1 DEF KeyFileInv, KeyFileTypeOK, TornMeansFaults, LegacyIsFirst,
                      KeysAreSomewhere, BackupHolds, Holds, HoldsKept
<1> QED BY <1>1, <1>2, SetKeyInv, BackupInv, BackupFailsInv, CreateInv, WriteInv, PersistErrorInv
        DEF KeyFileNext

(* The inductive invariant holds throughout. *)
THEOREM KeyFileInvariant == KeyFileSpec => []KeyFileInv
BY KeyFileInitInv, KeyFileNextInv, PTL DEF KeyFileSpec

(* After one interruption of a write FileManager loads the files, unless it    *)
(* was the first write after an older version, which LegacyFileManager still   *)
(* reads.                                                                      *)
THEOREM StillLoads == KeyFileSpec => []OneFaultStillLoads
BY KeyFileInvariant, InvStillLoads, PTL

(* And everything that completed writes had stored is in one copy on the disk, *)
(* also after a stop between the rename and the write, and FileManager finds   *)
(* all of it or nothing, however many entries there are and whatever version   *)
(* wrote the file.                                                             *)
THEOREM KeysKept == KeyFileSpec => []OneFaultKeepsKeys
BY KeyFileInvariant, InvKeepsKeys, PTL

=============================================================================
