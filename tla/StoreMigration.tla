--------------------------- MODULE StoreMigration ---------------------------
(***************************************************************************)
(* The migration of a plaintext store to an encrypted one when it is       *)
(* opened (prepare_encrypted_sqlite and prepare_encrypted_qdrant_storage   *)
(* in security.py): a SQLite file, whose last transactions may be in a     *)
(* sidecar (the write-ahead log), or the folder of the memories.  A copy   *)
(* is encrypted beside the store, what it replaces is set aside, and the   *)
(* copy takes its place.  Any step may raise, and the process may die      *)
(* between any two steps; the next start goes by what it finds.            *)
(*                                                                         *)
(* A copy is [form, parts]: parts are what of the data it holds.  The      *)
(* store's name is the same at every start, those of the copies are new.   *)
(***************************************************************************)
EXTENDS Naturals, FiniteSets

CONSTANT MaxFaults   \* bound on the steps that raise and the crashes (of the model)

ASSUME MigrationAssumption == MaxFaults \in Nat

VARIABLES
  folder,    \* the store is a folder, not a file
  stage,     \* where the process is
  live,      \* what is at the store's path
  sidecar,   \* the parts of the data that are in the file's sidecar
  staged,    \* the copy being encrypted
  aside,     \* the folder that was replaced, or the sidecar that was moved
  backup,    \* the copy below migration-backups
  left,      \* copies of earlier attempts, <<where, copy>>
  faults,    \* steps that raised, and crashes
  crashed,   \* for the properties: a migration was cut short, and
  purged     \* the recovery copies were removed with a profile

migrationVars ==
  <<folder, stage, live, sidecar, staged, aside, backup, left, faults, crashed, purged>>

Parts == {"base", "recent"}
None == [form |-> "none", parts |-> {}]
PlainCopy(parts) == [form |-> "plain", parts |-> parts]

MigrationInit ==
  /\ folder \in BOOLEAN
  /\ stage = "down"
  /\ \E inLog \in IF folder THEN {{}} ELSE {{}, {"recent"}} :
       live = PlainCopy(Parts \ inLog) /\ sidecar = inLog
  /\ staged = None /\ aside = None /\ backup = None /\ left = {}
  /\ faults = 0 /\ crashed = FALSE /\ purged = FALSE

StageIs(s) == stage = s
Kept == <<folder, faults, crashed, purged>>

-----------------------------------------------------------------------------
(* Opening the store *)

\* A store that is plaintext is migrated. A folder that is not there is made.
Prepare ==
  /\ StageIs("down")
  /\ live' = IF live.form = "none" THEN [None EXCEPT !.form = "empty"] ELSE live
  /\ stage' = IF live.form = "plain" THEN "copy" ELSE "open"
  /\ UNCHANGED <<sidecar, staged, aside, backup, left, Kept>>

\* _snapshot_plaintext_sqlite and copytree: the copy holds what is in the sidecar
\* too. (SnapshotMainOnly: a copy of the file.)
SnapshotMainOnly == backup' = PlainCopy(live.parts)
Snapshot == backup' = PlainCopy(live.parts \cup sidecar)
CopyStore ==
  /\ StageIs("copy") /\ Snapshot
  /\ stage' = "encrypt"
  /\ UNCHANGED <<live, sidecar, staged, aside, left, Kept>>

\* _encrypt_sqlite_snapshot and _verify_encrypted_sqlite, of each file of a folder.
EncryptCopy ==
  /\ StageIs("encrypt")
  /\ staged' = [backup EXCEPT !.form = "encrypted"]
  /\ stage' = "aside"
  /\ UNCHANGED <<live, sidecar, aside, backup, left, Kept>>

\* The sidecars are moved beside the backup; the folder is renamed.
SetAside ==
  /\ StageIs("aside")
  /\ IF folder THEN aside' = live /\ live' = None /\ UNCHANGED sidecar
     ELSE aside' = PlainCopy(sidecar) /\ sidecar' = {} /\ UNCHANGED live
  /\ stage' = "place"
  /\ UNCHANGED <<staged, backup, left, Kept>>

PutInPlace ==
  /\ StageIs("place")
  /\ live' = staged /\ staged' = None
  /\ stage' = "clean"
  /\ UNCHANGED <<sidecar, aside, backup, left, Kept>>

\* What was set aside is removed, then the backup. (The release notes say that it
\* is retained, the tests that it is not.)
Clean ==
  /\ StageIs("clean")
  /\ IF aside # None THEN aside' = None /\ UNCHANGED <<backup, stage>>
     ELSE backup' = None /\ stage' = "open" /\ UNCHANGED aside
  /\ UNCHANGED <<live, sidecar, staged, left, Kept>>

-----------------------------------------------------------------------------
(* Failures *)

\* The except clauses: what was set aside is put back, unless the new store is in
\* place.
Restore ==
  IF ~StageIs("place") THEN UNCHANGED <<live, sidecar, aside>>
  ELSE /\ aside' = None
       /\ IF folder THEN live' = aside /\ UNCHANGED sidecar
          ELSE sidecar' = aside.parts /\ UNCHANGED live

\* What an attempt leaves behind on the disk.
Remains ==
  {<<"beside", c>> : c \in {staged'} \cup (IF folder THEN {aside'} ELSE {})}
    \cup {<<"backups", c>> : c \in {backup} \cup (IF folder THEN {} ELSE {aside'})}
Leaves == left' = left \cup {r \in Remains : r[2] # None /\ r[2].parts # {}}
Afresh == backup' = None /\ faults' = faults + 1

\* A step raises, and the program does not start.
StepRaises ==
  /\ faults < MaxFaults /\ stage \in {"copy", "encrypt", "aside", "place", "clean"}
  /\ Restore /\ staged' = None
  /\ Leaves /\ Afresh /\ stage' = "down"
  /\ UNCHANGED <<folder, crashed, purged>>

\* The process dies. What it had set aside stays where it is.
DiesMigrating ==
  /\ faults < MaxFaults /\ stage \in {"copy", "encrypt", "aside", "place", "clean"}
  /\ UNCHANGED <<live, sidecar, staged, aside>>
  /\ Leaves /\ Afresh /\ stage' = "dead" /\ crashed' = TRUE
  /\ UNCHANGED <<folder, purged>>
ComesBack ==
  /\ StageIs("dead")
  /\ stage' = "down" /\ staged' = None /\ aside' = None
  /\ UNCHANGED <<live, sidecar, backup, left, Kept>>

\* purge_legacy_migration_backups, when a profile is deleted or all is reset. The
\* store's own contents are not this module's.
Purge ==
  /\ StageIs("open") /\ ~purged
  /\ left' = {r \in left : r[1] # "backups"} /\ purged' = TRUE
  /\ UNCHANGED <<folder, stage, live, sidecar, staged, aside, backup, faults, crashed>>

MigrationNext ==
  \/ Prepare \/ CopyStore \/ EncryptCopy \/ SetAside \/ PutInPlace \/ Clean
  \/ StepRaises \/ DiesMigrating \/ ComesBack \/ Purge

MigrationSpec == MigrationInit /\ [][MigrationNext]_migrationVars

-----------------------------------------------------------------------------
(* Properties *)

HasAll(parts) == parts = Parts

\* A migration that raises, at whatever step, has kept the data in the store: the
\* next start finds it, encrypted or as it was.
FailureKeepsData ==
  ~crashed /\ stage \in {"down", "open"} => HasAll(live.parts \cup sidecar)

\* Whenever the process dies, and however often, a complete copy of the data is on
\* the disk, until the recovery copies are purged.
CopyRemains ==
  ~purged =>
    \/ HasAll(live.parts \cup sidecar)
    \/ \E c \in {staged, aside, backup} \cup {r[2] : r \in left} : HasAll(c.parts)

\* Neither a failure nor a crash loses the data.
DataSurvives == FailureKeepsData /\ CopyRemains

\* docs/releases/v1.2.0.md:21, "Plaintext SQLite and Qdrant migrations are staged,
\* verified, and swapped atomically when SQLCipher and application key protection
\* are available. Restricted recovery backups are retained, and failed migrations
\* restore or preserve the original data.": a store that opens has its data. (The
\* code retains a backup only when a migration fails: Clean.) The swap is two renames, and
\* a process that dies between them leaves no store at the path, or a file without
\* its log: the next start makes an empty folder, or migrates what is left.
OpensWithData == StageIs("open") => HasAll(live.parts \cup sidecar)

=============================================================================
