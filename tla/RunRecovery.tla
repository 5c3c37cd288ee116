---------------------------- MODULE RunRecovery ----------------------------
(***************************************************************************)
(* The two files that remember a run across crashes (run_store.py, with    *)
(* the recovery and unlock calls of api_service.py): the run's artifact,   *)
(* runs/<id>.json, and its row in runs/index.json.  Each file is replaced  *)
(* atomically, but an operation of the store replaces several, one after   *)
(* the other, and the process can die between any two of them.             *)
(*                                                                         *)
(* The store's lock is held for a whole operation, so an operation is the  *)
(* sequence of disk contents it goes through: "writes" holds the ones to   *)
(* come.  A crash forgets them, and everything else but the disk.  Only    *)
(* reset_all deletes files outside of the lock, the index among them.      *)
(***************************************************************************)
EXTENDS Integers, FiniteSets, Sequences, SequencesExt

CONSTANTS
  Runs,        \* run ids
  Profiles,
  Owner,       \* Runs -> Profiles
  Protected,   \* the profiles with a password
  MaxFaults    \* bound on crashes, failed recoveries and damaged artifacts

ASSUME RunsAssumption == IsFiniteSet(Runs)
ASSUME OwnerAssumption == Owner \in [Runs -> Profiles]
ASSUME ProtectedAssumption == Protected \subseteq Profiles
ASSUME FaultsAssumption == MaxFaults \in Nat

Active   == {"queued", "running", "cancelling"}   \* ACTIVE_RUN_STATUSES
Terminal == {"completed", "failed"}

\* An artifact: its status, its run_completed and run_failed events in order,
\* and whether it can still be decrypted and parsed.
NoArtifact == [status |-> "none", ends |-> << >>, whole |-> TRUE]
Readable(a) == a.status # "none" /\ a.whole

VARIABLES
  disk,      \* artifact and index row of every run, and the quarantined runs
  writes,    \* what the operation in progress still has to put on the disk
  job,       \* which operation that is, and for whom
  state,     \* the process: "down", "starting" or "up"
  live,      \* the runs the service created and has not finished
  withdrawn, \* those a cancel or the shutdown took from the queue, to fail them
  dropped,   \* history: those for which that call raised
  resetting, \* _global_mutation_active
  keys,      \* _user_keys of the protected profiles
  deferred,  \* _deferred_recovery_runs
  made,      \* the run ids already used
  faults

calls == <<live, withdrawn, dropped, resetting>>
memory == <<state, calls, keys, deferred>>
vars == <<disk, writes, job, memory, made, faults>>

Idle == [op |-> "none", for |-> CHOOSE p \in Profiles : TRUE]

\* The disk: "indexed" says whether index.json exists, and the history "torn"
\* names the runs of which a reset left a file behind without a row.
Nothing == [artifact |-> [r \in Runs |-> NoArtifact],
            index |-> [r \in Runs |-> "none"],
            quarantine |-> {}, indexed |-> TRUE, torn |-> {}]

Init ==
  /\ disk = Nothing
  /\ writes = << >>
  /\ job = Idle
  /\ state = "down"
  /\ live = {} /\ withdrawn = {} /\ dropped = {} /\ resetting = FALSE
  /\ keys = {} /\ deferred = {} /\ made = {}
  /\ faults = 0

RunsOf(p) == {r \in Runs : Owner[r] = p}
Unlocked(p) == p \in Protected => p \in keys
ActiveRuns == {r \in Runs : disk.index[r] \in Active}
Content(d) == {r \in Runs : d.artifact[r].status # "none"} \union d.quarantine
Fault == faults < MaxFaults /\ faults' = faults + 1

-----------------------------------------------------------------------------
(* Operations on single runs. *)

\* The store is free, in a process that serves requests.
Ready == state = "up" /\ writes = << >>

\* The profiles can be looked up, and no reset keeps the requests out.
Served == Ready /\ disk.indexed /\ ~resetting

\* What the gate knows of: the queue and the run that executes.
Gated == live \ withdrawn

\* An operation named op begins: s are the disk contents it goes through.
Begin(op, p, s) ==
  /\ writes' = s
  /\ job' = [op |-> op, for |-> p]

Filed(d, r, a) == [d EXCEPT !.artifact[r] = a]
Listed(d, r, s) == [d EXCEPT !.index[r] = s]

\* The artifact first, then the index, if it is there: else the call raises.
SaveIndexFirst(r, a) == <<Listed(disk, r, a.status), Filed(Listed(disk, r, a.status), r, a)>>
Save(r, a) ==
  IF disk.indexed THEN <<Filed(disk, r, a), Listed(Filed(disk, r, a), r, a.status)>>
                  ELSE <<Filed(disk, r, a)>>

\* create_run
Create(r) ==
  /\ Served /\ r \notin made /\ Unlocked(Owner[r])
  /\ made' = made \union {r}
  /\ live' = live \union {r}
  /\ Begin("create", Owner[r], Save(r, [NoArtifact EXCEPT !.status = "queued"]))
  /\ UNCHANGED <<disk, state, withdrawn, dropped, resetting, keys, deferred, faults>>

\* The store can read the artifact, and so replace it.
Writable(r) == Readable(disk.artifact[r]) /\ Unlocked(Owner[r])

\* mark_run_running, of the run that executes, and mark_run_cancelling_with_event,
\* of any run without an ending: one that has been withdrawn or dropped too.
Mark(r, s) ==
  /\ Ready /\ Writable(r)
  /\ IF s = "running" THEN r \in Gated /\ disk.artifact[r].status = "queued"
                      ELSE r \in live \union dropped
  /\ disk.artifact[r].status \notin Terminal \union {s}
  /\ Begin("mark", Owner[r], Save(r, [disk.artifact[r] EXCEPT !.status = s]))
  /\ UNCHANGED <<disk, memory, made, faults>>

\* cancel_run and begin_shutdown take the run from the queue; the call that
\* fails it comes later.
Withdraw(r) ==
  /\ Ready /\ r \in Gated /\ disk.artifact[r].status = "queued"
  /\ withdrawn' = withdrawn \union {r}
  /\ UNCHANGED <<disk, writes, job, state, live, dropped, resetting, keys, deferred, made, faults>>

\* That call raises: the profile was locked, or the file deleted. The run is
\* forgotten.
Drop(r) ==
  /\ Ready /\ r \in withdrawn /\ ~Writable(r)
  /\ live' = live \ {r} /\ withdrawn' = withdrawn \ {r}
  /\ dropped' = dropped \union {r}
  /\ UNCHANGED <<disk, writes, job, state, resetting, keys, deferred, made, faults>>

\* How the artifact a ends when the service asks for s: a run that is being
\* cancelled does not complete.
Ended(a, s) ==
  LET end == IF a.status = "cancelling" THEN "failed" ELSE s
  IN  IF a.ends # << >> THEN a ELSE [a EXCEPT !.status = end, !.ends = Append(@, end)]

\* _finish_run_with_event. The worker and a stop may both ask for it: a call
\* that finds an ending returns it and writes nothing. A withdrawn run fails.
Finish(r, s) ==
  LET a == disk.artifact[r]
  IN  /\ Ready /\ Writable(r)
      /\ r \in live \/ a.ends # << >>
      /\ r \in withdrawn => s = "failed"
      /\ live' = live \ {r} /\ withdrawn' = withdrawn \ {r}
      /\ IF Ended(a, s) = a THEN UNCHANGED <<writes, job>>
         ELSE Begin("finish", Owner[r], Save(r, Ended(a, s)))
      /\ UNCHANGED <<disk, state, dropped, resetting, keys, deferred, made, faults>>

-----------------------------------------------------------------------------
(* Recovery: fail_incomplete_runs. *)

\* What is written for an interrupted run. An artifact that already ended is
\* believed; a missing one is built from the index row; an unreadable one has
\* been moved away and is replaced.
FailedArtifact == [status |-> "failed", ends |-> <<"failed">>, whole |-> TRUE]
RepairedAsFailed(a) ==
  IF Readable(a) THEN [a EXCEPT !.status = "failed", !.ends = Append(@, "failed")]
                 ELSE FailedArtifact
Repaired(a) ==
  IF Readable(a) /\ a.ends # << >> THEN a
  ELSE RepairedAsFailed(a)

\* The disk when the files of the first k \div 2 runs of "order" are repaired.
\* An unreadable artifact takes two steps: the move to quarantine, and the new
\* file. In "kept" the move fails and the file stays; in "lost" the new file
\* cannot be written, which the recovery survives.
Halfway(d, order, k, kept, lost) ==
  LET Reached(r, half) ==
        \E i \in 1..Len(order) : order[i] = r /\ 2 * i - half <= k
      Bad(r) == ~d.artifact[r].whole
      Artifact(r) ==
        IF ~Reached(r, 1) \/ (r \in kept /\ Bad(r)) THEN d.artifact[r]
        ELSE IF Bad(r) /\ (r \in lost \/ ~Reached(r, 0)) THEN NoArtifact
        ELSE IF Reached(r, 0) THEN Repaired(d.artifact[r])
        ELSE d.artifact[r]
  IN  [d EXCEPT !.artifact = [r \in Runs |-> Artifact(r)],
                !.quarantine = @ \union {r \in Runs \ kept : Bad(r) /\ Reached(r, 1)}]

\* The index is written once, after all of the files.
RecoverySteps(d, todo, kept, lost) ==
  LET order == SetToSeq(todo)
      n     == 2 * Len(order)
      last  == Halfway(d, order, n, kept, lost)
      Row(r) == IF r \notin todo THEN d.index[r]
                ELSE IF Readable(d.artifact[r]) THEN Repaired(d.artifact[r]).status
                ELSE "failed"
  IN  [k \in 1..n |-> Halfway(d, order, k, kept, lost)]
        \o <<[last EXCEPT !.index = [r \in Runs |-> Row(r)]]>>

\* Which of the runs the moves and the rewrites fail for.
Unmovable(todo) == {r \in todo : ~disk.artifact[r].whole}

\* A store that is opened without an index begins with an empty one.
Found(d) == [d EXCEPT !.indexed = TRUE]

\* AtlasBackendService.start, _recover_incomplete_runs: the interrupted runs of
\* a locked profile wait for its unlock. (StartSkipping leaves the unreadable
\* artifacts alone.)
StartRecovery(todo, later) ==
  /\ state = "down" /\ state' = "starting"
  /\ deferred' = later
  /\ \E kept \in SUBSET Unmovable(todo), lost \in SUBSET Unmovable(todo) :
       Begin("recover", job.for, RecoverySteps(Found(disk), todo, kept, lost))
  /\ UNCHANGED <<disk, calls, keys, made, faults>>
Locked == {r \in Runs : ~Unlocked(Owner[r])}
StartSkipping ==
  StartRecovery(ActiveRuns \ (Locked \union Unmovable(Runs)), ActiveRuns \intersect Locked)
Start == StartRecovery(ActiveRuns \ Locked, ActiveRuns \intersect Locked)

\* unlock_user: the key is cached, and the runs that waited for it recovered.
\* _profile_mutation refuses it while the gate knows of a run of the profile.
UnlockTo(p, todo) ==
  /\ Served /\ p \in Protected
  /\ RunsOf(p) \intersect Gated = {}
  /\ keys' = keys \union {p}
  /\ \E kept \in SUBSET Unmovable(todo), lost \in SUBSET Unmovable(todo) :
       IF todo = {} THEN UNCHANGED <<writes, job>>
       ELSE Begin("unlock", p, RecoverySteps(disk, todo, kept, lost))
  /\ UNCHANGED <<disk, state, calls, deferred, made, faults>>
UnlockAll(p) == UnlockTo(p, ActiveRuns)
Unlock(p) == UnlockTo(p, deferred \intersect RunsOf(p) \intersect ActiveRuns)

\* A write of the unlock's recovery fails: the profile is locked again and its
\* runs keep waiting. The same at the start ends the process: Crash.
UnlockFails ==
  /\ job.op = "unlock" /\ writes # << >> /\ Fault
  /\ writes' = << >> /\ job' = Idle
  /\ keys' = keys \ {job.for}
  /\ UNCHANGED <<disk, state, calls, deferred, made>>

\* lock_user, and an unlock with a wrong password: a run that has been withdrawn
\* and not yet failed does not keep it away.
Lock(p) ==
  /\ Served /\ p \in keys
  /\ RunsOf(p) \intersect Gated = {}
  /\ keys' = keys \ {p}
  /\ UNCHANGED <<disk, writes, job, state, calls, deferred, made, faults>>

-----------------------------------------------------------------------------
(* Deletion. *)

\* The disk without the files of the first k runs of "order".
Emptied(d, order, k) ==
  LET gone == {order[i] : i \in 1..k}
  IN  [d EXCEPT !.artifact = [r \in Runs |-> IF r \in gone THEN NoArtifact ELSE @[r]],
                !.quarantine = @ \ gone]
Unlisted(d, S) == [d EXCEPT !.index = [r \in Runs |-> IF r \in S THEN "none" ELSE @[r]]]

\* delete_thread and delete_user: the files first, then the index.
Erasure(S) ==
  LET order == SetToSeq(S)
  IN  [k \in 1..Len(order) |-> Emptied(disk, order, k)]
        \o <<Unlisted(Emptied(disk, order, Len(order)), S)>>

\* reset_thread, reset_user: the profile is open, and the gate knows of no run of
\* it. The store finds a run by its index row.
Delete(p) ==
  /\ Served /\ Unlocked(p) /\ RunsOf(p) \intersect Gated = {}
  /\ \E r \in RunsOf(p) : disk.index[r] # "none"
  /\ Begin("delete", p, Erasure({r \in RunsOf(p) : disk.index[r] # "none"}))
  /\ UNCHANGED <<disk, memory, made, faults>>

\* reset_all: _global_mutation waits for the runs the gate knows of.
BeginReset ==
  /\ Ready /\ ~resetting /\ Gated = {} /\ made # {}
  /\ resetting' = TRUE
  /\ UNCHANGED <<disk, writes, job, state, live, withdrawn, dropped, keys, deferred, made, faults>>

Unfiled(d, r) == [d EXCEPT !.artifact[r] = NoArtifact]
Unindexed(d) ==
  [d EXCEPT !.indexed = FALSE, !.index = [r \in Runs |-> "none"], !.torn = @ \union Content(d)]

\* rmtree of the whole directory, and the loop over what it left: one file at a
\* time, in the directory's order, passing over those in use. The rmtree takes
\* no lock: in the middle of another call a deletion counts as one before or
\* after it, or its file is written again and it as good as failed.
RemoveFile ==
  /\ Ready /\ resetting
  /\ \/ \E r \in Runs : /\ disk.artifact[r].status # "none"
                        /\ disk' = Unfiled(disk, r)
     \/ \E r \in disk.quarantine : disk' = [disk EXCEPT !.quarantine = @ \ {r}]
     \/ disk.indexed /\ disk' = Unindexed(disk)
  /\ UNCHANGED <<writes, job, memory, made, faults>>

\* An empty index is written over what is left: no artifact, but perhaps a file
\* in the quarantine directory, whose deletion may fail without an error.
Cleared(d) == [Nothing EXCEPT !.quarantine = d.quarantine, !.torn = d.quarantine]

\* The rest of RunStore.reset_all, and of reset_all.
ResetStore ==
  /\ Ready /\ resetting
  /\ \A r \in Runs : disk.artifact[r].status = "none"
  /\ IF disk.quarantine = {} THEN UNCHANGED faults ELSE Fault
  /\ disk' = Cleared(disk)
  /\ resetting' = FALSE /\ keys' = {} /\ deferred' = {}
  /\ UNCHANGED <<writes, job, state, live, withdrawn, dropped, made>>

\* An artifact cannot be deleted; or none is left, and after the keys are
\* forgotten the index cannot be written or the search index not be deleted.
ResetRaises ==
  /\ Ready /\ resetting /\ Fault
  /\ resetting' = FALSE
  /\ \/ UNCHANGED <<disk, keys>>
     \/ /\ \A r \in Runs : disk.artifact[r].status = "none"
        /\ keys' = {}
        /\ disk' \in {disk, Cleared(disk)}
  /\ UNCHANGED <<writes, job, state, live, withdrawn, dropped, deferred, made>>

-----------------------------------------------------------------------------
(* The disk and the faults. *)

\* The next file is replaced; with the last one the operation returns, and an
\* unlock drops the profile's waiting runs.
Write ==
  /\ writes # << >>
  /\ disk' = Head(writes)
  /\ writes' = Tail(writes)
  /\ IF Len(writes) > 1 THEN UNCHANGED <<job, state, deferred>>
     ELSE /\ job' = Idle
          /\ state' = "up"
          /\ deferred' = IF job.op = "unlock" THEN deferred \ RunsOf(job.for) ELSE deferred
  /\ UNCHANGED <<calls, keys, made, faults>>

\* The process dies, at any point of an operation.
Crash ==
  /\ state # "down" /\ Fault
  /\ state' = "down"
  /\ writes' = << >> /\ job' = Idle
  /\ live' = {} /\ withdrawn' = {} /\ dropped' = {} /\ resetting' = FALSE
  /\ keys' = {} /\ deferred' = {}
  /\ UNCHANGED <<disk, made>>

\* An artifact is damaged while Atlas is not running.
Damage(r) ==
  /\ state = "down" /\ Fault
  /\ Readable(disk.artifact[r])
  /\ disk' = [disk EXCEPT !.artifact[r].whole = FALSE]
  /\ UNCHANGED <<writes, job, memory, made>>

Step(r) == \/ Create(r)
           \/ \E s \in {"running", "cancelling"} : Mark(r, s)
           \/ \E s \in Terminal : Finish(r, s)
           \/ Withdraw(r) \/ Drop(r)

Change(p) == Unlock(p) \/ Lock(p) \/ Delete(p)

Reset == BeginReset \/ RemoveFile \/ ResetStore \/ ResetRaises

Next ==
  \/ \E r \in Runs : Step(r) \/ Damage(r)
  \/ \E p \in Profiles : Change(p)
  \/ Start \/ Write \/ UnlockFails \/ Reset \/ Crash

\* Writes end, the service finishes the runs it holds or is refused by the store
\* (see RunControl), and Atlas is started again after a crash.
Fairness ==
  /\ WF_vars(Write) /\ WF_vars(Start)
  /\ \A r \in Runs : WF_vars(r \in live /\ (Drop(r) \/ \E s \in Terminal : Finish(r, s)))

Spec == Init /\ [][Next]_vars /\ Fairness

-----------------------------------------------------------------------------
(* Properties. *)

Artifact == {NoArtifact} \union
  [status : Active \union Terminal, ends : Seq(Terminal), whole : BOOLEAN]
DiskType(d) ==
  /\ d \in [artifact   : [Runs -> Artifact],
            index      : [Runs -> {"none"} \union Active \union Terminal],
            quarantine : SUBSET Runs,
            indexed    : BOOLEAN,
            torn       : SUBSET Runs]
  /\ \A r \in Runs : d.artifact[r].status \in Terminal <=> d.artifact[r].ends # << >>

\* Types. An artifact is marked as ended when it holds an ending, no run that
\* waits for a password is alive, and only an operation has writes to come.
TypeOK ==
  /\ DiskType(disk)
  /\ \A i \in 1..Len(writes) : DiskType(writes[i])
  /\ job.op \in {"none", "create", "mark", "finish", "recover", "unlock", "delete"}
  /\ job.op = "none" <=> writes = << >>
  /\ state \in {"down", "starting", "up"}
  /\ live \subseteq made /\ withdrawn \subseteq live /\ dropped \subseteq made \ live
  /\ resetting \in BOOLEAN
  /\ keys \subseteq Protected
  /\ deferred \subseteq Runs \ (live \union dropped)
  /\ made \subseteq Runs
  /\ faults \in 0..MaxFaults

\* An artifact never gets a second ending, whoever finishes the run and however
\* often its recovery is interrupted (_finish_run_with_event and
\* fail_incomplete_runs look for the first).
OneEnding(d) == \A r \in Runs : Len(d.artifact[r].ends) <= 1

\* At every instant, in the middle of an operation or of a recovery too, a run
\* the index calls completed or failed is one whose artifact, if it can be
\* read, says the same: the artifact is always written first.
IndexFollows(d) ==
  \A r \in Runs :
    d.index[r] \in Terminal /\ Readable(d.artifact[r]) =>
      /\ d.artifact[r].status = d.index[r]
      /\ d.artifact[r].ends = <<d.index[r]>>

\* Whatever the disk keeps of a run can be found, and so deleted, through the
\* index, unless the crash came inside its create_run: the erasure of a thread
\* or a profile that is cut short leaves rows without files, never files without
\* rows. Only a reset that fails or is cut short can do that: it may lose the
\* index before the files, or fail to delete a quarantined one.
ContentIsReachable(d) ==
  \A r \in Runs \ d.torn :
    d.index[r] = "none" =>
      /\ r \notin d.quarantine
      /\ d.artifact[r].status \in {"none", "queued"}
      /\ d.artifact[r].ends = << >>

\* The two files agree, at every instant, and together they are all there is.
DiskIsSound == TypeOK /\ OneEnding(disk) /\ IndexFollows(disk) /\ ContentIsReachable(disk)

\* The outcomes of d are in e, unless they were deleted or damaged.
Keeps(d, e) ==
  \A r \in Runs :
    /\ d.index[r] \in Terminal => e.index[r] \in {d.index[r], "none"}
    /\ Readable(d.artifact[r]) /\ d.artifact[r].ends # << >> =>
         \/ ~Readable(e.artifact[r])
         \/ e.artifact[r].ends = d.artifact[r].ends

\* An outcome on the disk is final: a crash between the two files, or a second
\* recovery, may not turn a completed run into a failed one.
OutcomeKept == [][Keeps(disk, disk')]_vars

\* A run that was dropped, and that nobody ends before the next start: its
\* profile has a password, or a reset that raised has deleted its artifact.
Left(r) == r \in dropped /\ (Owner[r] \in Protected \/ ~Readable(disk.artifact[r]))

\* Between operations, a run the index shows as queued, running or cancelling
\* is one the service holds, or one that waits for its profile's password: the
\* user sees no run that nothing will ever end. The exception is a run that was
\* withdrawn from the queue, so that the gate let its profile be locked, deleted
\* or reset before the call that was to fail it.
NoGhostRuns ==
  Ready => \A r \in ActiveRuns :
             r \in live \/ Left(r) \/ (r \in deferred /\ Owner[r] \in Protected \ keys)

\* A recovery, at the start or at an unlock in the middle of other profiles'
\* work, never touches a run that the service holds.
RecoverySparesLive ==
  job.op \in {"recover", "unlock"} =>
    \A i \in 1..Len(writes), r \in live :
      /\ writes[i].artifact[r] = disk.artifact[r]
      /\ writes[i].index[r] = disk.index[r]

\* Every unfinished run but those has one who will finish it, and only one.
RunsAreHeld == NoGhostRuns /\ RecoverySparesLive

\* A run of a profile without a password that the index shows as active ends,
\* or is deleted, whatever the number of crashes (liveness, if they stop); or a
\* failing reset deleted its file before the call that was to fail it.
EveryRunEnds ==
  \A r \in Runs :
    Owner[r] \notin Protected =>
      (disk.index[r] \in Active ~> disk.index[r] \notin Active \/ Left(r))

=============================================================================
