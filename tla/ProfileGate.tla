----------------------------- MODULE ProfileGate -----------------------------
(***************************************************************************)
(* The gate of AtlasBackendService in front of the profiles: API threads   *)
(* read a profile (list_memories, a run's event stream, ...), change it    *)
(* (create, unlock, lock, reset_thread, reset_user), reset all of them, or *)
(* start runs.  The gate is a counter of operations, a set of profiles     *)
(* being mutated and a flag, all under _control_lock; runs count through   *)
(* the profiles whose runs are queued or executing.                        *)
(*                                                                         *)
(* An action is one critical section of _control_lock, one access to       *)
(* _unlocked_users or one access to the store's index or key cache.        *)
(***************************************************************************)
EXTENDS Naturals, FiniteSets

CONSTANTS
  Profiles,    \* names of profiles
  Protected,   \* those that have a password once they exist
  Threads,     \* API threads
  NoProfile

ASSUME GateAssumption == /\ IsFiniteSet(Threads)
                         /\ Protected \subseteq Profiles
                         /\ NoProfile \notin Profiles
                         /\ Threads \intersect Profiles = {}

VARIABLES
  operations,  \* _active_profile_operations
  mutating,    \* _mutating_users
  resetting,   \* _global_mutation_active
  unlocked,    \* _unlocked_users
  keys,        \* RunStore._user_keys of protected profiles
  users,       \* the profiles in the index
  indexed,     \* the index file exists
  stranded,    \* history: marks without a key that a reset left when it raised
  busy,        \* profiles with a run in _pending_runs or a live active one
  thread       \* what each API thread is doing

gate    == <<operations, mutating, resetting>>
secrets == <<unlocked, keys, users, indexed, stranded>>
vars    == <<gate, secrets, busy, thread>>

Mutations == {"create", "unlock", "lock", "reset_thread", "delete"}

Idle == [pc |-> "ready", op |-> "none", profile |-> NoProfile]

Goes(t, pc)   == thread' = [thread EXCEPT ![t].pc = pc]
Returns(t)    == thread' = [thread EXCEPT ![t] = Idle]
At(t, pc, op) == thread[t].pc = pc /\ thread[t].op = op

\* The profile's data can be read.
Readable(p) == p \in users /\ (p \in Protected => p \in keys)

\* What _ensure_user_unlocked accepts.
Accessible(p) ==
  p \in users /\ (p \in Protected => p \in unlocked /\ p \in keys)

\* _ensure_user_unlocked raises: a protected profile loses its unlocked mark.
Refuses(p) ==
  /\ ~Accessible(p)
  /\ unlocked' = IF p \in users THEN unlocked \ {p} ELSE unlocked

Init ==
  /\ operations = [p \in Profiles |-> 0]
  /\ mutating = {}
  /\ resetting = FALSE
  /\ unlocked = {}
  /\ keys = {}
  /\ users = {}
  /\ indexed = TRUE
  /\ stranded = {}
  /\ busy = {}
  /\ thread = [t \in Threads |-> Idle]

-----------------------------------------------------------------------------
(* Faulty variants of the actions below, one slip of the code each.        *)

LeaveForAll(t) ==  \* the first operation that ends removes the counter
  /\ At(t, "inside", "read") \/ At(t, "leave", "read")
  /\ operations' = [operations EXCEPT ![thread[t].profile] = 0]
  /\ Returns(t)
  /\ UNCHANGED <<mutating, resetting, secrets, busy>>

EnterOverRuns(t, p, op) ==  \* runs do not keep mutations away
  /\ thread[t] = Idle
  /\ ~resetting
  /\ p \notin mutating
  /\ operations[p] = 0
  /\ mutating' = mutating \union {p}
  /\ thread' = [thread EXCEPT ![t] =
                  [pc |-> "begin", op |-> op, profile |-> p]]
  /\ UNCHANGED <<operations, resetting, secrets, busy>>

UnlockFailsQuietly(t) ==  \* a failed unlock leaves an older mark in place
  /\ \/ thread[t].pc = "derive_key"
     \/ At(t, "recover", "unlock")
  /\ Goes(t, "leave")
  /\ UNCHANGED <<gate, secrets, busy>>

ResetOverOperations(t) ==  \* a reset only waits for mutations and runs
  /\ thread[t] = Idle
  /\ ~resetting
  /\ mutating = {}
  /\ busy = {}
  /\ resetting' = TRUE
  /\ thread' = [thread EXCEPT ![t] =
                  [pc |-> "begin", op |-> "reset", profile |-> NoProfile]]
  /\ UNCHANGED <<operations, mutating, secrets, busy>>

-----------------------------------------------------------------------------
(* _profile_operation and what runs inside it, event streams included.     *)

EnterOperation(t, p) ==
  /\ thread[t] = Idle
  /\ ~resetting
  /\ p \notin mutating
  /\ operations' = [operations EXCEPT ![p] = @ + 1]
  /\ thread' = [thread EXCEPT ![t] =
                  [pc |-> "admit", op |-> "read", profile |-> p]]
  /\ UNCHANGED <<mutating, resetting, secrets, busy>>

Admit(t) ==
  /\ At(t, "admit", "read")
  /\ Accessible(thread[t].profile)
  /\ Goes(t, "inside")
  /\ UNCHANGED <<gate, secrets, busy>>

RefuseOperation(t) ==
  /\ At(t, "admit", "read")
  /\ Refuses(thread[t].profile)
  /\ Goes(t, "leave")
  /\ UNCHANGED <<gate, keys, users, indexed, stranded, busy>>

LeaveOperation(t) ==
  /\ At(t, "inside", "read") \/ At(t, "leave", "read")
  /\ operations' = [operations EXCEPT ![thread[t].profile] = @ - 1]
  /\ Returns(t)
  /\ UNCHANGED <<mutating, resetting, secrets, busy>>

-----------------------------------------------------------------------------
(* _profile_mutation, and the mutations.                                   *)

EnterMutation(t, p, op) ==
  /\ thread[t] = Idle
  /\ ~resetting
  /\ p \notin mutating
  /\ operations[p] = 0
  /\ p \notin busy
  /\ mutating' = mutating \union {p}
  /\ thread' = [thread EXCEPT ![t] =
                  [pc |-> "begin", op |-> op, profile |-> p]]
  /\ UNCHANGED <<operations, resetting, secrets, busy>>

LeaveMutation(t) ==
  /\ thread[t].pc = "leave" /\ thread[t].op \in Mutations
  /\ mutating' = mutating \ {thread[t].profile}
  /\ Returns(t)
  /\ UNCHANGED <<operations, resetting, secrets, busy>>

\* The mutation raises before it changes anything: the profile exists already
\* or the index is missing (create), the profile does not exist, or there is no
\* password.
MutationRaises(t) ==
  LET p == thread[t].profile IN
  /\ \/ At(t, "begin", "create") /\ (indexed => p \in users)
     \/ At(t, "begin", "unlock") /\ (p \in users => p \in Protected)
     \/ At(t, "begin", "lock") /\ p \notin users
  /\ Goes(t, "leave")
  /\ UNCHANGED <<gate, secrets, busy>>

CreateUser(t) ==
  LET p == thread[t].profile IN
  /\ At(t, "begin", "create")
  /\ indexed /\ p \notin users
  /\ users' = users \union {p}
  /\ Goes(t, IF p \in Protected THEN "drop_key" ELSE "leave")
  /\ UNCHANGED <<gate, unlocked, keys, indexed, stranded, busy>>

BeginUnlock(t) ==
  LET p == thread[t].profile IN
  /\ At(t, "begin", "unlock")
  /\ p \in users
  /\ Goes(t, IF p \in Protected THEN "drop_key" ELSE "leave")
  /\ UNCHANGED <<gate, secrets, busy>>

\* unlock_user_key forgets the old key before it looks at the password.
DropKey(t) ==
  /\ thread[t].pc = "drop_key"
  /\ keys' = keys \ {thread[t].profile}
  /\ Goes(t, "derive_key")
  /\ UNCHANGED <<gate, unlocked, users, indexed, stranded, busy>>

StoreKey(t) ==
  /\ thread[t].pc = "derive_key"
  /\ keys' = keys \union {thread[t].profile}
  /\ Goes(t, "recover")
  /\ UNCHANGED <<gate, unlocked, users, indexed, stranded, busy>>

\* The password is wrong, or the recovery of interrupted runs raises.
UnlockFails(t) ==
  /\ \/ thread[t].pc = "derive_key"
     \/ At(t, "recover", "unlock")
  /\ Goes(t, IF thread[t].op = "unlock" THEN "revoke" ELSE "leave")
  /\ UNCHANGED <<gate, secrets, busy>>

GrantUnlock(t) ==
  /\ thread[t].pc = "recover"
  /\ unlocked' = unlocked \union {thread[t].profile}
  /\ stranded' = stranded \ {thread[t].profile}
  /\ Goes(t, "leave")
  /\ UNCHANGED <<gate, keys, users, indexed, busy>>

BeginLock(t) ==
  /\ At(t, "begin", "lock")
  /\ thread[t].profile \in users
  /\ Goes(t, "revoke")
  /\ UNCHANGED <<gate, secrets, busy>>

\* Discard the mark, then the key: lock_user, a failed unlock, and the finally
\* clause of reset_user.
Revoke(t) ==
  /\ thread[t].pc = "revoke"
  /\ unlocked' = unlocked \ {thread[t].profile}
  /\ Goes(t, "forget_key")
  /\ UNCHANGED <<gate, keys, users, indexed, stranded, busy>>

ForgetKey(t) ==
  /\ thread[t].pc = "forget_key"
  /\ keys' = keys \ {thread[t].profile}
  /\ Goes(t, "leave")
  /\ UNCHANGED <<gate, unlocked, users, indexed, stranded, busy>>

BeginErase(t) ==
  /\ At(t, "begin", "reset_thread") \/ At(t, "begin", "delete")
  /\ Accessible(thread[t].profile)
  /\ Goes(t, "inside")
  /\ UNCHANGED <<gate, secrets, busy>>

\* The check is before the try of reset_user.
RefuseErase(t) ==
  /\ At(t, "begin", "reset_thread") \/ At(t, "begin", "delete")
  /\ Refuses(thread[t].profile)
  /\ Goes(t, "leave")
  /\ UNCHANGED <<gate, keys, users, indexed, stranded, busy>>

\* The thread's data are gone, or deleting the profile's data raised.
EraseEnds(t) ==
  /\ thread[t].pc = "inside" /\ thread[t].op \in Mutations
  /\ Goes(t, IF thread[t].op = "delete" THEN "revoke" ELSE "leave")
  /\ UNCHANGED <<gate, secrets, busy>>

\* The key goes first; the index may fail to be written after it.
DeleteUser(t) ==
  LET p == thread[t].profile IN
  /\ At(t, "inside", "delete")
  /\ keys' = keys \ {p}
  /\ users' = users \ {p} \/ UNCHANGED users
  /\ Goes(t, "revoke")
  /\ UNCHANGED <<gate, unlocked, indexed, stranded, busy>>

-----------------------------------------------------------------------------
(* _global_mutation and reset_all.                                         *)

EnterReset(t) ==
  /\ thread[t] = Idle
  /\ ~resetting
  /\ mutating = {}
  /\ \A p \in Profiles : operations[p] = 0
  /\ busy = {}
  /\ resetting' = TRUE
  /\ thread' = [thread EXCEPT ![t] =
                  [pc |-> "begin", op |-> "reset", profile |-> NoProfile]]
  /\ UNCHANGED <<operations, mutating, secrets, busy>>

\* rmtree of the whole directory passes over what it cannot delete: the index
\* goes with the rest, or is in use and stays.
RemoveFiles(t) ==
  /\ At(t, "begin", "reset")
  /\ \/ users' = {} /\ indexed' = FALSE
     \/ UNCHANGED <<users, indexed>>
  /\ Goes(t, "wipe")
  /\ UNCHANGED <<gate, unlocked, keys, stranded, busy>>

\* RunStore.reset_all deletes what is left but the index, then forgets the keys.
DiscardKeys(t) ==
  /\ At(t, "wipe", "reset")
  /\ keys' = {}
  /\ Goes(t, "unindexed")
  /\ UNCHANGED <<gate, unlocked, users, indexed, stranded, busy>>

WriteIndex(t) ==
  /\ At(t, "unindexed", "reset")
  /\ users' = {} /\ indexed' = TRUE
  /\ Goes(t, "revoke_all")
  /\ UNCHANGED <<gate, unlocked, keys, stranded, busy>>

RevokeAll(t) ==
  /\ thread[t].pc = "revoke_all"
  /\ unlocked' = {} /\ stranded' = {}
  /\ Goes(t, "leave")
  /\ UNCHANGED <<gate, keys, users, indexed, busy>>

\* Emptying the databases, making the directory, deleting a file, writing the
\* index or deleting the search index raises: the marks stay.
ResetRaises(t) ==
  /\ thread[t].op = "reset" /\ thread[t].pc \in {"begin", "wipe", "unindexed", "revoke_all"}
  /\ stranded' = {p \in Protected \intersect unlocked : ~Readable(p)}
  /\ Goes(t, "leave")
  /\ UNCHANGED <<gate, unlocked, keys, users, indexed, busy>>

LeaveReset(t) ==
  /\ At(t, "leave", "reset")
  /\ resetting' = FALSE
  /\ Returns(t)
  /\ UNCHANGED <<operations, mutating, secrets, busy>>

-----------------------------------------------------------------------------
(* start_chat, start_manual_compact: the first check of the profile is     *)
(* outside the gate, the second one shares the enqueue's critical section. *)

CheckStart(t, p) ==
  /\ thread[t] = Idle
  /\ p \in users
  /\ thread' = [thread EXCEPT ![t] =
                  [pc |-> IF Accessible(p) THEN "preflight" ELSE "discard",
                   op |-> "start", profile |-> p]]
  /\ UNCHANGED <<gate, secrets, busy>>

DiscardMark(t) ==
  /\ At(t, "discard", "start")
  /\ unlocked' = unlocked \ {thread[t].profile}
  /\ Returns(t)
  /\ UNCHANGED <<gate, keys, users, indexed, stranded, busy>>

Blocked(p) == resetting \/ p \in mutating

\* The gate lets the run of this request into the queue.
Accept(t) ==
  LET p == thread[t].profile IN
  /\ At(t, "preflight", "start")
  /\ ~Blocked(p)
  /\ Accessible(p)
  /\ Returns(t)
  /\ UNCHANGED <<gate, secrets>>

Enqueue(t) == /\ Accept(t)
              /\ busy' = busy \union {thread[t].profile}

\* The profile is blocked or shut by now, or the preflight raises.
RefuseStart(t) ==
  LET p == thread[t].profile IN
  /\ At(t, "preflight", "start")
  /\ \/ ~Blocked(p) /\ Refuses(p)
     \/ UNCHANGED unlocked
  /\ Returns(t)
  /\ UNCHANGED <<gate, keys, users, indexed, stranded, busy>>

\* Runs end, or leave the queue unexecuted.
RunsEnd ==
  /\ \E ended \in SUBSET busy : busy' = busy \ ended
  /\ UNCHANGED <<gate, secrets, thread>>

-----------------------------------------------------------------------------
Operating(t) == \/ \E p \in Profiles : EnterOperation(t, p)
                \/ Admit(t)
                \/ RefuseOperation(t)
                \/ LeaveOperation(t)

Unlocking(t) == \/ BeginUnlock(t)
                \/ DropKey(t)
                \/ StoreKey(t)
                \/ UnlockFails(t)
                \/ GrantUnlock(t)

Erasing(t) == \/ BeginErase(t)
              \/ RefuseErase(t)
              \/ EraseEnds(t)
              \/ DeleteUser(t)

Mutating(t) == \/ \E p \in Profiles, op \in Mutations : EnterMutation(t, p, op)
               \/ MutationRaises(t)
               \/ CreateUser(t)
               \/ Unlocking(t)
               \/ BeginLock(t)
               \/ Revoke(t)
               \/ ForgetKey(t)
               \/ Erasing(t)
               \/ LeaveMutation(t)

Resetting(t) == \/ EnterReset(t)
                \/ RemoveFiles(t)
                \/ DiscardKeys(t)
                \/ WriteIndex(t)
                \/ RevokeAll(t)
                \/ ResetRaises(t)
                \/ LeaveReset(t)

Starting(t) == \/ \E p \in Profiles : CheckStart(t, p)
               \/ DiscardMark(t)
               \/ Enqueue(t)
               \/ RefuseStart(t)

Next == \/ \E t \in Threads : \/ Operating(t)
                              \/ Mutating(t)
                              \/ Resetting(t)
                              \/ Starting(t)
        \/ RunsEnd

Spec == Init /\ [][Next]_vars

-----------------------------------------------------------------------------
(* Properties                                                              *)

Ops == Mutations \union {"none", "read", "reset", "start"}
Pcs == {"ready", "admit", "inside", "leave", "begin", "drop_key", "derive_key",
        "recover", "revoke", "forget_key", "wipe", "unindexed", "revoke_all",
        "preflight", "discard"}

\* Every variable has its type; the gate's counters never go negative.
TypeOK ==
  /\ operations \in [Profiles -> Nat]
  /\ mutating \subseteq Profiles
  /\ resetting \in BOOLEAN
  /\ unlocked \subseteq Profiles
  /\ keys \subseteq Profiles
  /\ users \subseteq Profiles
  /\ indexed \in BOOLEAN
  /\ stranded \subseteq Profiles
  /\ busy \subseteq Profiles
  /\ thread \in [Threads -> [pc : Pcs, op : Ops,
                             profile : Profiles \union {NoProfile}]]

OperatingOn(p) == {t \in Threads : thread[t].op = "read" /\ thread[t].profile = p}
MutatingOn(p)  == {t \in Threads : thread[t].op \in Mutations
                                   /\ thread[t].profile = p}
Resets         == {t \in Threads : thread[t].op = "reset"}

\* The counters and flags are exactly the threads inside: none leaks when an
\* operation is refused or a mutation raises, none is released twice.
GateIsExact ==
  /\ \A p \in Profiles : operations[p] = Cardinality(OperatingOn(p))
  /\ \A p \in Profiles : p \in mutating <=> MutatingOn(p) # {}
  /\ resetting <=> Resets # {}

\* Whoever works on a profile's data (an admitted operation, an erasing
\* mutation, a queued or executing run) finds it existing and its key cached,
\* for as long as it takes: no lock, delete or reset overtakes it.
WorkIsReadable ==
  /\ \A t \in Threads : thread[t].pc = "inside" => Readable(thread[t].profile)
  /\ \A p \in busy : Readable(p)

\* Outside of a mutation or a reset, a profile marked as unlocked has its key,
\* whatever mutation failed or was refused, with one exception: a reset that
\* raises forgets the keys and leaves the marks. Such a mark opens nothing until
\* the password is given again, not even once a profile of that name is created.
MarkedHasKey ==
  \A p \in Protected :
    ~Blocked(p) /\ p \in unlocked => (Readable(p) <=> p \notin stranded)

\* Seen through who holds what, the gate is a ProfileLock.
Grant(mode, scope) == [mode |-> mode, scope |-> scope]

Holds(t) ==
  IF thread[t].op = "read" THEN Grant("shared", {thread[t].profile})
  ELSE IF thread[t].op \in Mutations THEN Grant("alone", {thread[t].profile})
  ELSE IF thread[t].op = "reset" THEN Grant("alone", Profiles)
  ELSE Grant("shared", {})

Holding == [h \in Threads \union Profiles |->
              IF h \in Profiles THEN Grant("shared", {h} \intersect busy)
                                ELSE Holds(h)]

Lock == INSTANCE ProfileLock
          WITH held <- Holding, Holders <- Threads \union Profiles

\* Operations and runs share a profile, a mutation has it alone and a reset
\* has all of them alone.
IsLock == Lock!Spec

-----------------------------------------------------------------------------
(* The inductive invariant behind the properties above.                    *)

\* Where an operation, a mutation, a reset or a start can be.
Fits(call) ==
  /\ call.op = "none" => call = Idle
  /\ call.op = "read" => call.pc \in {"admit", "inside", "leave"}
  /\ call.op \in Mutations =>
       call.pc \in {"begin", "drop_key", "derive_key", "recover", "revoke",
                   "forget_key", "inside", "leave"}
  /\ call.op = "reset" => call.pc \in {"begin", "wipe", "unindexed", "revoke_all", "leave"}
  /\ call.op = "start" => call.pc \in {"preflight", "discard"}
  /\ call.op \in Mutations \union {"read", "start"} => call.profile \in Profiles
  /\ call.pc \in {"drop_key", "derive_key", "recover"} => call.op \in {"create", "unlock"}
  /\ call.pc \in {"drop_key", "derive_key", "recover"} => call.profile \in Protected

PcsFit == \A t \in Threads : Fits(thread[t])

\* Who is inside is alone, as the guards of the entries and of the enqueue say.
GateExcludes ==
  /\ \A t, u \in Threads :
       t # u /\ thread[t].op \in Mutations =>
         /\ thread[u].op # "reset"
         /\ thread[u].op \in Mutations \union {"read"} =>
              thread[u].profile # thread[t].profile
  /\ \A t \in Threads : thread[t].op \in Mutations => thread[t].profile \notin busy
  /\ \A t, u \in Threads : t # u /\ thread[t].op = "reset" =>
       thread[u].op \notin Mutations \union {"read", "reset"}
  /\ Resets # {} => busy = {}

\* The mark of p stands for a key, or a reset has left it behind.
Backed(p) == p \in unlocked => (Readable(p) <=> p \notin stranded)

\* A mark follows its key through the steps of a mutation or a reset.
FollowsKey(t) ==
  LET p == thread[t].profile  pc == thread[t].pc  op == thread[t].op IN
  /\ pc \in {"begin", "inside", "leave"} /\ op \in Mutations =>
       (p \in Protected => Backed(p))
  /\ pc \in {"drop_key", "derive_key", "recover"} => p \in users
  /\ pc = "derive_key" => p \notin keys
  /\ pc = "recover" => p \in keys
  /\ pc \in {"drop_key", "derive_key"} /\ op = "create" =>
       (p \in unlocked => p \in stranded)
  /\ pc = "forget_key" => p \notin unlocked
  /\ pc \in {"begin", "leave"} /\ op = "reset" => \A q \in Protected : Backed(q)

MarkFollowsKey == \A t \in Threads : FollowsKey(t)

Inductive == /\ TypeOK
             /\ GateIsExact
             /\ PcsFit
             /\ GateExcludes
             /\ WorkIsReadable
             /\ MarkFollowsKey
             /\ MarkedHasKey

=============================================================================
