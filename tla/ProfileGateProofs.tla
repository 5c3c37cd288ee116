-------------------------- MODULE ProfileGateProofs --------------------------
(***************************************************************************)
(* Proofs, for any number of profiles and threads, that the gate's         *)
(* counters are exact, that nobody's data or key go away while they are    *)
(* used, and that the gate implements ProfileLock.                         *)
(***************************************************************************)
EXTENDS ProfileGate, FiniteSetTheorems, TLAPS

(* What the gate's counters and flags say of the threads.                  *)

Reads(t, p)   == thread[t].op = "read" /\ thread[t].profile = p
Mutates(t, p) == thread[t].op \in Mutations /\ thread[t].profile = p

\* A count of zero means that nobody operates on the profile.
LEMMA GateMeaning ==
  ASSUME TypeOK, GateIsExact
  PROVE  /\ \A p \in Profiles :
              operations[p] = 0 <=> \A t \in Threads : ~Reads(t, p)
         /\ \A p \in Profiles : p \in mutating <=> \E t \in Threads : Mutates(t, p)
         /\ resetting <=> \E t \in Threads : thread[t].op = "reset"
<1>1. ASSUME NEW p \in Profiles
      PROVE  operations[p] = 0 <=> \A t \in Threads : ~Reads(t, p)
  <2>1. IsFiniteSet(OperatingOn(p))
    BY GateAssumption, FS_Subset DEF OperatingOn
  <2>2. Cardinality(OperatingOn(p)) = 0 <=> OperatingOn(p) = {}
    BY <2>1, FS_EmptySet
  <2> QED BY <2>2 DEF GateIsExact, OperatingOn, Reads
<1> QED BY <1>1 DEF GateIsExact, MutatingOn, Resets, Mutates

\* Two threads never count twice: the set of a profile's operations changes by
\* one thread at most.
LEMMA OneMore ==
  ASSUME NEW p \in Profiles, NEW t \in Threads, GateIsExact, t \notin OperatingOn(p)
  PROVE  Cardinality(OperatingOn(p) \union {t}) = operations[p] + 1
<1>1. IsFiniteSet(OperatingOn(p))
  BY GateAssumption, FS_Subset DEF OperatingOn
<1> QED BY <1>1, FS_AddElement DEF GateIsExact

\* It loses one thread at most.
LEMMA OneLess ==
  ASSUME NEW p \in Profiles, NEW t \in Threads, GateIsExact, t \in OperatingOn(p)
  PROVE  Cardinality(OperatingOn(p) \ {t}) = operations[p] - 1
<1>1. IsFiniteSet(OperatingOn(p))
  BY GateAssumption, FS_Subset DEF OperatingOn
<1> QED BY <1>1, FS_RemoveElement DEF GateIsExact

-----------------------------------------------------------------------------
(* How the threads move.                                                   *)

\* The actions inside an operation, a mutation or a reset.
Walk(t) == \/ Admit(t)
           \/ RefuseOperation(t)
           \/ MutationRaises(t)
           \/ CreateUser(t)
           \/ Unlocking(t)
           \/ BeginLock(t)
           \/ Revoke(t)
           \/ ForgetKey(t)
           \/ Erasing(t)
           \/ RemoveFiles(t)
           \/ DiscardKeys(t)
           \/ WriteIndex(t)
           \/ RevokeAll(t)
           \/ ResetRaises(t)

\* Those that enter or leave the gate, or that start runs.
Pass(t) == \/ \E p \in Profiles : EnterOperation(t, p)
           \/ LeaveOperation(t)
           \/ \E p \in Profiles, op \in Mutations : EnterMutation(t, p, op)
           \/ LeaveMutation(t)
           \/ EnterReset(t)
           \/ LeaveReset(t)
           \/ Starting(t)

\* Every step is of one of these two kinds, or ends runs.
LEMMA NextSplits ==
  ASSUME Next
  PROVE  (\E t \in Threads : Walk(t) \/ Pass(t)) \/ RunsEnd
BY DEF Next, Walk, Pass, Operating, Mutating, Resetting

\* Inside, a thread only changes its place: who holds what stays.
LEMMA WalkKeeps ==
  ASSUME TypeOK, NEW t \in Threads, Walk(t)
  PROVE  /\ UNCHANGED <<gate, busy>>
         /\ \E pc \in Pcs : thread' = [thread EXCEPT ![t].pc = pc]
         /\ \A u \in Threads : /\ thread'[u].op = thread[u].op
                                /\ thread'[u].profile = thread[u].profile
         /\ \A u \in Threads \ {t} : thread'[u] = thread[u]
<1>1. UNCHANGED <<gate, busy>>
  BY DEF Walk, Admit, RefuseOperation, MutationRaises, CreateUser, Unlocking,
         BeginUnlock, DropKey, StoreKey, UnlockFails, GrantUnlock, BeginLock,
         Revoke, ForgetKey, Erasing, BeginErase, RefuseErase, EraseEnds,
         DeleteUser, RemoveFiles, DiscardKeys, WriteIndex, RevokeAll, ResetRaises, gate, secrets
<1>2. \E pc \in Pcs : thread' = [thread EXCEPT ![t].pc = pc]
  BY DEF Walk, Admit, RefuseOperation, MutationRaises, CreateUser, Unlocking,
         BeginUnlock, DropKey, StoreKey, UnlockFails, GrantUnlock, BeginLock,
         Revoke, ForgetKey, Erasing, BeginErase, RefuseErase, EraseEnds,
         DeleteUser, RemoveFiles, DiscardKeys, WriteIndex, RevokeAll, ResetRaises, Goes, Pcs
<1> QED BY <1>1, <1>2, ZenonT(60) DEF TypeOK

\* An entering or leaving thread changes none of the others.
LEMMA PassKeeps ==
  ASSUME TypeOK, NEW t \in Threads, Pass(t)
  PROVE  /\ UNCHANGED <<keys, users, indexed, stranded>>
         /\ unlocked' \subseteq unlocked
         /\ \A u \in Threads \ {t} : thread'[u] = thread[u]
BY DEF Pass, EnterOperation, LeaveOperation, EnterMutation, LeaveMutation,
       EnterReset, LeaveReset, Starting, CheckStart, DiscardMark, Enqueue, Accept,
       RefuseStart, Refuses, Returns, secrets, TypeOK

-----------------------------------------------------------------------------
(* One lemma per conjunct of Inductive.                                    *)

\* A thread that leaves an operation was counted.
LEMMA CountIsPositive ==
  ASSUME TypeOK, GateIsExact, NEW t \in Threads, thread[t].op = "read",
         thread[t].profile \in Profiles
  PROVE  operations[thread[t].profile] \in Nat \ {0}
BY GateMeaning DEF TypeOK, Reads

\* An API thread without a call has the type of a thread.
LEMMA IdleType ==
  Idle \in [pc : Pcs, op : Ops, profile : Profiles \union {NoProfile}]
BY DEF Idle, Pcs, Ops

\* No step breaks a type; a count is positive before it is decremented.
LEMMA TypeStep ==
  ASSUME Inductive, [Next]_vars
  PROVE  TypeOK'
<1> USE DEF Inductive
<1>1. ASSUME NEW t \in Threads, Walk(t) PROVE TypeOK'
  <2>1. thread' \in [Threads -> [pc : Pcs, op : Ops,
                                profile : Profiles \union {NoProfile}]]
    BY <1>1, WalkKeeps DEF TypeOK
  <2>2. /\ unlocked' \subseteq Profiles /\ keys' \subseteq Profiles /\ users' \subseteq Profiles
        /\ indexed' \in BOOLEAN /\ stranded' \subseteq Profiles
    BY <1>1 DEF TypeOK, PcsFit, Fits, Walk, Admit, RefuseOperation, MutationRaises, CreateUser,
         Unlocking, BeginUnlock, DropKey, StoreKey, UnlockFails, GrantUnlock,
         BeginLock, Revoke, ForgetKey, Erasing, BeginErase, RefuseErase, EraseEnds,
         DeleteUser, RemoveFiles, DiscardKeys, WriteIndex, RevokeAll, ResetRaises, Refuses,
         At, Mutations, secrets
  <2> QED BY <1>1, <2>1, <2>2, WalkKeeps DEF TypeOK, gate
<1>2. ASSUME NEW t \in Threads, Pass(t) PROVE TypeOK'
  <2>1. CASE LeaveOperation(t)
    <3>1. thread[t].profile \in Profiles /\ thread[t].op = "read"
      BY <2>1 DEF LeaveOperation, At, PcsFit, Fits
    <3>2. operations[thread[t].profile] - 1 \in Nat
      BY <3>1, CountIsPositive
    <3>3. operations' \in [Profiles -> Nat]
      BY <2>1, <3>1, <3>2 DEF LeaveOperation, TypeOK
    <3> QED BY <2>1, <3>3, IdleType DEF LeaveOperation, TypeOK, Returns, secrets
  <2>2. ASSUME NEW p \in Profiles, CheckStart(t, p) PROVE TypeOK'
    BY <2>2 DEF CheckStart, TypeOK, Pcs, Ops, gate, secrets
  <2>3. CASE DiscardMark(t)
    BY <2>3, IdleType DEF DiscardMark, TypeOK, Returns, gate
  <2>4. CASE Enqueue(t)
    <3>1. thread[t].profile \in Profiles
      BY <2>4 DEF Enqueue, Accept, At, PcsFit, Fits, Mutations
    <3> QED BY <2>4, <3>1, IdleType DEF Enqueue, Accept, TypeOK, Returns, gate, secrets
  <2>5. CASE RefuseStart(t)
    BY <2>5, IdleType DEF RefuseStart, Refuses, TypeOK, Returns, gate
  <2>6. ASSUME NEW p \in Profiles, EnterOperation(t, p) PROVE TypeOK'
    <3>1. [pc |-> "admit", op |-> "read", profile |-> p]
            \in [pc : Pcs, op : Ops, profile : Profiles \union {NoProfile}]
      BY DEF Pcs, Ops
    <3>2. operations' \in [Profiles -> Nat]
      BY <2>6 DEF EnterOperation, TypeOK
    <3> QED BY <2>6, <3>1, <3>2 DEF EnterOperation, TypeOK, secrets
  <2>7. ASSUME NEW p \in Profiles, NEW op \in Mutations, EnterMutation(t, p, op)
        PROVE  TypeOK'
    <3>1. [pc |-> "begin", op |-> op, profile |-> p]
            \in [pc : Pcs, op : Ops, profile : Profiles \union {NoProfile}]
      BY DEF Pcs, Ops
    <3> QED BY <2>7, <3>1 DEF EnterMutation, TypeOK, secrets
  <2>8. CASE LeaveMutation(t) \/ LeaveReset(t)
    BY <2>8, IdleType DEF LeaveMutation, LeaveReset, TypeOK, Returns, secrets
  <2>9. CASE EnterReset(t)
    BY <2>9 DEF EnterReset, TypeOK, Pcs, Ops, secrets
  <2> QED BY <1>2, <2>1, <2>2, <2>3, <2>4, <2>5, <2>6, <2>7, <2>8, <2>9
          DEF Pass, Starting
<1>3. CASE RunsEnd
  BY <1>3 DEF RunsEnd, TypeOK, gate, secrets
<1>4. CASE UNCHANGED vars
  BY <1>4 DEF vars, gate, secrets, TypeOK
<1> QED BY <1>1, <1>2, <1>3, <1>4, NextSplits

\* Nobody's operation and profile changes: the gate stays exact.
LEMMA SameHolders ==
  ASSUME TypeOK, GateIsExact, UNCHANGED gate,
         \A u \in Threads : /\ thread'[u].op \in Mutations \union {"read", "reset"}
                              <=> thread[u].op \in Mutations \union {"read", "reset"}
                            /\ thread[u].op \in Mutations \union {"read", "reset"} =>
                                 /\ thread'[u].op = thread[u].op
                                 /\ thread'[u].profile = thread[u].profile
  PROVE  GateIsExact'
<1>1. \A p \in Profiles : OperatingOn(p)' = OperatingOn(p)
  BY DEF OperatingOn, Mutations
<1>2. \A p \in Profiles : MutatingOn(p)' = MutatingOn(p)
  BY DEF MutatingOn, Mutations
<1>3. Resets' = Resets
  BY DEF Resets, Mutations
<1> QED BY <1>1, <1>2, <1>3 DEF GateIsExact, gate

\* One thread moves, and is no operation before or after; likewise for
\* mutations and resets.
LEMMA KeepsOperations ==
  ASSUME NEW t \in Threads, \A u \in Threads \ {t} : thread'[u] = thread[u],
         thread[t].op # "read", thread'[t].op # "read"
  PROVE  \A q \in Profiles : OperatingOn(q)' = OperatingOn(q)
BY DEF OperatingOn

\* Nor does one that is no mutation.
LEMMA KeepsMutations ==
  ASSUME NEW t \in Threads, \A u \in Threads \ {t} : thread'[u] = thread[u],
         thread[t].op \notin Mutations, thread'[t].op \notin Mutations
  PROVE  \A q \in Profiles : MutatingOn(q)' = MutatingOn(q)
BY DEF MutatingOn

\* Nor does one that is no reset.
LEMMA KeepsResets ==
  ASSUME NEW t \in Threads, \A u \in Threads \ {t} : thread'[u] = thread[u],
         thread[t].op # "reset", thread'[t].op # "reset"
  PROVE  Resets' = Resets
BY DEF Resets

\* Counters and flags move with the threads they count.
LEMMA ExactStep ==
  ASSUME Inductive, [Next]_vars
  PROVE  GateIsExact'
<1> USE DEF Inductive
<1>1. ASSUME NEW t \in Threads, Walk(t) PROVE GateIsExact'
  BY <1>1, WalkKeeps, SameHolders
<1>2. ASSUME NEW t \in Threads, Pass(t) PROVE GateIsExact'
  <2>0. \A u \in Threads \ {t} : thread'[u] = thread[u]
    BY <1>2, PassKeeps
  <2>1. CASE Starting(t)
    <3>1. UNCHANGED gate
      BY <2>1 DEF Starting, CheckStart, DiscardMark, Enqueue, Accept, RefuseStart, gate
    <3>2. thread[t].op \in {"none", "start"} /\ thread'[t].op \in {"none", "start"}
      <4>1. ASSUME NEW p \in Profiles, CheckStart(t, p)
            PROVE  thread[t].op = "none" /\ thread'[t].op = "start"
        BY <4>1 DEF CheckStart, Idle, TypeOK
      <4>2. CASE DiscardMark(t) \/ Enqueue(t) \/ RefuseStart(t)
        BY <4>2 DEF DiscardMark, Enqueue, Accept, RefuseStart, At, Returns, Idle, TypeOK
      <4> QED BY <2>1, <4>1, <4>2 DEF Starting
    <3> QED BY <3>1, <3>2, <2>0, SameHolders DEF Mutations
  <2>2. ASSUME NEW p \in Profiles, EnterOperation(t, p) PROVE GateIsExact'
    <3>1. /\ thread[t].op = "none"
          /\ thread'[t].op = "read" /\ thread'[t].profile = p
      BY <2>2 DEF EnterOperation, TypeOK, Idle
    <3>2. /\ OperatingOn(p)' = OperatingOn(p) \union {t} /\ t \notin OperatingOn(p)
          /\ \A q \in Profiles \ {p} : OperatingOn(q)' = OperatingOn(q)
      BY <3>1, <2>0 DEF OperatingOn
    <3>3. Resets' = Resets /\ \A q \in Profiles : MutatingOn(q)' = MutatingOn(q)
      BY <3>1, <2>0, KeepsMutations, KeepsResets DEF Mutations
    <3>4. Cardinality(OperatingOn(p) \union {t}) = operations[p] + 1
      BY <3>2, OneMore
    <3> QED BY <2>2, <3>2, <3>3, <3>4 DEF EnterOperation, GateIsExact, TypeOK
  <2>3. CASE LeaveOperation(t)
    <3>1. PICK p \in Profiles : p = thread[t].profile
      BY <2>3 DEF LeaveOperation, At, PcsFit, Fits
    <3>2. thread[t].op = "read" /\ thread'[t].op = "none"
      BY <2>3 DEF LeaveOperation, At, Returns, Idle, TypeOK
    <3>3. /\ OperatingOn(p)' = OperatingOn(p) \ {t} /\ t \in OperatingOn(p)
          /\ \A q \in Profiles \ {p} : OperatingOn(q)' = OperatingOn(q)
      BY <3>1, <3>2, <2>0 DEF OperatingOn
    <3>4. Resets' = Resets /\ \A q \in Profiles : MutatingOn(q)' = MutatingOn(q)
      BY <3>2, <2>0, KeepsMutations, KeepsResets DEF Mutations
    <3>5. Cardinality(OperatingOn(p) \ {t}) = operations[p] - 1
      BY <3>3, OneLess
    <3> QED BY <2>3, <3>1, <3>3, <3>4, <3>5 DEF LeaveOperation, GateIsExact, TypeOK
  <2>4. ASSUME NEW p \in Profiles, NEW op \in Mutations, EnterMutation(t, p, op)
        PROVE  GateIsExact'
    <3>1. /\ thread[t].op = "none"
          /\ thread'[t].op = op /\ thread'[t].profile = p
      BY <2>4 DEF EnterMutation, TypeOK, Idle
    <3>2. /\ MutatingOn(p)' = MutatingOn(p) \union {t}
          /\ \A q \in Profiles \ {p} : MutatingOn(q)' = MutatingOn(q)
      BY <3>1, <2>0 DEF MutatingOn, Mutations
    <3>3. Resets' = Resets /\ \A q \in Profiles : OperatingOn(q)' = OperatingOn(q)
      BY <3>1, <2>0, KeepsOperations, KeepsResets DEF Mutations
    <3> QED BY <2>4, <3>2, <3>3 DEF EnterMutation, GateIsExact
  <2>5. CASE LeaveMutation(t)
    <3>1. PICK p \in Profiles : p = thread[t].profile
      BY <2>5 DEF LeaveMutation, PcsFit, Fits
    <3>2. thread[t].op \in Mutations /\ thread'[t].op = "none"
      BY <2>5 DEF LeaveMutation, Returns, Idle, TypeOK
    <3>3. MutatingOn(p) = {t}
      BY <3>1, <3>2 DEF MutatingOn, GateExcludes
    <3>4. /\ MutatingOn(p)' = {}
          /\ \A q \in Profiles \ {p} : MutatingOn(q)' = MutatingOn(q)
      BY <3>1, <3>2, <3>3, <2>0 DEF MutatingOn, Mutations
    <3>5. Resets' = Resets /\ \A q \in Profiles : OperatingOn(q)' = OperatingOn(q)
      BY <3>2, <2>0, KeepsOperations, KeepsResets DEF Mutations
    <3> QED BY <2>5, <3>1, <3>4, <3>5 DEF LeaveMutation, GateIsExact
  <2>6. CASE EnterReset(t)
    <3>1. thread[t].op = "none" /\ thread'[t].op = "reset"
      BY <2>6 DEF EnterReset, TypeOK, Idle
    <3>2. Resets' # {}
      BY <3>1, <2>0 DEF Resets
    <3>3. \A q \in Profiles : OperatingOn(q)' = OperatingOn(q) /\ MutatingOn(q)' = MutatingOn(q)
      BY <3>1, <2>0, KeepsOperations, KeepsMutations DEF Mutations
    <3> QED BY <2>6, <3>2, <3>3 DEF EnterReset, GateIsExact
  <2>7. CASE LeaveReset(t)
    <3>1. thread[t].op = "reset" /\ thread'[t].op = "none"
      BY <2>7 DEF LeaveReset, At, Returns, Idle, TypeOK
    <3>2. Resets = {t}
      BY <3>1 DEF Resets, GateExcludes
    <3>3. Resets' = {}
      BY <3>1, <3>2, <2>0 DEF Resets
    <3>4. \A q \in Profiles : OperatingOn(q)' = OperatingOn(q) /\ MutatingOn(q)' = MutatingOn(q)
      BY <3>1, <2>0, KeepsOperations, KeepsMutations DEF Mutations
    <3> QED BY <2>7, <3>3, <3>4 DEF LeaveReset, GateIsExact
  <2> QED BY <1>2, <2>1, <2>2, <2>3, <2>4, <2>5, <2>6, <2>7 DEF Pass
<1>3. CASE RunsEnd
  BY <1>3, SameHolders DEF RunsEnd
<1>4. CASE UNCHANGED vars
  BY <1>4, SameHolders DEF vars
<1> QED BY <1>1, <1>2, <1>3, <1>4, NextSplits

\* Where a thread inside the gate may go next, by the operation it does.
Ahead(call, pc) ==
  \/ call.op = "read" /\ pc \in {"inside", "leave"}
  \/ call.op \in Mutations /\ pc \in {"revoke", "forget_key", "inside", "leave"}
  \/ /\ call.op \in {"create", "unlock"} /\ call.profile \in Protected
     /\ pc \in {"drop_key", "derive_key", "recover"}
  \/ call.op = "reset" /\ pc \in {"wipe", "unindexed", "revoke_all", "leave"}

\* Such a move stays within what the operation may do.
LEMMA AheadFits ==
  ASSUME NEW call \in [pc : Pcs, op : Ops, profile : Profiles \union {NoProfile}],
         NEW pc, Fits(call), Ahead(call, pc)
  PROVE  Fits([call EXCEPT !.pc = pc])
<1> DEFINE next == [call EXCEPT !.pc = pc]
<1>1. next.pc = pc /\ next.op = call.op /\ next.profile = call.profile
  OBVIOUS
<1>2. call.op \in Mutations \union {"read", "reset"}
  BY DEF Ahead, Mutations
<1>3. call.op # "reset" => call.profile \in Profiles
  BY <1>2 DEF Fits
<1> HIDE DEF next
<1> QED BY <1>1, <1>2, <1>3 DEF Fits, Ahead, Mutations, next

\* Every step inside the gate is such a move.
LEMMA WalkAhead ==
  ASSUME TypeOK, PcsFit, NEW t \in Threads, Walk(t)
  PROVE  \E pc \in Pcs : Ahead(thread[t], pc) /\ Goes(t, pc)
<1>0. Fits(thread[t])
  BY DEF PcsFit
<1> USE DEF Ahead, At, Mutations, Pcs
<1>1. CASE Admit(t) \/ RefuseOperation(t)
  BY <1>1 DEF Admit, RefuseOperation
<1>2. CASE MutationRaises(t)
  BY <1>2 DEF MutationRaises
<1>3. CASE CreateUser(t) \/ BeginUnlock(t)
  BY <1>3 DEF CreateUser, BeginUnlock
<1>4. CASE DropKey(t) \/ StoreKey(t) \/ GrantUnlock(t)
  BY <1>0, <1>4 DEF DropKey, StoreKey, GrantUnlock, Fits
<1>5. CASE UnlockFails(t)
  BY <1>0, <1>5 DEF UnlockFails, Fits
<1>6. CASE BeginLock(t)
  BY <1>6 DEF BeginLock
<1>7. CASE Revoke(t) \/ ForgetKey(t)
  <2>1. thread[t].op \in Mutations
    BY <1>0, <1>7 DEF Revoke, ForgetKey, Fits, Idle, TypeOK, Ops
  <2> QED BY <1>7, <2>1 DEF Revoke, ForgetKey
<1>8. CASE Erasing(t)
  BY <1>8 DEF Erasing, BeginErase, RefuseErase, EraseEnds, DeleteUser
<1>9. CASE RemoveFiles(t) \/ DiscardKeys(t) \/ WriteIndex(t) \/ ResetRaises(t)
  BY <1>9 DEF RemoveFiles, DiscardKeys, WriteIndex, ResetRaises
<1>10. CASE RevokeAll(t)
  <2>1. thread[t].op = "reset"
    BY <1>0, <1>10 DEF RevokeAll, Fits, Idle, TypeOK, Ops
  <2> QED BY <1>10, <2>1 DEF RevokeAll
<1> QED BY <1>1, <1>2, <1>3, <1>4, <1>5, <1>6, <1>7, <1>8, <1>9, <1>10
        DEF Walk, Unlocking

\* So each stays within its operation.
LEMMA WalkFits ==
  ASSUME TypeOK, PcsFit, NEW t \in Threads, Walk(t)
  PROVE  Fits(thread'[t])
<1>1. PICK pc \in Pcs : Ahead(thread[t], pc) /\ Goes(t, pc)
  BY WalkAhead
<1>2. thread'[t] = [thread[t] EXCEPT !.pc = pc]
  BY <1>1 DEF Goes, TypeOK
<1>3. Fits(thread[t]) /\ thread[t] \in [pc : Pcs, op : Ops, profile : Profiles \union {NoProfile}]
  BY DEF PcsFit, TypeOK
<1>4. Fits([thread[t] EXCEPT !.pc = pc])
  BY <1>1, <1>3, AheadFits
<1> QED BY <1>2, <1>4

\* Who enters or leaves is where its operation starts, or idle.
LEMMA PassFits ==
  ASSUME TypeOK, PcsFit, NEW t \in Threads, Pass(t)
  PROVE  Fits(thread'[t])
<1> USE DEF TypeOK, Fits
<1>1. ASSUME NEW p \in Profiles, EnterOperation(t, p) PROVE Fits(thread'[t])
  BY <1>1 DEF EnterOperation, Mutations
<1>2. ASSUME NEW p \in Profiles, NEW op \in Mutations, EnterMutation(t, p, op)
      PROVE  Fits(thread'[t])
  BY <1>2 DEF EnterMutation, Mutations
<1>3. ASSUME NEW p \in Profiles, CheckStart(t, p) PROVE Fits(thread'[t])
  BY <1>3 DEF CheckStart, Mutations
<1>4. CASE EnterReset(t)
  BY <1>4 DEF EnterReset, Mutations
<1>5. CASE \/ LeaveOperation(t) \/ LeaveMutation(t) \/ LeaveReset(t)
           \/ DiscardMark(t) \/ Enqueue(t) \/ RefuseStart(t)
  <2>1. thread'[t] = Idle
    BY <1>5 DEF LeaveOperation, LeaveMutation, LeaveReset, DiscardMark, Enqueue, Accept,
                RefuseStart, Returns
  <2> QED BY <2>1 DEF Idle, Mutations
<1> QED BY <1>1, <1>2, <1>3, <1>4, <1>5 DEF Pass, Starting

\* Every thread is somewhere its operation can be.
LEMMA FitStep ==
  ASSUME Inductive, [Next]_vars
  PROVE  PcsFit'
<1> USE DEF Inductive
<1>1. ASSUME NEW t \in Threads, Walk(t) PROVE PcsFit'
  <2>1. Fits(thread'[t]) /\ \A u \in Threads \ {t} : thread'[u] = thread[u]
    BY <1>1, WalkFits, WalkKeeps
  <2> QED BY <2>1 DEF PcsFit
<1>2. ASSUME NEW t \in Threads, Pass(t) PROVE PcsFit'
  <2>1. Fits(thread'[t]) /\ \A u \in Threads \ {t} : thread'[u] = thread[u]
    BY <1>2, PassFits, PassKeeps
  <2> QED BY <2>1 DEF PcsFit
<1>3. CASE RunsEnd \/ UNCHANGED vars
  BY <1>3 DEF RunsEnd, vars, PcsFit
<1> QED BY <1>1, <1>2, <1>3, NextSplits

\* The guards of an entry find the profile free, and the gate's meaning says
\* that nobody else is inside.
LEMMA ExcludeStep ==
  ASSUME Inductive, [Next]_vars
  PROVE  GateExcludes'
<1> USE DEF Inductive
<1>1. ASSUME NEW t \in Threads, Walk(t) PROVE GateExcludes'
  <2>1. /\ UNCHANGED busy
        /\ \A u \in Threads : /\ thread'[u].op = thread[u].op
                              /\ thread'[u].profile = thread[u].profile
    BY <1>1, WalkKeeps
  <2> QED BY <2>1 DEF GateExcludes, Resets
<1>2. ASSUME NEW t \in Threads, Pass(t) PROVE GateExcludes'
  <2>0. \A u \in Threads \ {t} : thread'[u] = thread[u]
    BY <1>2, PassKeeps
  <2>1. ASSUME NEW p \in Profiles, EnterOperation(t, p) PROVE GateExcludes'
    <3>1. /\ thread'[t].op = "read" /\ thread'[t].profile = p
          /\ UNCHANGED busy
      BY <2>1 DEF EnterOperation, TypeOK
    <3>2. \A u \in Threads : ~Mutates(u, p) /\ thread[u].op # "reset"
      BY <2>1, GateMeaning DEF EnterOperation
    <3> QED BY <2>0, <3>1, <3>2 DEF GateExcludes, Resets, Mutates, Mutations
  <2>2. ASSUME NEW p \in Profiles, NEW op \in Mutations, EnterMutation(t, p, op)
        PROVE  GateExcludes'
    <3>1. /\ thread'[t].op = op /\ thread'[t].profile = p
          /\ UNCHANGED busy
          /\ p \notin busy
      BY <2>2 DEF EnterMutation, TypeOK
    <3>2. \A u \in Threads : ~Mutates(u, p) /\ ~Reads(u, p) /\ thread[u].op # "reset"
      BY <2>2, GateMeaning DEF EnterMutation
    <3> QED BY <2>0, <3>1, <3>2 DEF GateExcludes, Resets, Mutates, Reads, Mutations
  <2>3. CASE EnterReset(t)
    <3>1. thread'[t].op = "reset" /\ UNCHANGED busy /\ busy = {}
      BY <2>3 DEF EnterReset, TypeOK
    <3>2. \A u \in Threads : thread[u].op \notin Mutations \union {"read", "reset"}
      BY <2>3, GateMeaning DEF EnterReset, Reads, Mutates, PcsFit, Fits
    <3> QED BY <2>0, <3>1, <3>2 DEF GateExcludes, Resets, Mutations
  <2>4. ASSUME NEW p \in Profiles, CheckStart(t, p) PROVE GateExcludes'
    <3>1. thread'[t].op = "start" /\ UNCHANGED busy
      BY <2>4 DEF CheckStart, TypeOK
    <3> QED BY <2>0, <3>1 DEF GateExcludes, Resets, Mutations
  <2>5. CASE Enqueue(t)
    <3>1. thread'[t].op = "none" /\ busy' = busy \union {thread[t].profile}
      BY <2>5 DEF Enqueue, Accept, Returns, Idle, TypeOK
    <3>2. \A u \in Threads : ~Mutates(u, thread[t].profile) /\ thread[u].op # "reset"
      BY <2>5, GateMeaning DEF Enqueue, Accept, At, Blocked, PcsFit, Fits
    <3> QED BY <2>0, <3>1, <3>2 DEF GateExcludes, Resets, Mutates, Mutations
  <2>6. CASE \/ LeaveOperation(t) \/ LeaveMutation(t) \/ LeaveReset(t)
             \/ DiscardMark(t) \/ RefuseStart(t)
    <3>1. thread'[t].op = "none" /\ UNCHANGED busy
      BY <2>6 DEF LeaveOperation, LeaveMutation, LeaveReset, DiscardMark,
                  RefuseStart, Returns, Idle, TypeOK
    <3> QED BY <2>0, <3>1 DEF GateExcludes, Resets, Mutations
  <2> QED BY <1>2, <2>1, <2>2, <2>3, <2>4, <2>5, <2>6 DEF Pass, Starting
<1>3. CASE RunsEnd
  BY <1>3 DEF RunsEnd, GateExcludes, Resets
<1>4. CASE UNCHANGED vars
  BY <1>4 DEF vars, GateExcludes, Resets
<1> QED BY <1>1, <1>2, <1>3, <1>4, NextSplits

-----------------------------------------------------------------------------
(* Keys and marks.                                                         *)

\* A thread inside the gate only touches the profile it mutates, except that a
\* refused operation may take a mark away.
LEMMA WalkLocal ==
  ASSUME Inductive, NEW t \in Threads, Walk(t), thread[t].op # "reset",
         NEW q \in Profiles, ~Mutates(t, q)
  PROVE  /\ q \in keys' <=> q \in keys
         /\ q \in users' <=> q \in users
         /\ q \in unlocked' => q \in unlocked
         /\ q \in stranded' <=> q \in stranded
<1> USE DEF Mutates, Mutations, secrets, At
<1>1. Fits(thread[t])
  BY DEF Inductive, PcsFit
<1>2. thread[t].op \in Mutations \union {"read"}
  BY WalkAhead DEF Inductive, Ahead
<1>3. CASE Admit(t) \/ RefuseOperation(t)
  BY <1>3 DEF Admit, RefuseOperation, Refuses
<1>4. CASE MutationRaises(t) \/ CreateUser(t)
  BY <1>4 DEF MutationRaises, CreateUser
<1>5. CASE Unlocking(t)
  BY <1>1, <1>5 DEF Unlocking, BeginUnlock, DropKey, StoreKey, UnlockFails,
                    GrantUnlock, Fits
<1>6. CASE BeginLock(t) \/ Revoke(t) \/ ForgetKey(t)
  BY <1>1, <1>2, <1>6 DEF BeginLock, Revoke, ForgetKey, Fits
<1>7. CASE Erasing(t)
  BY <1>7 DEF Erasing, BeginErase, RefuseErase, EraseEnds, DeleteUser, Refuses
<1>8. CASE RemoveFiles(t) \/ DiscardKeys(t) \/ WriteIndex(t) \/ RevokeAll(t) \/ ResetRaises(t)
  BY <1>1, <1>2, <1>8 DEF RemoveFiles, DiscardKeys, WriteIndex, RevokeAll, ResetRaises, Fits
<1> QED BY <1>3, <1>4, <1>5, <1>6, <1>7, <1>8, Zenon DEF Walk

\* What is being worked on is nobody else's to mutate or to reset, and who
\* comes inside has just been let in.
LEMMA ReadableStep ==
  ASSUME Inductive, [Next]_vars
  PROVE  WorkIsReadable'
<1> USE DEF Inductive
<1>1. ASSUME NEW t \in Threads, Walk(t) PROVE WorkIsReadable'
  <2>0. UNCHANGED busy /\ \A u \in Threads \ {t} : thread'[u] = thread[u]
    BY <1>1, WalkKeeps
  <2>1. thread[t].op \in Mutations \union {"read", "reset"}
    BY <1>1, WalkAhead DEF Ahead, Mutations
  <2>2. ASSUME NEW q \in busy PROVE Readable(q)'
    <3>1. q \in Profiles /\ ~Mutates(t, q) /\ thread[t].op # "reset"
      BY <2>2 DEF TypeOK, GateExcludes, Resets, Mutates
    <3> QED BY <1>1, <2>2, <3>1, WalkLocal DEF WorkIsReadable, Readable
  <2>3. ASSUME NEW u \in Threads \ {t}, thread[u].pc = "inside"
        PROVE  Readable(thread[u].profile)'
    <3>1. Fits(thread[u])
      BY DEF PcsFit
    <3>2. thread[u].op \in Mutations \union {"read"}
      BY <2>3, <3>1 DEF Fits, Idle, TypeOK, Ops
    <3>3. PICK q \in Profiles : q = thread[u].profile
      BY <3>1, <3>2 DEF Fits
    <3>4. ~Mutates(t, q) /\ thread[t].op # "reset"
      BY <3>2, <3>3 DEF GateExcludes, Mutates
    <3>5. Readable(q)
      BY <2>3, <3>3 DEF WorkIsReadable
    <3>6. q \in users' /\ (q \in Protected => q \in keys')
      BY <1>1, <3>4, <3>5, WalkLocal DEF Readable
    <3> QED BY <2>0, <3>3, <3>6 DEF Readable
  <2>4. ASSUME thread'[t].pc = "inside" PROVE Readable(thread[t].profile)'
    <3>1. Admit(t) \/ BeginErase(t)
      <4>1. CASE MutationRaises(t) \/ CreateUser(t) \/ RefuseOperation(t)
        BY <4>1, <2>4 DEF MutationRaises, CreateUser, RefuseOperation, Goes, TypeOK
      <4>2. CASE Unlocking(t)
        BY <4>2, <2>4 DEF Unlocking, BeginUnlock, DropKey, StoreKey, UnlockFails,
                          GrantUnlock, Goes, TypeOK
      <4>3. CASE BeginLock(t) \/ Revoke(t) \/ ForgetKey(t)
        BY <4>3, <2>4 DEF BeginLock, Revoke, ForgetKey, Goes, TypeOK
      <4>4. CASE RefuseErase(t) \/ EraseEnds(t) \/ DeleteUser(t)
        BY <4>4, <2>4 DEF RefuseErase, EraseEnds, DeleteUser, Goes, TypeOK
      <4>5. CASE RemoveFiles(t) \/ DiscardKeys(t) \/ WriteIndex(t) \/ RevokeAll(t) \/ ResetRaises(t)
        BY <4>5, <2>4 DEF RemoveFiles, DiscardKeys, WriteIndex, RevokeAll, ResetRaises, Goes, TypeOK
      <4> QED BY <1>1, <4>1, <4>2, <4>3, <4>4, <4>5, Zenon DEF Walk, Erasing
    <3>2. Accessible(thread[t].profile) /\ UNCHANGED <<keys, users>>
      BY <3>1 DEF Admit, BeginErase, secrets
    <3>3. thread'[t].profile = thread[t].profile
      BY <1>1, WalkKeeps
    <3> QED BY <3>2, <3>3 DEF Accessible, Readable
  <2> QED BY <2>0, <2>2, <2>3, <2>4 DEF WorkIsReadable
<1>2. ASSUME NEW t \in Threads, Pass(t) PROVE WorkIsReadable'
  <2>0. UNCHANGED <<keys, users>> /\ \A u \in Threads \ {t} : thread'[u] = thread[u]
    BY <1>2, PassKeeps
  <2>1. thread'[t].pc # "inside"
    <3>1. CASE \/ LeaveOperation(t) \/ LeaveMutation(t) \/ LeaveReset(t)
               \/ DiscardMark(t) \/ Enqueue(t) \/ RefuseStart(t)
      BY <3>1 DEF LeaveOperation, LeaveMutation, LeaveReset, DiscardMark, Enqueue, Accept,
                  RefuseStart, Returns, Idle, TypeOK
    <3>2. ASSUME NEW p \in Profiles, EnterOperation(t, p) \/ CheckStart(t, p)
          PROVE  thread'[t].pc # "inside"
      BY <3>2 DEF EnterOperation, CheckStart, TypeOK
    <3>3. ASSUME NEW p \in Profiles, NEW op \in Mutations, EnterMutation(t, p, op)
          PROVE  thread'[t].pc # "inside"
      BY <3>3 DEF EnterMutation, TypeOK
    <3>4. CASE EnterReset(t)
      BY <3>4 DEF EnterReset, TypeOK
    <3> QED BY <1>2, <3>1, <3>2, <3>3, <3>4 DEF Pass, Starting
  <2>2. \A q \in busy' : q \in busy \/ Accessible(q)
    BY <1>2 DEF Pass, EnterOperation, LeaveOperation, EnterMutation, LeaveMutation,
                EnterReset, LeaveReset, Starting, CheckStart, DiscardMark, Enqueue, Accept,
                RefuseStart
  <2> QED BY <2>0, <2>1, <2>2 DEF WorkIsReadable, Readable, Accessible
<1>3. CASE RunsEnd
  BY <1>3 DEF RunsEnd, WorkIsReadable, Readable, secrets
<1>4. CASE UNCHANGED vars
  BY <1>4 DEF vars, secrets, WorkIsReadable, Readable
<1> QED BY <1>1, <1>2, <1>3, <1>4, NextSplits

\* A thread's own place in its mutation keeps up with what it does to the key.
LEMMA WalkFollows ==
  ASSUME Inductive, NEW t \in Threads, Walk(t)
  PROVE  FollowsKey(t)'
<1>1. Fits(thread[t]) /\ FollowsKey(t) /\ TypeOK
  BY DEF Inductive, PcsFit, MarkFollowsKey
<1>2. thread'[t].op = thread[t].op /\ thread'[t].profile = thread[t].profile
  BY WalkKeeps DEF Inductive
<1> DEFINE Moves(pc) == thread'[t].pc = pc
<1>3. \A pc : Goes(t, pc) => Moves(pc)
  BY <1>1 DEF Goes, TypeOK
<1> HIDE DEF Moves
<1> USE DEF At, Mutations, secrets
<1>4. CASE Admit(t) \/ RefuseOperation(t)
  <2>1. thread[t].op = "read" /\ (Moves("inside") \/ Moves("leave"))
    BY <1>3, <1>4 DEF Admit, RefuseOperation
  <2> QED BY <1>2, <2>1 DEF FollowsKey, Moves
<1>5. CASE MutationRaises(t)
  <2>1. /\ thread[t].op \in Mutations /\ thread[t].pc = "begin" /\ Moves("leave")
        /\ UNCHANGED secrets
    BY <1>3, <1>5 DEF MutationRaises
  <2> QED BY <1>1, <1>2, <2>1 DEF FollowsKey, Moves, Readable, Backed
<1>6. CASE CreateUser(t)
  <2>1. /\ thread[t].op = "create" /\ thread[t].pc = "begin"
        /\ thread[t].profile \notin users /\ thread[t].profile \in users'
        /\ UNCHANGED <<unlocked, keys, stranded>>
        /\ \/ thread[t].profile \in Protected /\ Moves("drop_key")
           \/ thread[t].profile \notin Protected /\ Moves("leave")
    BY <1>3, <1>6 DEF CreateUser
  <2> QED BY <1>1, <1>2, <2>1 DEF FollowsKey, Moves, Readable, Backed
<1>7. CASE BeginUnlock(t)
  <2>1. /\ thread[t].op = "unlock" /\ thread[t].profile \in users /\ UNCHANGED secrets
        /\ \/ Moves("drop_key")
           \/ thread[t].profile \notin Protected /\ Moves("leave")
    BY <1>3, <1>7 DEF BeginUnlock
  <2> QED BY <1>2, <2>1 DEF FollowsKey, Moves
<1>8. CASE DropKey(t)
  <2>1. /\ thread[t].pc = "drop_key" /\ Moves("derive_key")
        /\ UNCHANGED <<unlocked, users, stranded>> /\ thread[t].profile \notin keys'
    BY <1>3, <1>8 DEF DropKey
  <2> QED BY <1>1, <1>2, <2>1 DEF FollowsKey, Moves
<1>9. CASE StoreKey(t)
  <2>1. /\ thread[t].pc = "derive_key" /\ Moves("recover") /\ UNCHANGED <<unlocked, users>>
        /\ thread[t].profile \in keys'
    BY <1>3, <1>9 DEF StoreKey
  <2> QED BY <1>1, <1>2, <2>1 DEF FollowsKey, Moves
<1>10. CASE UnlockFails(t)
  <2>1. /\ UNCHANGED secrets
        /\ \/ Moves("revoke")
           \/ /\ thread[t].op = "create" /\ thread[t].pc = "derive_key"
              /\ Moves("leave")
    BY <1>1, <1>3, <1>10 DEF UnlockFails, Fits
  <2> QED BY <1>1, <1>2, <2>1 DEF FollowsKey, Moves, Backed, Readable
<1>11. CASE GrantUnlock(t)
  <2>1. /\ thread[t].pc = "recover" /\ Moves("leave") /\ UNCHANGED <<keys, users>>
        /\ thread[t].profile \notin stranded'
    BY <1>3, <1>11 DEF GrantUnlock
  <2>2. thread[t].op \in Mutations
    BY <1>1, <2>1 DEF Fits
  <2> QED BY <1>1, <1>2, <2>1, <2>2 DEF FollowsKey, Moves, Readable, Backed
<1>12. CASE BeginLock(t) \/ DeleteUser(t)
  <2>1. Moves("revoke")
    BY <1>3, <1>12 DEF BeginLock, DeleteUser
  <2> QED BY <2>1 DEF FollowsKey, Moves
<1>13. CASE Revoke(t)
  <2>1. Moves("forget_key") /\ thread[t].profile \notin unlocked'
    BY <1>3, <1>13 DEF Revoke
  <2> QED BY <1>2, <2>1 DEF FollowsKey, Moves
<1>14. CASE ForgetKey(t)
  <2>1. thread[t].pc = "forget_key" /\ Moves("leave") /\ UNCHANGED unlocked
    BY <1>3, <1>14 DEF ForgetKey
  <2>2. thread[t].op \in Mutations
    BY <1>1, <2>1 DEF Fits, Idle, TypeOK, Ops
  <2> QED BY <1>1, <1>2, <2>1, <2>2 DEF FollowsKey, Moves, Backed
<1>15. CASE BeginErase(t)
  <2>1. /\ thread[t].op \in Mutations /\ thread[t].pc = "begin" /\ Moves("inside")
        /\ UNCHANGED secrets
    BY <1>3, <1>15 DEF BeginErase
  <2> QED BY <1>1, <1>2, <2>1 DEF FollowsKey, Moves, Readable, Backed
<1>16. CASE RefuseErase(t)
  <2>1. /\ thread[t].op \in Mutations /\ thread[t].pc = "begin" /\ Moves("leave")
        /\ UNCHANGED <<keys, users, stranded>>
        /\ unlocked' = IF thread[t].profile \in users
                         THEN unlocked \ {thread[t].profile} ELSE unlocked
    BY <1>3, <1>16 DEF RefuseErase, Refuses
  <2> QED BY <1>1, <1>2, <2>1 DEF FollowsKey, Moves, Readable, Backed
<1>17. CASE EraseEnds(t)
  <2>1. /\ thread[t].op \in Mutations /\ thread[t].pc = "inside" /\ UNCHANGED secrets
        /\ Moves("revoke") \/ Moves("leave")
    BY <1>3, <1>17 DEF EraseEnds
  <2> QED BY <1>1, <1>2, <2>1 DEF FollowsKey, Moves, Readable, Backed
<1>18. CASE RemoveFiles(t) \/ DiscardKeys(t) \/ WriteIndex(t)
  <2>1. Moves("wipe") \/ Moves("unindexed") \/ Moves("revoke_all")
    BY <1>3, <1>18 DEF RemoveFiles, DiscardKeys, WriteIndex
  <2> QED BY <2>1 DEF FollowsKey, Moves
<1>19. CASE ResetRaises(t)
  <2>1. /\ thread[t].op = "reset" /\ Moves("leave") /\ UNCHANGED <<unlocked, keys, users>>
        /\ stranded' = {p \in Protected \intersect unlocked : ~Readable(p)}
    BY <1>3, <1>19 DEF ResetRaises
  <2>2. \A q \in Protected : Backed(q)'
    BY <2>1 DEF Backed, Readable
  <2> QED BY <1>2, <2>1, <2>2 DEF FollowsKey, Moves
<1>20. CASE RevokeAll(t)
  <2>1. Moves("leave") /\ unlocked' = {}
    BY <1>3, <1>20 DEF RevokeAll
  <2> QED BY <2>1 DEF FollowsKey, Moves, Backed
<1> QED BY <1>4, <1>5, <1>6, <1>7, <1>8, <1>9, <1>10, <1>11, <1>12, <1>13, <1>14,
           <1>15, <1>16, <1>17, <1>18, <1>19, <1>20
        DEF Walk, Unlocking, Erasing

\* What another thread relies on stays: the mutator of its profile is alone.
LEMMA FollowStep ==
  ASSUME Inductive, [Next]_vars
  PROVE  MarkFollowsKey'
<1> USE DEF Inductive
<1>1. ASSUME NEW t \in Threads, Walk(t) PROVE MarkFollowsKey'
  <2>1. ASSUME NEW u \in Threads \ {t} PROVE FollowsKey(u)'
    <3>0. thread'[u] = thread[u] /\ FollowsKey(u) /\ Fits(thread[u])
      BY <1>1, WalkKeeps DEF MarkFollowsKey, PcsFit
    <3>1. thread[t].op \in Mutations \union {"read", "reset"}
      BY <1>1, WalkAhead DEF Ahead, Mutations
    <3>2. thread[u].op # "reset"
      BY <3>1 DEF GateExcludes
    <3>3. CASE thread[u].op \notin Mutations
      <4>1. thread[u].pc \notin {"drop_key", "derive_key", "recover", "forget_key"}
        BY <3>0, <3>2, <3>3 DEF Fits, Idle, TypeOK, Ops, Mutations
      <4> QED BY <3>0, <3>2, <3>3, <4>1 DEF FollowsKey
    <3>4. CASE thread[u].op \in Mutations
      <4>1. PICK q \in Profiles : q = thread[u].profile
        BY <3>0, <3>4 DEF Fits
      <4>2. ~Mutates(t, q) /\ thread[t].op # "reset"
        BY <3>4, <4>1 DEF GateExcludes, Mutates
      <4>3. /\ q \in keys' <=> q \in keys
            /\ q \in users' <=> q \in users
            /\ q \in unlocked' => q \in unlocked
            /\ q \in stranded' <=> q \in stranded
        BY <1>1, <4>2, WalkLocal
      <4> QED BY <3>0, <3>2, <4>1, <4>3 DEF FollowsKey, Readable, Backed
    <3> QED BY <3>3, <3>4
  <2> QED BY <1>1, <2>1, WalkFollows DEF MarkFollowsKey
<1>2. ASSUME NEW t \in Threads, Pass(t) PROVE MarkFollowsKey'
  <2>0. /\ UNCHANGED <<keys, users, stranded>>
        /\ unlocked' \subseteq unlocked
        /\ \A u \in Threads \ {t} : thread'[u] = thread[u]
    BY <1>2, PassKeeps
  <2>1. \A u \in Threads \ {t} : FollowsKey(u)'
    BY <2>0 DEF MarkFollowsKey, FollowsKey, Readable, Backed
  <2>2. CASE \/ LeaveOperation(t) \/ LeaveMutation(t) \/ LeaveReset(t)
             \/ DiscardMark(t) \/ Enqueue(t) \/ RefuseStart(t)
    <3>1. thread'[t].op = "none" /\ thread'[t].pc = "ready"
      BY <2>2 DEF LeaveOperation, LeaveMutation, LeaveReset, DiscardMark, Enqueue, Accept,
                  RefuseStart, Returns, Idle, TypeOK
    <3>2. FollowsKey(t)'
      BY <3>1 DEF FollowsKey, Mutations
    <3> QED BY <2>1, <3>2 DEF MarkFollowsKey
  <2>3. ASSUME NEW p \in Profiles, EnterOperation(t, p) \/ CheckStart(t, p)
        PROVE  MarkFollowsKey'
    <3>1. thread'[t].op \in {"read", "start"} /\ thread'[t].pc \in {"admit", "preflight", "discard"}
      BY <2>3 DEF EnterOperation, CheckStart, TypeOK
    <3>2. FollowsKey(t)'
      BY <3>1 DEF FollowsKey, Mutations
    <3> QED BY <2>1, <3>2 DEF MarkFollowsKey
  <2>4. ASSUME NEW p \in Profiles, NEW op \in Mutations, EnterMutation(t, p, op)
        PROVE  MarkFollowsKey'
    <3>1. /\ thread'[t] = [pc |-> "begin", op |-> op, profile |-> p]
          /\ UNCHANGED unlocked /\ ~Blocked(p)
      BY <2>4 DEF EnterMutation, Blocked, TypeOK, secrets
    <3>2. p \in Protected => Backed(p)
      BY <3>1 DEF MarkedHasKey, Backed
    <3>3. FollowsKey(t)'
      BY <2>0, <3>1, <3>2 DEF FollowsKey, Readable, Backed, Mutations
    <3> QED BY <2>1, <3>3 DEF MarkFollowsKey
  <2>5. CASE EnterReset(t)
    <3>1. /\ thread'[t].pc = "begin" /\ thread'[t].op = "reset"
          /\ UNCHANGED unlocked /\ \A q \in Profiles : ~Blocked(q)
      BY <2>5 DEF EnterReset, Blocked, TypeOK, secrets
    <3>2. \A q \in Protected : Backed(q)
      BY <3>1, GateAssumption DEF MarkedHasKey, Backed
    <3>3. FollowsKey(t)'
      BY <2>0, <3>1, <3>2 DEF FollowsKey, Readable, Backed, Mutations
    <3> QED BY <2>1, <3>3 DEF MarkFollowsKey
  <2> QED BY <1>2, <2>2, <2>3, <2>4, <2>5 DEF Pass, Starting
<1>3. CASE RunsEnd
  BY <1>3 DEF RunsEnd, secrets, MarkFollowsKey, FollowsKey, Readable, Backed
<1>4. CASE UNCHANGED vars
  BY <1>4 DEF vars, secrets, MarkFollowsKey, FollowsKey, Readable, Backed
<1> QED BY <1>1, <1>2, <1>3, <1>4, NextSplits

\* A profile comes out of the gate with its mark and its key in step.
LEMMA MarkedStep ==
  ASSUME Inductive, [Next]_vars
  PROVE  MarkedHasKey'
<1> USE DEF Inductive
<1>0. Protected \subseteq Profiles
  BY GateAssumption
<1>1. ASSUME NEW t \in Threads, Walk(t) PROVE MarkedHasKey'
  <2>1. SUFFICES ASSUME NEW q \in Protected, ~Blocked(q)', q \in unlocked'
                 PROVE  Readable(q)' <=> q \notin stranded'
    BY DEF MarkedHasKey
  <2>2. ~Blocked(q)
    BY <1>1, <2>1, WalkKeeps DEF Blocked, gate
  <2>3. ~Mutates(t, q) /\ thread[t].op # "reset"
    BY <1>0, <2>2, GateMeaning DEF Blocked
  <2> QED BY <1>0, <1>1, <2>1, <2>2, <2>3, WalkLocal DEF MarkedHasKey, Readable
<1>2. ASSUME NEW t \in Threads, Pass(t) PROVE MarkedHasKey'
  <2>1. UNCHANGED <<keys, users, stranded>> /\ unlocked' \subseteq unlocked
    BY <1>2, PassKeeps
  <2>2. CASE LeaveMutation(t)
    <3>1. PICK p \in Profiles : p = thread[t].profile
      BY <2>2 DEF LeaveMutation, PcsFit, Fits
    <3>2. p \in Protected => Backed(p)
      BY <2>2, <3>1 DEF LeaveMutation, MarkFollowsKey, FollowsKey
    <3>3. \A q \in Profiles \ {p} : Blocked(q)' <=> Blocked(q)
      BY <2>2, <3>1 DEF LeaveMutation, Blocked
    <3> QED BY <1>0, <2>1, <3>2, <3>3 DEF MarkedHasKey, Readable, Backed
  <2>3. CASE LeaveReset(t)
    <3>1. \A q \in Protected : Backed(q)
      BY <2>3 DEF LeaveReset, At, MarkFollowsKey, FollowsKey
    <3> QED BY <2>1, <3>1 DEF MarkedHasKey, Readable, Backed
  <2>4. \/ LeaveMutation(t) \/ LeaveReset(t)
        \/ \A q \in Profiles : Blocked(q) => Blocked(q)'
    BY <1>2 DEF Pass, EnterOperation, LeaveOperation, EnterMutation, EnterReset,
                Starting, CheckStart, DiscardMark, Enqueue, Accept, RefuseStart, Blocked, gate
  <2> QED BY <1>0, <2>1, <2>2, <2>3, <2>4 DEF MarkedHasKey, Readable
<1>3. CASE RunsEnd
  BY <1>3 DEF RunsEnd, gate, secrets, MarkedHasKey, Readable, Blocked
<1>4. CASE UNCHANGED vars
  BY <1>4 DEF vars, gate, secrets, MarkedHasKey, Readable, Blocked
<1> QED BY <1>1, <1>2, <1>3, <1>4, NextSplits

\* A call in the gate moves no other one, and only profiles without runs are deleted.
LEMMA OnlyIdleGo ==
  ASSUME Inductive, NEW t \in Threads, Operating(t) \/ Mutating(t) \/ Resetting(t)
  PROVE  /\ \A u \in Threads \ {t} : thread'[u] = thread[u]
         /\ \A p \in users \ users' : p \notin busy
<1>1. Walk(t) \/ Pass(t)
  BY DEF Walk, Pass, Operating, Mutating, Resetting
<1>2. TypeOK /\ GateExcludes
  BY DEF Inductive
<1>3. UNCHANGED users \/ DeleteUser(t) \/ RemoveFiles(t) \/ WriteIndex(t) \/ CreateUser(t)
  BY <1>1, <1>2, PassKeeps
     DEF Walk, Admit, RefuseOperation, MutationRaises, Unlocking, BeginUnlock, DropKey, StoreKey,
         UnlockFails, GrantUnlock, BeginLock, Revoke, ForgetKey, Erasing, BeginErase, RefuseErase,
         EraseEnds, DiscardKeys, RevokeAll, ResetRaises, secrets
<1>4. \A p \in users \ users' : p \notin busy
  <2>1. CASE DeleteUser(t)
    <3>1. thread[t].op \in Mutations /\ users \ users' \subseteq {thread[t].profile}
      BY <2>1 DEF DeleteUser, At, Mutations
    <3> QED BY <1>2, <3>1 DEF GateExcludes
  <2>2. CASE RemoveFiles(t) \/ WriteIndex(t)
    <3>1. t \in Resets
      BY <2>2 DEF RemoveFiles, WriteIndex, At, Resets
    <3> QED BY <1>2, <3>1 DEF GateExcludes
  <2> QED BY <1>3, <2>1, <2>2 DEF CreateUser
<1> QED BY <1>1, <1>2, <1>4, WalkKeeps, PassKeeps

-----------------------------------------------------------------------------
\* Nobody is inside at first.
LEMMA InductiveInit ==
  ASSUME Init
  PROVE  Inductive
<1> USE DEF Init
<1>1. TypeOK
  BY IdleType DEF TypeOK
<1>2. \A t \in Threads : thread[t] = Idle /\ thread[t].op = "none" /\ thread[t].pc = "ready"
  BY DEF Idle
<1>3. GateIsExact
  <2>1. /\ \A p \in Profiles : OperatingOn(p) = {} /\ MutatingOn(p) = {}
        /\ Resets = {}
    BY <1>2 DEF OperatingOn, MutatingOn, Resets, Mutations
  <2> QED BY <2>1, FS_EmptySet DEF GateIsExact
<1>4. PcsFit
  BY <1>2 DEF PcsFit, Fits, Mutations
<1>5. GateExcludes
  BY <1>2 DEF GateExcludes, Mutations, Resets
<1>6. WorkIsReadable
  BY <1>2 DEF WorkIsReadable
<1>7. MarkFollowsKey
  BY <1>2 DEF MarkFollowsKey, FollowsKey, Mutations
<1>8. MarkedHasKey
  BY DEF MarkedHasKey
<1> QED BY <1>1, <1>3, <1>4, <1>5, <1>6, <1>7, <1>8 DEF Inductive

\* Whoever moves, it stays.
LEMMA InductiveStep ==
  ASSUME Inductive, [Next]_vars
  PROVE  Inductive'
BY TypeStep, ExactStep, FitStep, ExcludeStep, ReadableStep, FollowStep, MarkedStep
   DEF Inductive

\* The invariant behind the theorems below: where each thread is in the gate,
\* who that keeps out, and what it has done so far to its profile's key.
THEOREM GateInductive == Spec => []Inductive
<1>1. Init => Inductive
  BY InductiveInit
<1>2. Inductive /\ [Next]_vars => Inductive'
  BY InductiveStep
<1> QED BY <1>1, <1>2, PTL DEF Spec

\* Every variable of the gate keeps its type; no count goes negative.
THEOREM GateTypes == Spec => []TypeOK
BY GateInductive, PTL DEF Inductive

\* _active_profile_operations, _mutating_users and _global_mutation_active say
\* exactly who is inside, whatever is refused or raises.
THEOREM GateCounts == Spec => []GateIsExact
BY GateInductive, PTL DEF Inductive

\* Nobody locks, deletes or resets a profile under an admitted operation, an
\* erasing mutation or a run that is queued or executes.
THEOREM WorkKeepsItsKey == Spec => []WorkIsReadable
BY GateInductive, PTL DEF Inductive

\* Whenever the gate lets somebody in, a marked profile has its key.
THEOREM MarksAreBacked == Spec => []MarkedHasKey
BY GateInductive, PTL DEF Inductive

-----------------------------------------------------------------------------
(* The gate implements ProfileLock.                                        *)

\* A step of one thread changes what that thread holds.
LEMMA OneHolder ==
  ASSUME NEW t \in Threads, UNCHANGED busy,
         \A u \in Threads \ {t} : thread'[u] = thread[u]
  PROVE  Holding' = [Holding EXCEPT ![t] = Holds(t)']
<1>1. t \notin Profiles
  BY GateAssumption
<1>2. \A h \in Profiles : Holding'[h] = Holding[h]
  BY DEF Holding
<1>3. \A u \in Threads \ {t} : Holding'[u] = Holding[u]
  BY GateAssumption DEF Holding, Holds
<1>4. Holding'[t] = Holds(t)'
  BY <1>1 DEF Holding
<1>5. /\ Holding' = [h \in Threads \union Profiles |-> Holding'[h]]
      /\ Holding = [h \in Threads \union Profiles |-> Holding[h]]
  BY DEF Holding
<1> QED BY <1>2, <1>3, <1>4, <1>5

\* A thread holds what its call entered with, a profile what its runs share.
LEMMA HoldingOf ==
  /\ \A u \in Threads : Holding[u] = Holds(u)
  /\ \A q \in Profiles : Holding[q] = Grant("shared", {q} \intersect busy)
BY GateAssumption DEF Holding

\* One thread, and nothing that it holds, changes.
LEMMA SameHolding ==
  ASSUME UNCHANGED busy,
         \A u \in Threads : Holds(u)' = Holds(u)
  PROVE  UNCHANGED Holding
BY DEF Holding

\* A thread that holds nothing acquires what nobody is in the way of.
LEMMA Acquires ==
  ASSUME NEW t \in Threads, UNCHANGED busy,
         \A u \in Threads \ {t} : thread'[u] = thread[u],
         Holds(t) = Lock!Free, Holds(t)' \in Lock!Grants,
         \A u \in Threads \ {t} : Lock!Compatible(Holds(t)', Holds(u)),
         \A q \in Profiles : Lock!Compatible(Holds(t)', Grant("shared", {q} \intersect busy))
  PROVE  Lock!Next
<1>1. PICK g \in Lock!Grants : g = Holds(t)'
  OBVIOUS
<1>2. Holding' = [Holding EXCEPT ![t] = g]
  BY <1>1, OneHolder
<1>3. Holding[t] = Lock!Free
  BY HoldingOf
<1>4. \A o \in (Threads \union Profiles) \ {t} : Lock!Compatible(g, Holding[o])
  BY <1>1, HoldingOf
<1> QED BY <1>1, <1>2, <1>3, <1>4 DEF Lock!Next, Lock!Acquire

\* A thread that comes to hold nothing releases.
LEMMA Releases ==
  ASSUME NEW t \in Threads, UNCHANGED busy,
         \A u \in Threads \ {t} : thread'[u] = thread[u],
         Holds(t)' = Lock!Free
  PROVE  Lock!Next
<1>1. Holding' = [Holding EXCEPT ![t] = Lock!Free]
  BY OneHolder
<1>2. Holding = [h \in Threads \union Profiles |-> Holding[h]]
  BY DEF Holding
<1>3. Lock!Release({t})
  BY <1>1, <1>2 DEF Lock!Release
<1>4. {t} \in SUBSET (Threads \union Profiles)
  OBVIOUS
<1> QED BY <1>3, <1>4 DEF Lock!Next

\* Initially nobody holds anything.
LEMMA LockInit ==
  ASSUME Init
  PROVE  Lock!Init
<1>1. \A t \in Threads : Holds(t) = Lock!Free
  BY DEF Init, Idle, Holds, Grant, Mutations, Lock!Free
<1>2. \A q \in Profiles : Grant("shared", {q} \intersect busy) = Lock!Free
  BY DEF Init, Grant, Lock!Free
<1> QED BY <1>1, <1>2 DEF Holding, Lock!Init

\* Every step of the gate acquires, releases or leaves who holds what alone.
LEMMA LockStep ==
  ASSUME Inductive, [Next]_vars
  PROVE  [Lock!Next]_Holding
<1> USE DEF Inductive
<1>1. ASSUME NEW t \in Threads, Walk(t) PROVE UNCHANGED Holding
  BY <1>1, WalkKeeps, SameHolding DEF Holds
<1>2. ASSUME NEW t \in Threads, Pass(t) PROVE [Lock!Next]_Holding
  <2>0. \A u \in Threads \ {t} : thread'[u] = thread[u]
    BY <1>2, PassKeeps
  <2>1. ASSUME NEW p \in Profiles, EnterOperation(t, p) PROVE Lock!Next
    <3>1. /\ thread'[t].op = "read" /\ thread'[t].profile = p /\ UNCHANGED busy
          /\ thread[t].op = "none"
      BY <2>1 DEF EnterOperation, Idle, TypeOK
    <3>2. \A u \in Threads : ~Mutates(u, p) /\ thread[u].op # "reset"
      BY <2>1, GateMeaning DEF EnterOperation
    <3>3. Holds(t) = Lock!Free /\ Holds(t)' = Grant("shared", {p})
      BY <3>1 DEF Holds, Grant, Lock!Free, Mutations
    <3>4. \A u \in Threads : Lock!Compatible(Grant("shared", {p}), Holds(u))
      BY <3>2 DEF Holds, Grant, Mutates, Lock!Compatible
    <3>5. \A S : Lock!Compatible(Grant("shared", {p}), Grant("shared", S))
      BY DEF Grant, Lock!Compatible
    <3>6. Grant("shared", {p}) \in Lock!Grants
      BY DEF Grant, Lock!Grants, Lock!Modes
    <3> QED BY <2>0, <3>1, <3>3, <3>4, <3>5, <3>6, Acquires
  <2>2. ASSUME NEW p \in Profiles, NEW op \in Mutations, EnterMutation(t, p, op)
        PROVE  Lock!Next
    <3>1. /\ thread'[t].op = op /\ thread'[t].profile = p /\ UNCHANGED busy
          /\ thread[t].op = "none" /\ p \notin busy
      BY <2>2 DEF EnterMutation, Idle, TypeOK
    <3>2. \A u \in Threads : ~Mutates(u, p) /\ ~Reads(u, p) /\ thread[u].op # "reset"
      BY <2>2, GateMeaning DEF EnterMutation
    <3>3. Holds(t) = Lock!Free /\ Holds(t)' = Grant("alone", {p})
      BY <3>1 DEF Holds, Grant, Lock!Free, Mutations
    <3>4. \A u \in Threads : Lock!Compatible(Grant("alone", {p}), Holds(u))
      BY <3>2 DEF Holds, Grant, Mutates, Reads, Lock!Compatible
    <3>5. \A q \in Profiles :
            Lock!Compatible(Grant("alone", {p}), Grant("shared", {q} \intersect busy))
      BY <3>1 DEF Grant, Lock!Compatible
    <3>6. Grant("alone", {p}) \in Lock!Grants
      BY DEF Grant, Lock!Grants, Lock!Modes
    <3> QED BY <2>0, <3>1, <3>3, <3>4, <3>5, <3>6, Acquires
  <2>3. CASE EnterReset(t)
    <3>1. /\ thread'[t].op = "reset" /\ UNCHANGED busy
          /\ thread[t].op = "none" /\ busy = {}
      BY <2>3 DEF EnterReset, Idle, TypeOK
    <3>2. \A u \in Threads : thread[u].op \notin Mutations \union {"read", "reset"}
      BY <2>3, GateMeaning DEF EnterReset, Reads, Mutates, PcsFit, Fits
    <3>3. Holds(t) = Lock!Free /\ Holds(t)' = Grant("alone", Profiles)
      BY <3>1 DEF Holds, Grant, Lock!Free, Mutations
    <3>4. \A u \in Threads : Lock!Compatible(Grant("alone", Profiles), Holds(u))
      BY <3>2 DEF Holds, Grant, Lock!Compatible
    <3>5. \A q \in Profiles :
            Lock!Compatible(Grant("alone", Profiles), Grant("shared", {q} \intersect busy))
      BY <3>1 DEF Grant, Lock!Compatible
    <3>6. Grant("alone", Profiles) \in Lock!Grants
      BY DEF Grant, Lock!Grants, Lock!Modes
    <3> QED BY <2>0, <3>1, <3>3, <3>4, <3>5, <3>6, Acquires
  <2>4. CASE LeaveOperation(t) \/ LeaveMutation(t) \/ LeaveReset(t)
    <3>1. thread'[t].op = "none" /\ UNCHANGED busy
      BY <2>4 DEF LeaveOperation, LeaveMutation, LeaveReset, Returns, Idle, TypeOK
    <3>2. Holds(t)' = Lock!Free
      BY <3>1 DEF Holds, Grant, Mutations, Lock!Free
    <3> QED BY <2>0, <3>1, <3>2, Releases
  <2>5. ASSUME NEW p \in Profiles, CheckStart(t, p) PROVE UNCHANGED Holding
    <3>1. thread[t].op = "none" /\ thread'[t].op = "start" /\ UNCHANGED busy
      BY <2>5 DEF CheckStart, Idle, TypeOK
    <3>2. \A u \in Threads : Holds(u)' = Holds(u)
      BY <2>0, <3>1 DEF Holds, Mutations
    <3> QED BY <3>1, <3>2, SameHolding
  <2>6. CASE DiscardMark(t) \/ RefuseStart(t)
    <3>1. thread[t].op = "start" /\ thread'[t].op = "none" /\ UNCHANGED busy
      BY <2>6 DEF DiscardMark, RefuseStart, At, Returns, Idle, TypeOK
    <3>2. \A u \in Threads : Holds(u)' = Holds(u)
      BY <2>0, <3>1 DEF Holds, Mutations
    <3> QED BY <3>1, <3>2, SameHolding
  <2>7. CASE Enqueue(t)
    <3>1. PICK p \in Profiles : p = thread[t].profile
      BY <2>7 DEF Enqueue, Accept, At, PcsFit, Fits
    <3>2. /\ thread[t].op = "start" /\ thread'[t].op = "none"
          /\ busy' = busy \union {p} /\ ~Blocked(p)
      BY <2>7, <3>1 DEF Enqueue, Accept, At, Returns, Idle, TypeOK
    <3>3. \A u \in Threads : Holds(u)' = Holds(u)
      BY <2>0, <3>2 DEF Holds, Mutations
    <3>4. CASE p \in busy
      <4>1. UNCHANGED busy
        BY <3>2, <3>4 DEF TypeOK
      <4> QED BY <3>3, <4>1, SameHolding
    <3>5. CASE p \notin busy
      <4>1. \A u \in Threads : ~Mutates(u, p) /\ thread[u].op # "reset"
        BY <3>2, GateMeaning DEF Blocked
      <4>2. /\ Holding[p] = Lock!Free
            /\ Holding' = [Holding EXCEPT ![p] = Grant("shared", {p})]
        BY <3>2, <3>3, <3>5, GateAssumption DEF Holding, Grant, Lock!Free
      <4>3. \A u \in Threads : Lock!Compatible(Grant("shared", {p}), Holds(u))
        BY <4>1 DEF Holds, Grant, Mutates, Lock!Compatible
      <4>4. \A o \in (Threads \union Profiles) \ {p} :
              Lock!Compatible(Grant("shared", {p}), Holding[o])
        <5>1. ASSUME NEW o \in Threads
              PROVE  Lock!Compatible(Grant("shared", {p}), Holding[o])
          BY <4>3, HoldingOf
        <5>2. ASSUME NEW o \in Profiles
              PROVE  Lock!Compatible(Grant("shared", {p}), Holding[o])
          <6>1. Holding[o] = Grant("shared", {o} \intersect busy)
            BY HoldingOf
          <6> QED BY <6>1 DEF Grant, Lock!Compatible
        <5> QED BY <5>1, <5>2
      <4>5. Grant("shared", {p}) \in Lock!Grants
        BY DEF Grant, Lock!Grants, Lock!Modes
      <4>6. Lock!Acquire(p)
        BY <4>2, <4>4, <4>5 DEF Lock!Acquire
      <4> QED BY <4>6 DEF Lock!Next
    <3> QED BY <3>4, <3>5
  <2> QED BY <1>2, <2>1, <2>2, <2>3, <2>4, <2>5, <2>6, <2>7 DEF Pass, Starting
<1>3. CASE RunsEnd
  <2>1. PICK ended \in SUBSET busy : busy' = busy \ ended
    BY <1>3 DEF RunsEnd
  <2>2. UNCHANGED thread
    BY <1>3 DEF RunsEnd
  <2>3. \A u \in Threads : Holds(u)' = Holds(u)
    BY <2>2 DEF Holds
  <2>4. ended \subseteq Profiles /\ ended \intersect Threads = {}
    BY GateAssumption DEF TypeOK
  <2>5. Lock!Release(ended)
    BY <2>1, <2>3, <2>4 DEF Lock!Release, Lock!Free, Holding, Grant
  <2> QED BY <2>4, <2>5 DEF Lock!Next
<1>4. CASE UNCHANGED vars
  BY <1>4, SameHolding DEF vars, Holds
<1> QED BY <1>1, <1>2, <1>3, <1>4, NextSplits

\* The counters and flags implement a lock over sets of profiles: entering is
\* an acquisition compatible with what everybody else holds.
THEOREM GateIsLock == Spec => IsLock
<1>1. Init => Lock!Init
  BY LockInit
<1>2. Inductive /\ [Next]_vars => [Lock!Next]_Holding
  BY LockStep
<1> QED BY <1>1, <1>2, GateInductive, PTL DEF Spec, IsLock, Lock!Spec

=============================================================================
