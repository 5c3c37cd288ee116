------------------------- MODULE RunRecoveryProofs -------------------------
(***************************************************************************)
(* Proofs, for any finite set of runs and any number of crashes, that the  *)
(* artifact and the index agree at every instant, that an outcome on the   *)
(* disk is final, and that no unfinished run is without one who will       *)
(* finish it.                                                              *)
(***************************************************************************)
EXTENDS RunRecovery, FiniteSetTheorems, SequenceTheorems, TLAPS

(* The inductive invariant. *)

\* The artifacts there are: the status says which ending the file holds.
Rows == {"none"} \union Active \union Terminal
Endings(s) == IF s \in Terminal THEN <<s>> ELSE << >>
Known ==
  {a \in [status : Rows, ends : {<< >>} \union {<<s>> : s \in Terminal}, whole : BOOLEAN] :
     a.ends = Endings(a.status) /\ (a.status = "none" => a.whole)}
Disks ==
  [artifact : [Runs -> Known], index : [Runs -> Rows], quarantine : SUBSET Runs,
   indexed : BOOLEAN, torn : SUBSET Runs]

\* index.json exists.
HasIndex(d) == d.indexed

\* A disk whose two files agree. Without the index there are no rows, and all
\* that is left is what the reset has left.
Sound(d) ==
  /\ d \in Disks
  /\ \A r \in Runs :
       /\ d.index[r] \in Terminal /\ Readable(d.artifact[r]) =>
            d.artifact[r].status = d.index[r]
       /\ d.index[r] = "none" /\ r \notin d.torn =>
            r \notin d.quarantine /\ d.artifact[r].status \in {"none", "queued"}
  /\ ~HasIndex(d) =>
       \A r \in Runs : d.index[r] = "none" /\ (r \in Content(d) => r \in d.torn)

\* A disk that has nothing of a run outside m.
Blank(d, m) ==
  \A r \in Runs \ m :
    d.artifact[r] = NoArtifact /\ d.index[r] = "none" /\ r \notin d.quarantine

\* The disk contents s lead from d through sound ones only, and lose no outcome.
Before(d, s, i) == IF i = 1 THEN d ELSE s[i - 1]
Plan(d, s, m) ==
  /\ s \in Seq(Disks)
  /\ \A i \in 1..Len(s) : Sound(s[i]) /\ Blank(s[i], m) /\ Keeps(Before(d, s, i), s[i])

\* Where they lead, and the runs whose row is active there.
Goal(d, s) == IF s = << >> THEN d ELSE s[Len(s)]
OpenRows(d) == {r \in Runs : d.index[r] \in Active}

\* The contents s leave the runs of R as they are in d, and the index where it is.
Spares(d, s, R) ==
  \A i \in 1..Len(s), r \in R :
    /\ s[i].artifact[r] = d.artifact[r]
    /\ s[i].index[r] = d.index[r]
    /\ (HasIndex(s[i]) <=> HasIndex(d))

\* The runs the service holds, and those whose holder was refused by the store.
Held == live \union dropped

\* The runs that wait for a password, but for those of the profiles in K.
Waiting(K) == {r \in deferred : Owner[r] \in Protected \ K}

\* Where the operation leads to, a run of Held that can be read is unfinished,
\* and so is its row, if there is an index.
OpenIn(g, r) ==
  Readable(g.artifact[r]) =>
    /\ g.artifact[r].ends = << >>
    /\ g.index[r] \in Active \/ ~HasIndex(g)
LiveIsOpen == \A r \in Held : OpenIn(Goal(disk, writes), r)

\* There, a run that was dropped has a password to wait for, or no file.
DroppedIsLeft ==
  \A r \in dropped : Owner[r] \in Protected \/ ~Readable(Goal(disk, writes).artifact[r])

\* At the end of the operation every active row is held.
GhostsHeld ==
  state # "down" => OpenRows(Goal(disk, writes)) \subseteq Held \union Waiting(keys)

\* While a profile is unlocked the runs of that profile still wait, so a
\* failure leaves them with their password.
UnlockWaits ==
  job.op = "unlock" =>
    /\ job.for \in keys
    /\ OpenRows(disk) \subseteq Held \union Waiting(keys \ {job.for})
    /\ \A i \in 1..Len(writes) :
         OpenRows(writes[i]) \subseteq Held \union Waiting(keys \ {job.for})

\* A recovery touches none of the runs of Held.
HeldIsSpared == job.op \in {"recover", "unlock"} => Spares(disk, writes, Held)

\* Nothing of a process that died is left, and one that starts holds no run.
Stopped ==
  /\ state = "down" => writes = << >> /\ keys = {} /\ deferred = {}
  /\ state # "up" => live = {} /\ dropped = {} /\ keys = {} /\ job.op # "unlock"
  /\ state = "starting" => writes # << >>

Parts ==
  /\ job.op \in {"none", "create", "mark", "finish", "recover", "unlock", "delete"}
  /\ job.op = "none" <=> writes = << >>
  /\ state \in {"down", "starting", "up"}
  /\ live \subseteq made /\ made \subseteq Runs
  /\ withdrawn \subseteq live /\ dropped \subseteq made \ live
  /\ resetting \in BOOLEAN
  /\ keys \subseteq Protected
  /\ deferred \subseteq made \ Held
  /\ faults \in 0..MaxFaults

IInv ==
  /\ Parts
  /\ Sound(disk) /\ Blank(disk, made)
  /\ Plan(disk, writes, made)
  /\ LiveIsOpen /\ DroppedIsLeft /\ GhostsHeld /\ UnlockWaits /\ HeldIsSpared /\ Stopped

-----------------------------------------------------------------------------
(* What a sound disk is. *)

\* Its status says which ending an artifact holds.
LEMMA KnownArtifacts ==
  ASSUME NEW a \in Known
  PROVE  /\ a.status \in Rows /\ a.whole \in BOOLEAN
         /\ a.ends # << >> <=> a.status \in Terminal
         /\ a.status \in Terminal => a.ends = <<a.status>> /\ Len(a.ends) = 1
         /\ a.status \notin Terminal => a.ends = << >>
         /\ a.status = "none" => a.whole
         /\ a = NoArtifact <=> a.status = "none"
         /\ a \in Artifact
<1> USE DEF Rows
<1>1. /\ a \in [status : Rows, ends : {<< >>} \union {<<s>> : s \in Terminal}, whole : BOOLEAN]
      /\ a.ends = Endings(a.status) /\ (a.status = "none" => a.whole)
  BY DEF Known
<1>2. \A s : <<s>> # << >> /\ Len(<<s>>) = 1
  OBVIOUS
<1>3. "none" \notin Active \union Terminal
  BY DEF Active, Terminal
<1>4. \A s \in Terminal : <<s>> \in Seq(Terminal)
  OBVIOUS
<1>5. << >> \in Seq(Terminal)
  OBVIOUS
<1>6. a.ends \in Seq(Terminal)
  BY <1>1, <1>4, <1>5
<1>7. a = NoArtifact <=> a.status = "none"
  BY <1>1, <1>3 DEF NoArtifact, Endings
<1>8. a \in Artifact
  BY <1>1, <1>6, <1>7 DEF Artifact
<1> QED BY <1>1, <1>2, <1>7, <1>8 DEF Endings

\* The artifacts the store writes.
LEMMA WrittenArtifacts ==
  /\ NoArtifact \in Known /\ FailedArtifact \in Known
  /\ \A a \in Known, s \in Active :
       a.status \notin Terminal =>
         [a EXCEPT !.status = s] \in Known
  /\ \A a \in Known, s \in Terminal :
       a.ends = << >> =>
         [a EXCEPT !.status = s, !.ends = Append(@, s)] \in Known
  /\ \A a \in Known :
       a.status # "none" => [a EXCEPT !.whole = FALSE] \in Known
<1> USE DEF Rows
<1>1. "none" \notin Active \union Terminal /\ Active \intersect Terminal = {} /\ "failed" \in Terminal
  BY DEF Active, Terminal
<1>2. NoArtifact \in Known
  BY <1>1 DEF NoArtifact, Known, Endings
<1>3. FailedArtifact \in Known
  BY <1>1 DEF FailedArtifact, Known, Endings
<1>4. ASSUME NEW a \in Known, NEW s \in Active, a.status \notin Terminal
      PROVE  [a EXCEPT !.status = s] \in Known
  BY <1>1, <1>4 DEF Known, Endings
<1>5. ASSUME NEW a \in Known, NEW s \in Terminal, a.ends = << >>
      PROVE  [a EXCEPT !.status = s, !.ends = Append(@, s)] \in Known
  <2>1. Append(a.ends, s) = <<s>>
    BY <1>5
  <2>2. [a EXCEPT !.status = s, !.ends = Append(@, s)] = [a EXCEPT !.status = s, !.ends = <<s>>]
    BY <2>1
  <2>3. [a EXCEPT !.status = s, !.ends = <<s>>] \in Known
    BY <1>1 DEF Known, Endings
  <2> QED BY <2>2, <2>3
<1>6. ASSUME NEW a \in Known, a.status # "none"
      PROVE  [a EXCEPT !.whole = FALSE] \in Known
  BY <1>6 DEF Known
<1> QED BY <1>2, <1>3, <1>4, <1>5, <1>6

\* A sound disk has what the invariants of the runs say of it.
LEMMA SoundDisks ==
  ASSUME NEW d, Sound(d)
  PROVE  DiskType(d) /\ OneEnding(d) /\ IndexFollows(d) /\ ContentIsReachable(d)
<1>1. \A r \in Runs : d.artifact[r] \in Known /\ d.index[r] \in Rows
  BY DEF Sound, Disks
<1>2. ASSUME NEW r \in Runs
      PROVE  /\ d.artifact[r].status \in Terminal <=> d.artifact[r].ends # << >>
             /\ Len(d.artifact[r].ends) <= 1
             /\ d.artifact[r] \in Artifact
             /\ d.artifact[r].status \in Terminal =>
                  d.artifact[r].ends = <<d.artifact[r].status>>
  BY <1>1, KnownArtifacts
<1>3. DiskType(d)
  BY <1>1, <1>2 DEF Sound, Disks, DiskType, Rows
<1>4. OneEnding(d)
  BY <1>2 DEF OneEnding
<1>5. IndexFollows(d)
  BY <1>2 DEF Sound, IndexFollows
<1>6. ContentIsReachable(d)
  BY <1>2 DEF Sound, ContentIsReachable, Terminal
<1> QED BY <1>3, <1>4, <1>5, <1>6

\* Nothing is lost where the artifact and the row stay.
LEMMA SameKeeps ==
  ASSUME NEW d, NEW e,
         \A r \in Runs : /\ d.index[r] \in Terminal => e.index[r] \in {d.index[r], "none"}
                         /\ d.artifact[r].status \in Terminal => e.artifact[r] = d.artifact[r],
         d \in Disks
  PROVE  Keeps(d, e)
<1>1. ASSUME NEW r \in Runs, d.artifact[r].ends # << >>
      PROVE  d.artifact[r].status \in Terminal
  <2>1. d.artifact[r] \in Known
    BY DEF Disks
  <2> QED BY <2>1, <1>1, KnownArtifacts
<1> QED BY <1>1 DEF Keeps

\* A write takes the first of the planned contents and leaves a plan.
LEMMA PlanTail ==
  ASSUME NEW d, NEW s, NEW m, Plan(d, s, m), s # << >>
  PROVE  /\ Sound(Head(s)) /\ Blank(Head(s), m) /\ Keeps(d, Head(s))
         /\ Plan(Head(s), Tail(s), m)
         /\ Goal(Head(s), Tail(s)) = Goal(d, s)
         /\ Head(s) = s[1]
         /\ Tail(s) \in Seq(Disks) /\ Len(Tail(s)) = Len(s) - 1
         /\ \A i \in 1..Len(Tail(s)) : Tail(s)[i] = s[i + 1]
         /\ Len(s) \in Nat \ {0}
<1>1. s \in Seq(Disks) /\ Len(s) \in Nat \ {0}
  BY EmptySeq DEF Plan
<1>2. /\ Tail(s) \in Seq(Disks) /\ Len(Tail(s)) = Len(s) - 1
      /\ \A i \in 1..Len(Tail(s)) : Tail(s)[i] = s[i + 1]
  BY <1>1, HeadTailProperties
<1>3. Head(s) = s[1] /\ 1 \in 1..Len(s)
  BY <1>1
<1>4. Sound(Head(s)) /\ Blank(Head(s), m) /\ Keeps(d, Head(s))
  BY <1>3 DEF Plan, Before
<1>5. ASSUME NEW i \in 1..Len(Tail(s))
      PROVE  /\ Sound(Tail(s)[i]) /\ Blank(Tail(s)[i], m)
             /\ Keeps(Before(Head(s), Tail(s), i), Tail(s)[i])
  <2>1. i + 1 \in 1..Len(s) /\ i + 1 # 1 /\ Tail(s)[i] = s[i + 1]
    BY <1>1, <1>2
  <2>2. Sound(s[i + 1]) /\ Blank(s[i + 1], m) /\ Keeps(s[i + 1 - 1], s[i + 1])
    BY <2>1 DEF Plan, Before
  <2>3. Before(Head(s), Tail(s), i) = s[i]
    BY <1>1, <1>2, <1>3 DEF Before
  <2>4. i + 1 - 1 = i
    OBVIOUS
  <2> QED BY <2>1, <2>2, <2>3, <2>4
<1>6. Goal(Head(s), Tail(s)) = Goal(d, s)
  <2>1. CASE Len(s) = 1
    <3>1. Len(Tail(s)) = 0
      BY <2>1, <1>2
    <3>2. Tail(s) = << >>
      BY <1>2, <3>1, EmptySeq
    <3> QED BY <2>1, <3>2, <1>3 DEF Goal
  <2>2. CASE Len(s) # 1
    <3>1. Len(Tail(s)) \in 1..Len(Tail(s)) /\ Len(Tail(s)) # 0
      BY <2>2, <1>1, <1>2
    <3>3. Tail(s) # << >>
      BY <3>1, EmptySeq
    <3>2. Len(Tail(s)) + 1 = Len(s)
      BY <1>1, <1>2
    <3> QED BY <3>1, <3>2, <3>3, <1>2 DEF Goal
  <2> QED BY <2>1, <2>2
<1> QED BY <1>1, <1>2, <1>3, <1>4, <1>5, <1>6 DEF Plan

\* SetToSeq lists every element of a finite set.
LEMMA Listing ==
  ASSUME NEW S, IsFiniteSet(S)
  PROVE  /\ SetToSeq(S) \in Seq(S)
         /\ \A x \in S : \E i \in 1..Len(SetToSeq(S)) : SetToSeq(S)[i] = x
         /\ Len(SetToSeq(S)) = Cardinality(S) /\ Cardinality(S) \in Nat
<1> DEFINE n == Cardinality(S)
           f == SetToSeq(S)
<1>1. n \in Nat /\ ExistsBijection(1..n, S)
  BY FS_CardinalityType
<1>2. \E g \in [1..n -> S] : IsInjective(g)
  BY <1>1 DEF ExistsBijection, Bijection, Injection
<1>3. f \in [1..n -> S] /\ IsInjective(f)
  BY <1>2 DEF SetToSeq
<1>4. f \in Injection(1..n, S)
  BY <1>3 DEF Injection
<1>5. IsFiniteSet(1..n) /\ Cardinality(1..n) = n
  BY <1>1, FS_Interval
<1>6. f \in Surjection(1..n, S)
  BY <1>4, <1>5, FS_Injection
<1>7. f \in Seq(S) /\ Len(f) = n
  BY <1>1, <1>3
<1> QED BY <1>1, <1>6, <1>7 DEF Surjection

-----------------------------------------------------------------------------
(* What the operations put on the disk. *)

\* A known artifact is filed on a disk.
LEMMA FiledParts ==
  ASSUME NEW d \in Disks, NEW r \in Runs, NEW a \in Known
  PROVE  /\ Filed(d, r, a) \in Disks
         /\ Filed(d, r, a).index = d.index /\ Filed(d, r, a).quarantine = d.quarantine
         /\ Filed(d, r, a).artifact = [d.artifact EXCEPT ![r] = a]
         /\ (HasIndex(Filed(d, r, a)) <=> HasIndex(d)) /\ Filed(d, r, a).torn = d.torn
BY DEF Disks, Filed, HasIndex

\* A row is written on a disk.
LEMMA ListedParts ==
  ASSUME NEW d \in Disks, NEW r \in Runs, NEW x \in Rows
  PROVE  /\ Listed(d, r, x) \in Disks
         /\ Listed(d, r, x).artifact = d.artifact
         /\ Listed(d, r, x).quarantine = d.quarantine
         /\ Listed(d, r, x).index = [d.index EXCEPT ![r] = x]
         /\ (HasIndex(Listed(d, r, x)) <=> HasIndex(d)) /\ Listed(d, r, x).torn = d.torn
BY DEF Disks, Listed, HasIndex

\* A plan of two contents.
LEMMA PlanOfTwo ==
  ASSUME NEW d, NEW e \in Disks, NEW f \in Disks, NEW m,
         Sound(e), Sound(f), Blank(e, m), Blank(f, m), Keeps(d, e), Keeps(e, f)
  PROVE  Plan(d, <<e, f>>, m) /\ Goal(d, <<e, f>>) = f /\ <<e, f>> # << >>
<1>1. <<e, f>> \in Seq(Disks) /\ Len(<<e, f>>) = 2 /\ <<e, f>>[1] = e /\ <<e, f>>[2] = f
  OBVIOUS
<1>2. \A i \in 1..2 : i = 1 \/ i = 2
  OBVIOUS
<1>3. Before(d, <<e, f>>, 1) = d /\ Before(d, <<e, f>>, 2) = e
  BY <1>1 DEF Before
<1>4. <<e, f>> # << >>
  OBVIOUS
<1> QED BY <1>1, <1>2, <1>3, <1>4 DEF Plan, Goal

\* A plan of one content.
LEMMA PlanOfOne ==
  ASSUME NEW d, NEW e \in Disks, NEW m, Sound(e), Blank(e, m), Keeps(d, e)
  PROVE  Plan(d, <<e>>, m) /\ Goal(d, <<e>>) = e /\ <<e>> # << >>
<1>1. <<e>> \in Seq(Disks) /\ Len(<<e>>) = 1 /\ <<e>>[1] = e /\ <<e>> # << >>
  OBVIOUS
<1>2. \A i \in 1..1 : i = 1
  OBVIOUS
<1>3. Before(d, <<e>>, 1) = d
  BY DEF Before
<1> QED BY <1>1, <1>2, <1>3 DEF Plan, Goal

\* A save of a run that has not ended: the artifact is written before its row,
\* which is not written when the index is gone.
LEMMA SavePlan ==
  ASSUME NEW m, NEW r \in Runs, NEW a \in Known,
         Sound(disk), Blank(disk, m), r \in m, a.status # "none",
         disk.index[r] \notin Terminal, disk.artifact[r].ends = << >>,
         HasIndex(disk) /\ disk.index[r] = "none" => a.status = "queued",
         HasIndex(disk) \/ Readable(disk.artifact[r])
  PROVE  /\ Plan(disk, Save(r, a), m)
         /\ Save(r, a) # << >>
         /\ Goal(disk, Save(r, a)).artifact = [disk.artifact EXCEPT ![r] = a]
         /\ Goal(disk, Save(r, a)).index =
              IF HasIndex(disk) THEN [disk.index EXCEPT ![r] = a.status] ELSE disk.index
         /\ (HasIndex(Goal(disk, Save(r, a))) <=> HasIndex(disk))
<1> DEFINE e == Filed(disk, r, a)
           f == Listed(e, r, a.status)
<1>1. disk \in Disks /\ a.status \in Rows
  BY KnownArtifacts DEF Sound
<1>2. /\ e \in Disks /\ e.index = disk.index /\ e.quarantine = disk.quarantine
      /\ (HasIndex(e) <=> HasIndex(disk)) /\ e.torn = disk.torn
      /\ e.artifact = [disk.artifact EXCEPT ![r] = a]
  BY <1>1, FiledParts
<1>3. /\ f \in Disks /\ f.artifact = e.artifact /\ f.quarantine = disk.quarantine
      /\ (HasIndex(f) <=> HasIndex(disk)) /\ f.torn = disk.torn
      /\ f.index = [disk.index EXCEPT ![r] = a.status]
  BY <1>1, <1>2, ListedParts
<1>4. \A q \in Runs : /\ e.artifact[q] = IF q = r THEN a ELSE disk.artifact[q]
                      /\ f.index[q] = IF q = r THEN a.status ELSE disk.index[q]
  BY <1>1, <1>2, <1>3 DEF Disks
<1>5. disk.artifact[r].status \notin Terminal
  BY <1>1, KnownArtifacts DEF Disks
<1> HIDE DEF e, f
<1>6. Sound(e)
  <2>1. ~HasIndex(disk) => \A q \in Runs : q \in Content(e) => q \in e.torn
    BY <1>2, <1>4 DEF Sound, Content, Readable
  <2>2. \A q \in Runs :
          /\ e.index[q] \in Terminal /\ Readable(e.artifact[q]) =>
               e.artifact[q].status = e.index[q]
          /\ e.index[q] = "none" /\ q \notin e.torn =>
               q \notin e.quarantine /\ e.artifact[q].status \in {"none", "queued"}
    <3>1. ASSUME NEW q \in Runs, q # r
          PROVE  e.artifact[q] = disk.artifact[q]
      BY <1>4, <3>1
    <3>2. ~HasIndex(disk) => r \in disk.torn
      BY DEF Sound, Content, Readable
    <3> QED BY <1>2, <1>4, <3>1, <3>2 DEF Sound
  <2> QED BY <1>2, <2>1, <2>2 DEF Sound
<1>8. Blank(e, m) /\ Blank(f, m)
  BY <1>2, <1>3, <1>4 DEF Blank
<1>9. Keeps(disk, e)
  <2>1. ASSUME NEW q \in Runs
        PROVE  /\ disk.index[q] \in Terminal => e.index[q] \in {disk.index[q], "none"}
               /\ disk.artifact[q].status \in Terminal => e.artifact[q] = disk.artifact[q]
    BY <1>2, <1>4, <1>5
  <2> QED BY <1>1, <2>1, SameKeeps
<1>10. CASE HasIndex(disk)
  <2>1. Sound(f)
    BY <1>3, <1>4, <1>10 DEF Sound
  <2>2. Keeps(e, f)
    <3>1. ASSUME NEW q \in Runs
          PROVE  /\ e.index[q] \in Terminal => f.index[q] \in {e.index[q], "none"}
                 /\ e.artifact[q].status \in Terminal => f.artifact[q] = e.artifact[q]
      BY <1>2, <1>3, <1>4
    <3>2. e \in Disks
      BY <1>2
    <3> QED BY <3>1, <3>2, SameKeeps
  <2>3. Plan(disk, <<e, f>>, m) /\ Goal(disk, <<e, f>>) = f /\ <<e, f>> # << >>
    BY <1>2, <1>3, <1>6, <2>1, <1>8, <1>9, <2>2, PlanOfTwo
  <2>4. Save(r, a) = <<e, f>>
    BY <1>10 DEF Save, e, f, HasIndex
  <2> QED BY <1>2, <1>3, <1>10, <2>3, <2>4
<1>11. CASE ~HasIndex(disk)
  <2>1. Plan(disk, <<e>>, m) /\ Goal(disk, <<e>>) = e /\ <<e>> # << >>
    BY <1>2, <1>6, <1>8, <1>9, PlanOfOne
  <2>2. Save(r, a) = <<e>>
    BY <1>11 DEF Save, e, HasIndex
  <2> QED BY <1>2, <1>11, <2>1, <2>2
<1> QED BY <1>10, <1>11

\* A repair believes an ending, and always leaves one.
LEMMA Repairs ==
  ASSUME NEW a \in Known
  PROVE  /\ Repaired(a) \in Known
         /\ Repaired(a).status \in Terminal
         /\ Readable(Repaired(a))
         /\ Readable(a) /\ a.status \in Terminal => Repaired(a) = a
         /\ ~Readable(a) => Repaired(a).status = "failed"
<1> USE DEF Terminal
<1>1. a.ends # << >> <=> a.status \in Terminal
  BY KnownArtifacts
<1>2. CASE Readable(a) /\ a.ends # << >>
  BY <1>1, <1>2 DEF Repaired
<1>3. CASE Readable(a) /\ a.ends = << >>
  <2>1. Repaired(a) = [a EXCEPT !.status = "failed", !.ends = Append(@, "failed")]
    BY <1>3 DEF Repaired, RepairedAsFailed
  <2>2. Repaired(a) \in Known
    BY <2>1, <1>3, WrittenArtifacts
  <2>3. Repaired(a).status = "failed" /\ Repaired(a).whole = a.whole
    BY <2>1 DEF Known
  <2> QED BY <2>2, <2>3, <1>1, <1>3 DEF Readable
<1>4. CASE ~Readable(a)
  BY <1>4, WrittenArtifacts DEF Repaired, RepairedAsFailed, FailedArtifact, Readable
<1> QED BY <1>2, <1>3, <1>4

\* The disk in the middle of a recovery: its rows are those it began with, and
\* an artifact is the one it was, the repaired one, or gone if it was damaged.
LEMMA HalfwayParts ==
  ASSUME NEW d, Sound(d), NEW order \in Seq(Runs), NEW k \in Nat, NEW kept, NEW lost,
         NEW h, h = Halfway(d, order, k, kept, lost)
  PROVE  /\ h \in Disks /\ h.index = d.index /\ (HasIndex(h) <=> HasIndex(d)) /\ h.torn = d.torn
         /\ \A r \in Runs : (\A i \in 1..Len(order) : order[i] # r) =>
              h.artifact[r] = d.artifact[r] /\ (r \in h.quarantine <=> r \in d.quarantine)
         /\ \A r \in Runs :
                         \/ h.artifact[r] = d.artifact[r]
                         \/ h.artifact[r] = Repaired(d.artifact[r])
                         \/ h.artifact[r] = NoArtifact /\ ~d.artifact[r].whole
<1> DEFINE Reached(r, half) == \E i \in 1..Len(order) : order[i] = r /\ 2 * i - half <= k
           Bad(r) == ~d.artifact[r].whole
           Art(r) ==
             IF ~Reached(r, 1) \/ (r \in kept /\ Bad(r)) THEN d.artifact[r]
             ELSE IF Bad(r) /\ (r \in lost \/ ~Reached(r, 0)) THEN NoArtifact
             ELSE IF Reached(r, 0) THEN Repaired(d.artifact[r])
             ELSE d.artifact[r]
           arts == [r \in Runs |-> Art(r)]
           moved == {r \in Runs \ kept : Bad(r) /\ Reached(r, 1)}
<1>1. h = [d EXCEPT !.artifact = arts, !.quarantine = @ \union moved]
  BY DEF Halfway
<1>2. ASSUME NEW r, \A i \in 1..Len(order) : order[i] # r
      PROVE  \A half : ~Reached(r, half)
  BY <1>2
<1>3. d \in Disks
  BY DEF Sound
<1>4. \A r \in Runs : d.artifact[r] \in Known /\ Repaired(d.artifact[r]) \in Known
  BY <1>3, Repairs DEF Disks
<1>5. NoArtifact \in Known
  BY WrittenArtifacts
<1> HIDE DEF Reached
<1>6. \A r \in Runs : Art(r) \in Known
  BY <1>4, <1>5
<1>7. arts \in [Runs -> Known] /\ moved \in SUBSET Runs
  BY <1>6
<1>8. /\ h \in Disks /\ h.index = d.index /\ (HasIndex(h) <=> HasIndex(d)) /\ h.torn = d.torn
      /\ h.artifact = arts /\ h.quarantine = d.quarantine \union moved
  <2> HIDE DEF arts, moved
  <2> QED BY <1>1, <1>3, <1>7 DEF Disks, HasIndex
<1>9. ASSUME NEW r \in Runs, \A i \in 1..Len(order) : order[i] # r
      PROVE  h.artifact[r] = d.artifact[r] /\ (r \in h.quarantine <=> r \in d.quarantine)
  BY <1>2, <1>8, <1>9
<1>10. ASSUME NEW r \in Runs
       PROVE  \/ h.artifact[r] = d.artifact[r]
              \/ h.artifact[r] = Repaired(d.artifact[r])
              \/ h.artifact[r] = NoArtifact /\ ~d.artifact[r].whole
  BY <1>8
<1> QED BY <1>8, <1>9, <1>10

\* What the recovery has repaired stays repaired.
LEMMA HalfwayOn ==
  ASSUME NEW d, Sound(d), NEW order \in Seq(Runs), NEW k \in Nat, NEW kept, NEW lost,
         NEW h, h = Halfway(d, order, k, kept, lost),
         NEW g, g = Halfway(d, order, k + 1, kept, lost)
  PROVE  Keeps(h, g)
<1> DEFINE Reached(r, half, n) == \E i \in 1..Len(order) : order[i] = r /\ 2 * i - half <= n
           Bad(r) == ~d.artifact[r].whole
           Art(r, n) ==
             IF ~Reached(r, 1, n) \/ (r \in kept /\ Bad(r)) THEN d.artifact[r]
             ELSE IF Bad(r) /\ (r \in lost \/ ~Reached(r, 0, n)) THEN NoArtifact
             ELSE IF Reached(r, 0, n) THEN Repaired(d.artifact[r])
             ELSE d.artifact[r]
           arts(n) == [r \in Runs |-> Art(r, n)]
           moved(n) == {r \in Runs \ kept : Bad(r) /\ Reached(r, 1, n)}
<1>1. /\ h = [d EXCEPT !.artifact = arts(k), !.quarantine = @ \union moved(k)]
      /\ g = [d EXCEPT !.artifact = arts(k + 1), !.quarantine = @ \union moved(k + 1)]
  BY DEF Halfway
<1>2. h \in Disks /\ h.index = d.index /\ d \in Disks
  BY HalfwayParts DEF Sound
<1>3. g.index = d.index
  <2>1. k + 1 \in Nat
    OBVIOUS
  <2> QED BY <2>1, HalfwayParts
<1>4. h.artifact = arts(k) /\ g.artifact = arts(k + 1)
  <2> HIDE DEF arts, moved
  <2> QED BY <1>1, <1>2 DEF Disks
<1>5. \A r \in Runs : h.artifact[r] = Art(r, k) /\ g.artifact[r] = Art(r, k + 1)
  BY <1>4
<1>6. \A r : /\ Reached(r, 0, k) => Reached(r, 0, k + 1) /\ Reached(r, 1, k)
             /\ Reached(r, 1, k) => Reached(r, 1, k + 1)
  <2>1. Len(order) \in Nat
    OBVIOUS
  <2> QED BY <2>1
<1> HIDE DEF Reached
<1>7. ASSUME NEW r \in Runs, Readable(h.artifact[r]), h.artifact[r].status \in Terminal
      PROVE  g.artifact[r] = h.artifact[r] \/ ~Readable(g.artifact[r])
  <2>1. NoArtifact.status = "none"
    BY DEF NoArtifact
  <2>2. d.artifact[r] \in Known
    BY <1>2 DEF Disks
  <2>3. Readable(d.artifact[r]) /\ d.artifact[r].status \in Terminal
           => Repaired(d.artifact[r]) = d.artifact[r]
    BY <2>2, Repairs
  <2> QED BY <1>5, <1>6, <1>7, <2>1, <2>3 DEF Readable, Terminal
<1>8. ASSUME NEW r \in Runs, h.artifact[r].ends # << >>
      PROVE  h.artifact[r].status \in Terminal
  <2>1. h.artifact[r] \in Known
    BY <1>2 DEF Disks
  <2> QED BY <2>1, <1>8, KnownArtifacts
<1> QED BY <1>2, <1>3, <1>7, <1>8 DEF Keeps

\* When it has gone through all of its runs, each one that can be read is ended.
LEMMA HalfwayEnds ==
  ASSUME NEW d, Sound(d), NEW order \in Seq(Runs), NEW kept, NEW lost,
         NEW h, h = Halfway(d, order, 2 * Len(order), kept, lost),
         NEW r \in Runs, \E i \in 1..Len(order) : order[i] = r
  PROVE  \/ h.artifact[r] = Repaired(d.artifact[r])
         \/ ~Readable(h.artifact[r])
<1> DEFINE n == 2 * Len(order)
           Reached(q, half) == \E i \in 1..Len(order) : order[i] = q /\ 2 * i - half <= n
           Bad(q) == ~d.artifact[q].whole
           Art(q) ==
             IF ~Reached(q, 1) \/ (q \in kept /\ Bad(q)) THEN d.artifact[q]
             ELSE IF Bad(q) /\ (q \in lost \/ ~Reached(q, 0)) THEN NoArtifact
             ELSE IF Reached(q, 0) THEN Repaired(d.artifact[q])
             ELSE d.artifact[q]
           arts == [q \in Runs |-> Art(q)]
           moved == {q \in Runs \ kept : Bad(q) /\ Reached(q, 1)}
<1>1. h = [d EXCEPT !.artifact = arts, !.quarantine = @ \union moved]
  BY DEF Halfway
<1>2. h.artifact = arts
  <2> HIDE DEF arts, moved
  <2> QED BY <1>1 DEF Sound, Disks
<1>3. Reached(r, 0) /\ Reached(r, 1)
  <2>1. PICK i \in 1..Len(order) : order[i] = r
    OBVIOUS
  <2>2. Len(order) \in Nat
    OBVIOUS
  <2>3. 2 * i - 0 <= n /\ 2 * i - 1 <= n
    BY <2>2
  <2> QED BY <2>1, <2>3
<1> HIDE DEF Reached
<1>4. NoArtifact.status = "none"
  BY DEF NoArtifact
<1> QED BY <1>2, <1>3, <1>4 DEF Readable

\* The contents that an operation goes through before it writes the index.
LEMMA FilesThenIndex ==
  ASSUME NEW H \in Seq(Disks), NEW f \in Disks
  PROVE  /\ H \o <<f>> \in Seq(Disks)
         /\ Len(H \o <<f>>) = Len(H) + 1 /\ Len(H) \in Nat
         /\ \A i \in 1..Len(H) : (H \o <<f>>)[i] = H[i]
         /\ (H \o <<f>>)[Len(H) + 1] = f
<1>1. Len(H) \in Nat
  OBVIOUS
<1>2. <<f>> \in Seq(Disks) /\ Len(<<f>>) = 1 /\ <<f>>[1] = f
  OBVIOUS
<1>3. /\ H \o <<f>> \in Seq(Disks) /\ Len(H \o <<f>>) = Len(H) + 1
      /\ \A i \in 1..(Len(H) + 1) : (H \o <<f>>)[i] = IF i <= Len(H) THEN H[i] ELSE <<f>>[i - Len(H)]
  BY <1>1, <1>2, ConcatProperties
<1> QED BY <1>1, <1>2, <1>3

\* They are a plan when each is sound and loses nothing of the one before.
LEMMA PlanOf ==
  ASSUME NEW d, NEW s \in Seq(Disks), NEW m, NEW n \in Nat, Len(s) = n + 1,
         \A i \in 1..n : Sound(s[i]) /\ Blank(s[i], m),
         Sound(s[n + 1]), Blank(s[n + 1], m),
         n > 0 => Keeps(d, s[1]) /\ Keeps(s[n], s[n + 1]),
         \A i \in 1..n : i > 1 => Keeps(s[i - 1], s[i]),
         n = 0 => Keeps(d, s[n + 1])
  PROVE  Plan(d, s, m) /\ s # << >> /\ Goal(d, s) = s[n + 1]
<1>1. s # << >>
  BY EmptySeq
<1>2. ASSUME NEW i \in 1..(n + 1)
      PROVE  Sound(s[i]) /\ Blank(s[i], m) /\ Keeps(Before(d, s, i), s[i])
  <2>1. CASE i \in 1..n /\ i > 1
    BY <2>1 DEF Before
  <2>2. CASE i = 1 /\ n > 0
    BY <2>2 DEF Before
  <2>3. CASE i = n + 1 /\ n = 0
    BY <2>3 DEF Before
  <2>4. CASE i = n + 1 /\ n > 0
    <3>1. i # 1 /\ i - 1 = n
      BY <2>4
    <3> QED BY <2>4, <3>1 DEF Before
  <2> QED BY <2>1, <2>2, <2>3, <2>4
<1> QED BY <1>1, <1>2 DEF Plan, Goal

\* In the middle of a recovery the disk is sound, and nothing is lost so far.
LEMMA HalfwaySound ==
  ASSUME NEW d, Sound(d), HasIndex(d), NEW m, Blank(d, m), NEW order \in Seq(Runs),
         \A i \in 1..Len(order) : order[i] \in OpenRows(d),
         NEW k \in Nat, NEW kept, NEW lost,
         NEW h, h = Halfway(d, order, k, kept, lost)
  PROVE  Sound(h) /\ Blank(h, m) /\ Keeps(d, h)
<1>1. /\ h \in Disks /\ h.index = d.index /\ (HasIndex(h) <=> HasIndex(d)) /\ h.torn = d.torn
      /\ \A r \in Runs : (\A i \in 1..Len(order) : order[i] # r) =>
           h.artifact[r] = d.artifact[r] /\ (r \in h.quarantine <=> r \in d.quarantine)
      /\ \A r \in Runs : \/ h.artifact[r] = d.artifact[r]
                         \/ h.artifact[r] = Repaired(d.artifact[r])
                         \/ h.artifact[r] = NoArtifact /\ ~d.artifact[r].whole
  BY HalfwayParts
<1>2. d \in Disks
  BY DEF Sound
<1>3. \A r \in Runs : d.index[r] \notin Active =>
        h.artifact[r] = d.artifact[r] /\ (r \in h.quarantine <=> r \in d.quarantine)
  BY <1>1 DEF OpenRows
<1>4. Sound(h)
  BY <1>1, <1>2, <1>3 DEF Sound, Active, Terminal
<1>5. Blank(h, m)
  BY <1>1, <1>3 DEF Blank, Active
<1>6. Keeps(d, h)
  <2>1. ASSUME NEW r \in Runs, Readable(d.artifact[r]), d.artifact[r].ends # << >>
        PROVE  h.artifact[r] = d.artifact[r]
    <3>1. d.artifact[r] \in Known
      BY <1>2 DEF Disks
    <3>2. d.artifact[r].status \in Terminal
      BY <3>1, <2>1, KnownArtifacts
    <3>3. Repaired(d.artifact[r]) = d.artifact[r]
      BY <3>1, <3>2, <2>1, Repairs
    <3> QED BY <1>1, <3>3, <2>1 DEF Readable
  <2> QED BY <1>1, <2>1 DEF Keeps
<1> QED BY <1>4, <1>5, <1>6

\* A recovery of runs that the index shows as active ends each of them, in both
\* files, and touches no other run.
LEMMA RecoveryPlan ==
  ASSUME NEW d, Sound(d), HasIndex(d), NEW m, Blank(d, m), NEW todo, todo \subseteq OpenRows(d),
         NEW kept, NEW lost,
         NEW s, s = RecoverySteps(d, todo, kept, lost)
  PROVE  /\ Plan(d, s, m) /\ s # << >>
         /\ \A i \in 1..Len(s) : OpenRows(s[i]) \subseteq OpenRows(d)
         /\ OpenRows(Goal(d, s)) \subseteq OpenRows(d) \ todo
         /\ Spares(d, s, Runs \ todo)
<1> DEFINE order == SetToSeq(todo)
           n == 2 * Len(order)
           half(k) == Halfway(d, order, k, kept, lost)
           H == [k \in 1..n |-> half(k)]
           last == Halfway(d, order, n, kept, lost)
           Row(r) == IF r \notin todo THEN d.index[r]
                     ELSE IF Readable(d.artifact[r]) THEN Repaired(d.artifact[r]).status
                     ELSE "failed"
           rows == [r \in Runs |-> Row(r)]
           f == [last EXCEPT !.index = rows]
<1>1. s = H \o <<f>>
  BY DEF RecoverySteps
<1>2. todo \subseteq Runs /\ IsFiniteSet(todo)
  <2>1. todo \in SUBSET Runs
    BY DEF OpenRows
  <2> QED BY <2>1, RunsAssumption, FS_Subset
<1>3. order \in Seq(todo) /\ \A r \in todo : \E i \in 1..Len(order) : order[i] = r
  BY <1>2, Listing
<1> HIDE DEF order
<1>4. order \in Seq(Runs) /\ \A i \in 1..Len(order) : order[i] \in todo /\ order[i] \in OpenRows(d)
  BY <1>2, <1>3
<1>5. n \in Nat /\ Len(order) \in Nat
  BY <1>4
<1>6. ASSUME NEW k \in Nat
      PROVE  /\ half(k) \in Disks /\ Sound(half(k)) /\ Blank(half(k), m) /\ Keeps(d, half(k))
             /\ half(k).index = d.index /\ (HasIndex(half(k)) <=> HasIndex(d))
             /\ \A r \in Runs \ todo : half(k).artifact[r] = d.artifact[r]
             /\ Keeps(half(k), half(k + 1))
  <2>1. PICK h : h = Halfway(d, order, k, kept, lost)
    OBVIOUS
  <2>2. PICK g : g = Halfway(d, order, k + 1, kept, lost)
    OBVIOUS
  <2>3. Sound(h) /\ Blank(h, m) /\ Keeps(d, h)
    BY <2>1, <1>4, HalfwaySound
  <2>4. /\ h \in Disks /\ h.index = d.index /\ (HasIndex(h) <=> HasIndex(d))
        /\ \A r \in Runs : (\A i \in 1..Len(order) : order[i] # r) => h.artifact[r] = d.artifact[r]
    BY <2>1, <1>4, HalfwayParts
  <2>5. Keeps(h, g)
    BY <2>1, <2>2, <1>4, HalfwayOn
  <2>6. \A r \in Runs \ todo : h.artifact[r] = d.artifact[r]
    BY <1>4, <2>4
  <2> QED BY <2>1, <2>2, <2>3, <2>4, <2>5, <2>6
<1>7. /\ last \in Disks /\ Sound(last) /\ Blank(last, m) /\ Keeps(d, last)
      /\ last.index = d.index /\ (HasIndex(last) <=> HasIndex(d))
      /\ \A r \in Runs \ todo : last.artifact[r] = d.artifact[r]
  BY <1>5, <1>6
<1>8. \A r \in todo : last.artifact[r] = Repaired(d.artifact[r]) \/ ~Readable(last.artifact[r])
  <2>1. PICK h : h = Halfway(d, order, 2 * Len(order), kept, lost)
    OBVIOUS
  <2>2. ASSUME NEW r \in todo
        PROVE  h.artifact[r] = Repaired(d.artifact[r]) \/ ~Readable(h.artifact[r])
    <3>1. r \in Runs /\ \E i \in 1..Len(order) : order[i] = r
      BY <1>2, <1>3
    <3> QED BY <2>1, <3>1, <1>4, HalfwayEnds
  <2> QED BY <2>1, <2>2
<1> HIDE DEF half, last
<1>9. d \in Disks
  BY DEF Sound
<1>10. \A r \in Runs : /\ Repaired(d.artifact[r]).status \in Terminal
                       /\ ~Readable(d.artifact[r]) => Repaired(d.artifact[r]).status = "failed"
  BY <1>9, Repairs DEF Disks
<1>11. \A r \in Runs : /\ Row(r) \in Rows
                       /\ r \in todo => Row(r) = Repaired(d.artifact[r]).status
  BY <1>9, <1>10 DEF Disks, Rows
<1>12. rows \in [Runs -> Rows]
  BY <1>11
<1>13. /\ f \in Disks /\ f.index = rows
       /\ f.artifact = last.artifact /\ f.quarantine = last.quarantine
       /\ (HasIndex(f) <=> HasIndex(last)) /\ f.torn = last.torn
  <2> HIDE DEF rows
  <2> QED BY <1>7, <1>12 DEF Disks, HasIndex
<1>14. \A r \in Runs : /\ r \notin todo => f.index[r] = d.index[r] /\ f.artifact[r] = d.artifact[r]
                       /\ r \in todo => /\ f.index[r] = Repaired(d.artifact[r]).status
                                        /\ d.index[r] \in Active
  BY <1>7, <1>11, <1>13 DEF OpenRows
<1> HIDE DEF f
<1>15. Active \intersect Terminal = {} /\ "none" \notin Active \union Terminal
  BY DEF Active, Terminal
<1>16. Sound(f)
  BY <1>7, <1>8, <1>10, <1>13, <1>14, <1>15 DEF Sound
<1>17. Blank(f, m)
  BY <1>7, <1>13, <1>14, <1>15 DEF Blank
<1>18. Keeps(d, f) /\ Keeps(last, f)
  BY <1>7, <1>13, <1>14, <1>15 DEF Keeps
<1>19. H \in [1..n -> Disks] /\ \A i \in 1..n : H[i] = half(i) /\ i \in Nat
  <2> HIDE DEF n
  <2>1. \A i \in 1..n : i \in Nat
    BY <1>5
  <2>2. \A i \in 1..n : half(i) \in Disks
    BY <2>1, <1>6
  <2> QED BY <2>1, <2>2
<1> HIDE DEF H, n
<1>20. H \in Seq(Disks) /\ Len(H) = n
  BY <1>5, <1>19
<1>21. /\ s \in Seq(Disks) /\ Len(s) = n + 1
       /\ \A i \in 1..n : i \in Nat /\ s[i] = half(i)
       /\ s[n + 1] = f
  BY <1>1, <1>13, <1>19, <1>20, FilesThenIndex
<1>22. n > 0 => Keeps(d, s[1]) /\ Keeps(s[n], s[n + 1])
  <2>1. n > 0 => 1 \in 1..n /\ n \in 1..n
    BY <1>5
  <2>2. half(n) = last
    BY DEF half, last
  <2> QED BY <2>1, <2>2, <1>6, <1>18, <1>21
<1>23. /\ Plan(d, s, m) /\ s # << >> /\ Goal(d, s) = f
  <2>1. \A i \in 1..n : Sound(s[i]) /\ Blank(s[i], m)
    BY <1>6, <1>21
  <2>2. ASSUME NEW i \in 1..n, i > 1
        PROVE  Keeps(s[i - 1], s[i])
    <3>1. i - 1 \in 1..n /\ (i - 1) + 1 = i
      BY <1>5, <2>2
    <3>2. Keeps(half(i - 1), half((i - 1) + 1))
      BY <3>1, <1>6, <1>21
    <3> QED BY <3>1, <3>2, <1>21
  <2>3. \A i \in 1..n : i > 1 => Keeps(s[i - 1], s[i])
    BY <2>2
  <2>4. Sound(s[n + 1]) /\ Blank(s[n + 1], m) /\ Keeps(d, s[n + 1])
    BY <1>16, <1>17, <1>18, <1>21
  <2> QED BY <2>1, <2>3, <2>4, <1>5, <1>21, <1>22, PlanOf, ZenonT(60)
<1>24. ASSUME NEW i \in 1..Len(s)
       PROVE  /\ OpenRows(s[i]) \subseteq OpenRows(d)
              /\ (HasIndex(s[i]) <=> HasIndex(d))
              /\ \A r \in Runs \ todo :
                   s[i].artifact[r] = d.artifact[r] /\ s[i].index[r] = d.index[r]
  <2>1. CASE i \in 1..n
    <3>1. i \in Nat /\ s[i] = half(i)
      BY <2>1, <1>21
    <3> QED BY <3>1, <1>6 DEF OpenRows
  <2>2. CASE i = n + 1
    <3>1. s[i] = f
      BY <2>2, <1>21
    <3>2. (HasIndex(f) <=> HasIndex(d))
      BY <1>7, <1>13
    <3> QED BY <3>1, <3>2, <1>10, <1>14, <1>15 DEF OpenRows
  <2>3. i \in 1..n \/ i = n + 1
    BY <1>5, <1>21
  <2> QED BY <2>1, <2>2, <2>3, Zenon
<1>25. OpenRows(f) \subseteq OpenRows(d) \ todo
  BY <1>10, <1>14, <1>15 DEF OpenRows
<1> QED BY <1>23, <1>24, <1>25 DEF Spares

\* The runs whose files an erasure has removed.
Gone(order, k) == {order[i] : i \in 1..k}

\* The disk in the middle of an erasure: files are gone, the rows are there.
LEMMA EmptiedParts ==
  ASSUME NEW d, Sound(d), HasIndex(d), NEW m, Blank(d, m), NEW order \in Seq(Runs), NEW k \in Nat,
         NEW h, h = Emptied(d, order, k)
  PROVE  /\ Sound(h) /\ Blank(h, m) /\ Keeps(d, h)
         /\ h \in Disks /\ h.index = d.index /\ (HasIndex(h) <=> HasIndex(d)) /\ h.torn = d.torn
         /\ \A r \in Runs :
              IF r \in Gone(order, k)
              THEN h.artifact[r] = NoArtifact /\ r \notin h.quarantine
              ELSE h.artifact[r] = d.artifact[r] /\ (r \in h.quarantine <=> r \in d.quarantine)
<1> DEFINE gone == Gone(order, k)
           arts == [r \in Runs |-> IF r \in gone THEN NoArtifact ELSE d.artifact[r]]
<1>1. d \in Disks /\ NoArtifact \in Known /\ NoArtifact.status = "none"
  BY WrittenArtifacts DEF Sound, NoArtifact
<1>2. h = [d EXCEPT !.artifact = arts, !.quarantine = @ \ gone]
  BY DEF Emptied, Gone
<1>3. arts \in [Runs -> Known]
  BY <1>1 DEF Disks
<1>4. /\ h \in Disks /\ h.index = d.index /\ (HasIndex(h) <=> HasIndex(d)) /\ h.torn = d.torn
      /\ h.artifact = arts /\ h.quarantine = d.quarantine \ gone
  <2> HIDE DEF arts, gone
  <2> QED BY <1>1, <1>2, <1>3 DEF Disks, HasIndex
<1>6. \A r \in Runs :
        IF r \in gone
        THEN h.artifact[r] = NoArtifact /\ r \notin h.quarantine
        ELSE h.artifact[r] = d.artifact[r] /\ (r \in h.quarantine <=> r \in d.quarantine)
  <2> HIDE DEF gone
  <2> QED BY <1>4
<1>7. Sound(h)
  BY <1>1, <1>4, <1>6 DEF Sound, Readable
<1>8. Blank(h, m)
  BY <1>4, <1>6 DEF Blank
<1>9. Keeps(d, h)
  BY <1>1, <1>4, <1>6 DEF Keeps, Readable
<1> QED BY <1>4, <1>6, <1>7, <1>8, <1>9

\* What an erasure has removed stays removed.
LEMMA EmptiedOn ==
  ASSUME NEW d, Sound(d), HasIndex(d), NEW m, Blank(d, m), NEW order \in Seq(Runs), NEW k \in Nat,
         NEW h, h = Emptied(d, order, k),
         NEW g, g = Emptied(d, order, k + 1)
  PROVE  Keeps(h, g)
<1>1. /\ h.index = d.index
      /\ \A r \in Runs :
           IF r \in Gone(order, k)
           THEN h.artifact[r] = NoArtifact
           ELSE h.artifact[r] = d.artifact[r]
  BY EmptiedParts
<1>2. /\ g.index = d.index
      /\ \A r \in Runs :
           IF r \in Gone(order, k + 1)
           THEN g.artifact[r] = NoArtifact
           ELSE g.artifact[r] = d.artifact[r]
  <2>1. k + 1 \in Nat
    OBVIOUS
  <2> QED BY <2>1, EmptiedParts
<1>3. Gone(order, k) \subseteq Gone(order, k + 1)
  BY DEF Gone
<1>4. NoArtifact.status = "none"
  BY DEF NoArtifact
<1> QED BY <1>1, <1>2, <1>3, <1>4 DEF Keeps, Readable

\* An erasure removes the runs of S from both files, and touches no other run.
LEMMA ErasurePlan ==
  ASSUME NEW S, S \subseteq Runs, NEW m, Sound(disk), HasIndex(disk), Blank(disk, m),
         NEW s, s = Erasure(S)
  PROVE  /\ Plan(disk, s, m) /\ s # << >>
         /\ OpenRows(Goal(disk, s)) \subseteq OpenRows(disk) \ S
         /\ \A r \in Runs \ S :
              /\ Goal(disk, s).artifact[r] = disk.artifact[r]
              /\ Goal(disk, s).index[r] = disk.index[r]
         /\ \A r \in S : ~Readable(Goal(disk, s).artifact[r])
<1> DEFINE order == SetToSeq(S)
           n == Len(order)
           bare(k) == Emptied(disk, order, k)
           H == [k \in 1..n |-> bare(k)]
           last == Emptied(disk, order, n)
           f == Unlisted(last, S)
<1>1. s = H \o <<f>>
  BY DEF Erasure
<1>2. IsFiniteSet(S)
  <2>1. S \in SUBSET Runs
    OBVIOUS
  <2> QED BY <2>1, RunsAssumption, FS_Subset
<1>3. order \in Seq(S) /\ \A r \in S : \E i \in 1..Len(order) : order[i] = r
  BY <1>2, Listing
<1> HIDE DEF order
<1>4. order \in Seq(Runs) /\ \A i \in 1..n : order[i] \in S
  BY <1>3
<1>5. n \in Nat
  BY <1>4
<1>6. ASSUME NEW k \in Nat
      PROVE  /\ bare(k) \in Disks /\ Sound(bare(k)) /\ Blank(bare(k), m)
             /\ Keeps(disk, bare(k)) /\ Keeps(bare(k), bare(k + 1))
  <2>1. PICK h : h = Emptied(disk, order, k)
    OBVIOUS
  <2>2. PICK g : g = Emptied(disk, order, k + 1)
    OBVIOUS
  <2>3. h \in Disks /\ Sound(h) /\ Blank(h, m) /\ Keeps(disk, h)
    BY <2>1, <1>4, EmptiedParts
  <2>4. Keeps(h, g)
    BY <2>1, <2>2, <1>4, EmptiedOn
  <2> QED BY <2>1, <2>2, <2>3, <2>4
<1>7. /\ last \in Disks /\ last.index = disk.index /\ (HasIndex(last) <=> HasIndex(disk))
      /\ \A r \in Runs :
           IF r \in S THEN last.artifact[r] = NoArtifact /\ r \notin last.quarantine
           ELSE last.artifact[r] = disk.artifact[r]
  <2>1. PICK h : h = Emptied(disk, order, n)
    OBVIOUS
  <2>2. /\ h \in Disks /\ h.index = disk.index /\ (HasIndex(h) <=> HasIndex(disk))
        /\ \A r \in Runs :
             IF r \in Gone(order, n)
             THEN h.artifact[r] = NoArtifact /\ r \notin h.quarantine
             ELSE h.artifact[r] = disk.artifact[r]
    BY <2>1, <1>4, <1>5, EmptiedParts
  <2>3. \A r \in Runs : r \in S <=> r \in Gone(order, n)
    BY <1>3, <1>4 DEF Gone
  <2> QED BY <2>1, <2>2, <2>3
<1>8. Sound(last) /\ Blank(last, m) /\ Keeps(disk, last)
  BY <1>5, <1>6
<1> HIDE DEF last, bare
<1>9. /\ f \in Disks /\ f.artifact = last.artifact /\ f.quarantine = last.quarantine
      /\ (HasIndex(f) <=> HasIndex(last)) /\ f.torn = last.torn
      /\ f.index = [r \in Runs |-> IF r \in S THEN "none" ELSE last.index[r]]
  <2> DEFINE rows == [r \in Runs |-> IF r \in S THEN "none" ELSE last.index[r]]
  <2>1. f = [last EXCEPT !.index = rows]
    BY DEF Unlisted
  <2>2. rows \in [Runs -> Rows]
    BY <1>7 DEF Disks, Rows
  <2> HIDE DEF rows, f
  <2>3. /\ f \in Disks /\ f.artifact = last.artifact /\ f.quarantine = last.quarantine
        /\ (HasIndex(f) <=> HasIndex(last)) /\ f.torn = last.torn
        /\ f.index = rows
    BY <2>1, <2>2, <1>7 DEF Disks, HasIndex
  <2> QED BY <2>3 DEF rows
<1> HIDE DEF f
<1>10. \A r \in Runs : /\ r \in S => f.index[r] = "none" /\ f.artifact[r] = NoArtifact
                                       /\ r \notin f.quarantine
                       /\ r \notin S => /\ f.index[r] = disk.index[r]
                                        /\ f.artifact[r] = disk.artifact[r]
  BY <1>7, <1>9
<1>11. NoArtifact.status = "none" /\ "none" \notin Active \union Terminal
  BY DEF NoArtifact, Active, Terminal
<1>12. Sound(f)
  BY <1>7, <1>8, <1>9, <1>10, <1>11 DEF Sound
<1>13. Blank(f, m)
  BY <1>7, <1>8, <1>9, <1>10 DEF Blank
<1>14. Keeps(disk, f) /\ Keeps(last, f)
  BY <1>7, <1>9, <1>10, <1>11 DEF Keeps, Readable
<1>15. H \in Seq(Disks) /\ Len(H) = n /\ \A i \in 1..n : H[i] = bare(i) /\ i \in Nat
  <2> HIDE DEF n
  <2>1. \A i \in 1..n : i \in Nat
    BY <1>5
  <2>2. \A i \in 1..n : bare(i) \in Disks
    BY <2>1, <1>6
  <2>3. H \in [1..n -> Disks] /\ \A i \in 1..n : H[i] = bare(i)
    BY <2>2
  <2> QED BY <1>5, <2>1, <2>3
<1> HIDE DEF H, n
<1>16. /\ s \in Seq(Disks) /\ Len(s) = n + 1
       /\ \A i \in 1..n : i \in Nat /\ s[i] = bare(i)
       /\ s[n + 1] = f
  BY <1>1, <1>9, <1>15, FilesThenIndex
<1>17. n > 0 => Keeps(disk, s[1]) /\ Keeps(s[n], s[n + 1])
  <2>1. n > 0 => 1 \in 1..n /\ n \in 1..n
    BY <1>5
  <2>2. bare(n) = last
    BY DEF bare, last
  <2> QED BY <2>1, <2>2, <1>6, <1>14, <1>16
<1>18. Plan(disk, s, m) /\ s # << >> /\ Goal(disk, s) = f
  <2>1. \A i \in 1..n : Sound(s[i]) /\ Blank(s[i], m)
    BY <1>6, <1>16
  <2>2. ASSUME NEW i \in 1..n, i > 1
        PROVE  Keeps(s[i - 1], s[i])
    <3>1. i - 1 \in 1..n /\ (i - 1) + 1 = i
      BY <1>5, <2>2
    <3>2. Keeps(bare(i - 1), bare((i - 1) + 1))
      BY <3>1, <1>6, <1>16
    <3> QED BY <3>1, <3>2, <1>16
  <2>3. \A i \in 1..n : i > 1 => Keeps(s[i - 1], s[i])
    BY <2>2
  <2>4. Sound(s[n + 1]) /\ Blank(s[n + 1], m) /\ Keeps(disk, s[n + 1])
    BY <1>12, <1>13, <1>14, <1>16
  <2> QED BY <2>1, <2>3, <2>4, <1>5, <1>16, <1>17, PlanOf
<1>19. OpenRows(f) \subseteq OpenRows(disk) \ S
  BY <1>10, <1>11 DEF OpenRows
<1> QED BY <1>10, <1>11, <1>18, <1>19 DEF Readable

-----------------------------------------------------------------------------
(* The steps. *)

\* A save of a run that has not ended, by the process that serves requests.
LEMMA SaveKeeps ==
  ASSUME IInv, Ready, NEW r \in Runs, NEW a \in Known, NEW op \in {"create", "mark", "finish"}, NEW p,
         Readable(a), disk.index[r] \notin Terminal, disk.artifact[r].ends = << >>,
         HasIndex(disk) /\ disk.index[r] = "none" => a.status = "queued",
         HasIndex(disk) \/ Readable(disk.artifact[r]),
         r \notin deferred, made' = made \union {r},
         live' \ {r} = live \ {r}, withdrawn' \ {r} = withdrawn \ {r}, withdrawn' \subseteq live',
         r \in dropped => r \notin live' /\ Owner[r] \in Protected,
         r \in live' \union dropped <=> a.status \notin Terminal,
         Begin(op, p, Save(r, a)),
         UNCHANGED <<disk, state, dropped, resetting, keys, deferred, faults>>
  PROVE  IInv'
<1> DEFINE s == Save(r, a)
           g == Goal(disk, s)
<1>1. writes = << >> /\ state = "up" /\ writes' = s /\ job' = [op |-> op, for |-> p]
  BY DEF Ready, Begin
<1>2. Sound(disk) /\ Blank(disk, made) /\ Blank(disk, made')
  BY DEF IInv, Blank
<1>3. a.status # "none" /\ a.status \in Rows /\ (a.ends = << >> <=> a.status \notin Terminal)
  BY KnownArtifacts DEF Readable
<1>4. /\ Plan(disk, s, made') /\ s # << >>
      /\ g.artifact = [disk.artifact EXCEPT ![r] = a]
      /\ g.index = IF HasIndex(disk) THEN [disk.index EXCEPT ![r] = a.status] ELSE disk.index
      /\ (HasIndex(g) <=> HasIndex(disk))
  <2>1. PICK m : m = made'
    OBVIOUS
  <2>2. r \in m /\ Blank(disk, m)
    BY <1>2, <2>1
  <2> QED BY <1>2, <1>3, <2>1, <2>2, SavePlan
<1> HIDE DEF s, g
<1>5. \A q \in Runs :
        /\ g.artifact[q] = IF q = r THEN a ELSE disk.artifact[q]
        /\ g.index[q] = IF q = r /\ HasIndex(disk) THEN a.status ELSE disk.index[q]
  BY <1>2, <1>4 DEF Sound, Disks
<1>6. Goal(disk, writes) = disk /\ Goal(disk', writes') = g
  BY <1>1 DEF Goal, g
<1>7. /\ live \subseteq made /\ made \subseteq Runs /\ dropped \subseteq made \ live
      /\ deferred \subseteq made \ Held
  BY DEF IInv, Parts
<1>8. /\ \A q \in Runs \ {r} : q \in Held' <=> q \in Held
      /\ r \in Held' <=> a.status \notin Terminal
      /\ Held' \subseteq Runs
  BY <1>7 DEF Held
<1>9. Parts'
  <2>1. live' \subseteq made' /\ made' \subseteq Runs /\ dropped' \subseteq made' \ live'
    BY <1>7
  <2>2. deferred' \subseteq made' \ Held'
    BY <1>7, <1>8
  <2> QED BY <1>1, <1>4, <2>1, <2>2 DEF IInv, Parts
<1>10. LiveIsOpen'
  <2>1. ASSUME NEW q \in Held'
        PROVE  OpenIn(g, q)
    <3>1. CASE q = r
      BY <3>1, <1>3, <1>4, <1>5, <1>8 DEF OpenIn, Rows
    <3>2. CASE q # r
      <4>1. q \in Held /\ q \in Runs
        BY <3>2, <2>1, <1>8
      <4>2. OpenIn(disk, q)
        BY <4>1, <1>6 DEF IInv, LiveIsOpen
      <4> QED BY <3>2, <4>1, <4>2, <1>4, <1>5 DEF OpenIn
    <3> QED BY <3>1, <3>2
  <2> QED BY <1>6, <2>1 DEF LiveIsOpen
<1>11. DroppedIsLeft'
  <2>1. \A q \in dropped : Owner[q] \in Protected \/ ~Readable(disk.artifact[q])
    BY <1>6 DEF IInv, DroppedIsLeft
  <2> QED BY <2>1, <1>5, <1>6, <1>7 DEF DroppedIsLeft
<1>12. GhostsHeld'
  <2>1. OpenRows(disk) \subseteq Held \union Waiting(keys)
    BY <1>1, <1>6 DEF IInv, GhostsHeld
  <2>2. Waiting(keys)' = Waiting(keys)
    BY DEF Waiting
  <2>3. Active \intersect Terminal = {} /\ "none" \notin Active
    BY DEF Active, Terminal
  <2>4. ASSUME NEW q \in OpenRows(g)
        PROVE  q \in Held' \union Waiting(keys)
    <3>1. q \in Runs /\ g.index[q] \in Active
      BY <2>4 DEF OpenRows
    <3>2. CASE q # r
      BY <3>1, <3>2, <2>1, <1>5, <1>8 DEF OpenRows
    <3>3. CASE q = r /\ HasIndex(disk)
      BY <3>1, <3>3, <2>3, <1>5, <1>8
    <3>4. CASE ~HasIndex(disk)
      BY <3>1, <3>4, <2>3, <1>2, <1>5 DEF Sound
    <3> QED BY <3>2, <3>3, <3>4
  <2> QED BY <2>2, <2>4, <1>6 DEF GhostsHeld
<1>13. UnlockWaits' /\ HeldIsSpared'
  BY <1>1 DEF UnlockWaits, HeldIsSpared
<1>14. Stopped'
  BY <1>1 DEF IInv, Stopped
<1>15. (Sound(disk) /\ Blank(disk, made) /\ Plan(disk, writes, made))'
  BY <1>1, <1>2, <1>4
<1> QED BY <1>9, <1>10, <1>11, <1>12, <1>13, <1>14, <1>15 DEF IInv

\* A step that changes nothing.
LEMMA StutterKeeps ==
  ASSUME IInv, UNCHANGED vars
  PROVE  IInv'
BY DEF IInv, Parts, LiveIsOpen, DroppedIsLeft, GhostsHeld, UnlockWaits, Stopped, Waiting,
       HeldIsSpared, Held, vars, memory, calls

\* No operation is in progress, before or after: the disk may lose files or its
\* index, and the process keys, but no row becomes active.
LEMMA RestKeeps ==
  ASSUME IInv, writes = << >>, writes' = << >>, job' = job,
         UNCHANGED <<state, live, dropped, made>>,
         withdrawn' \subseteq live, resetting' \in BOOLEAN, keys' \subseteq keys,
         faults' \in 0..MaxFaults,
         Sound(disk'), Blank(disk', made), OpenRows(disk') \subseteq OpenRows(disk),
         deferred' = deferred \/ (deferred' = {} /\ OpenRows(disk') = {}),
         \A r \in Runs : Readable(disk'.artifact[r]) =>
           /\ disk'.artifact[r] = disk.artifact[r]
           /\ ~HasIndex(disk') \/ (HasIndex(disk) /\ disk'.index[r] = disk.index[r])
  PROVE  IInv'
<1>1. /\ Goal(disk, writes) = disk /\ Goal(disk', writes') = disk'
      /\ job'.op = "none" /\ Held' = Held /\ Held \subseteq Runs
  BY DEF Goal, IInv, Parts, Held
<1>2. Plan(disk', writes', made')
  <2>1. << >> \in Seq(Disks) /\ Len(<< >>) = 0
    OBVIOUS
  <2> QED BY <2>1 DEF Plan
<1>3. Parts'
  BY <1>1 DEF IInv, Parts
<1>4. LiveIsOpen'
  <2>1. ASSUME NEW r \in Held
        PROVE  OpenIn(disk', r)
    <3>1. OpenIn(disk, r) /\ r \in Runs
      BY <1>1 DEF IInv, LiveIsOpen
    <3> QED BY <3>1 DEF OpenIn
  <2> QED BY <1>1, <2>1 DEF LiveIsOpen
<1>5. DroppedIsLeft'
  <2>1. ASSUME NEW r \in dropped
        PROVE  Owner[r] \in Protected \/ ~Readable(disk'.artifact[r])
    <3>1. r \in Runs
      BY <1>1 DEF Held
    <3>2. Owner[r] \in Protected \/ ~Readable(disk.artifact[r])
      BY <1>1 DEF IInv, DroppedIsLeft
    <3> QED BY <3>1, <3>2
  <2> QED BY <1>1, <2>1 DEF DroppedIsLeft
<1>6. GhostsHeld'
  <2>1. CASE deferred' = deferred
    <3>1. Waiting(keys) \subseteq Waiting(keys)'
      BY <2>1 DEF Waiting
    <3> QED BY <1>1, <3>1 DEF IInv, GhostsHeld
  <2>2. CASE OpenRows(disk') = {}
    BY <2>2, <1>1 DEF GhostsHeld
  <2> QED BY <2>1, <2>2
<1>7. UnlockWaits' /\ HeldIsSpared'
  BY <1>1 DEF UnlockWaits, HeldIsSpared
<1>8. Stopped'
  BY <1>1 DEF IInv, Stopped
<1> QED BY <1>2, <1>3, <1>4, <1>5, <1>6, <1>7, <1>8 DEF IInv

\* cancel_run takes a run from the queue.
LEMMA WithdrawKeeps ==
  ASSUME IInv, NEW r \in Runs, Withdraw(r)
  PROVE  IInv'
<1>1. /\ Ready /\ r \in live /\ withdrawn' = withdrawn \union {r}
      /\ UNCHANGED <<disk, writes, job, state, live, dropped, resetting, keys, deferred, made, faults>>
  BY DEF Withdraw, Gated
<1>2. /\ withdrawn \subseteq live /\ resetting \in BOOLEAN /\ faults \in 0..MaxFaults
      /\ Sound(disk) /\ Blank(disk, made)
  BY DEF IInv, Parts
<1>3. /\ withdrawn' \subseteq live /\ resetting' \in BOOLEAN /\ keys' \subseteq keys
      /\ faults' \in 0..MaxFaults
  BY <1>1, <1>2
<1>4. /\ OpenRows(disk') \subseteq OpenRows(disk)
      /\ \A q \in Runs : Readable(disk'.artifact[q]) =>
           /\ disk'.artifact[q] = disk.artifact[q]
           /\ ~HasIndex(disk') \/ (HasIndex(disk) /\ disk'.index[q] = disk.index[q])
  BY <1>1, <1>2 DEF Sound, Disks
<1> QED BY <1>1, <1>2, <1>3, <1>4, RestKeeps DEF Ready

\* The call that should fail it raises.
LEMMA DropKeeps ==
  ASSUME IInv, NEW r \in Runs, Drop(r)
  PROVE  IInv'
<1>1. /\ Ready /\ r \in withdrawn /\ ~Writable(r)
      /\ live' = live \ {r} /\ withdrawn' = withdrawn \ {r} /\ dropped' = dropped \union {r}
      /\ UNCHANGED <<disk, writes, job, state, resetting, keys, deferred, made, faults>>
  BY DEF Drop
<1>2. /\ r \in live /\ writes = << >> /\ state = "up" /\ job.op = "none"
      /\ Goal(disk, writes) = disk
  BY <1>1 DEF IInv, Parts, Ready, Goal
<1>3. Held' = Held
  BY <1>1, <1>2 DEF Held
<1>4. Parts'
  BY <1>1, <1>2, <1>3 DEF IInv, Parts
<1>5. LiveIsOpen' /\ GhostsHeld'
  BY <1>1, <1>3 DEF IInv, LiveIsOpen, GhostsHeld, Waiting
<1>6. DroppedIsLeft'
  <2>1. Owner[r] \in Protected \/ ~Readable(disk.artifact[r])
    BY <1>1 DEF Writable, Unlocked
  <2> QED BY <1>1, <1>2, <2>1 DEF IInv, DroppedIsLeft
<1>7. (UnlockWaits /\ Stopped /\ HeldIsSpared)'
  BY <1>1, <1>2 DEF UnlockWaits, Stopped, HeldIsSpared
<1> QED BY <1>1, <1>4, <1>5, <1>6, <1>7 DEF IInv

\* create_run, mark_run_running, mark_run_cancelling_with_event and
\* _finish_run_with_event; cancel_run and the call it makes later.
LEMMA StepKeeps ==
  ASSUME IInv, NEW r \in Runs, Step(r)
  PROVE  IInv'
<1>1. /\ Sound(disk) /\ disk \in Disks /\ disk.artifact[r] \in Known
      /\ live \subseteq made /\ withdrawn \subseteq live /\ dropped \subseteq made \ live
      /\ deferred \subseteq made \ Held
  BY DEF IInv, Sound, Disks, Parts
<1>2. CASE Create(r)
  <2> DEFINE a == [NoArtifact EXCEPT !.status = "queued"]
  <2>1. /\ Ready /\ HasIndex(disk) /\ r \notin made
        /\ made' = made \union {r} /\ live' = live \union {r}
        /\ Begin("create", Owner[r], Save(r, a))
        /\ UNCHANGED <<disk, state, withdrawn, dropped, resetting, keys, deferred, faults>>
    BY <1>2 DEF Create, Served, HasIndex
  <2>2. disk.artifact[r] = NoArtifact /\ disk.index[r] = "none"
    BY <2>1 DEF IInv, Blank
  <2>3. NoArtifact.status \notin Terminal /\ NoArtifact.ends = << >>
    BY DEF NoArtifact, Terminal
  <2>4. a \in Known
    BY <2>3, WrittenArtifacts DEF Active
  <2>5. a.status = "queued" /\ Readable(a)
    BY DEF NoArtifact, Readable
  <2>6. a.status \notin Terminal /\ disk.index[r] \notin Terminal
    BY <2>2, <2>5 DEF Terminal
  <2>7. /\ live' \ {r} = live \ {r} /\ withdrawn' \ {r} = withdrawn \ {r}
        /\ withdrawn' \subseteq live' /\ r \notin dropped /\ r \in live' /\ r \notin deferred
    BY <1>1, <2>1
  <2> HIDE DEF a
  <2> QED BY <2>1, <2>2, <2>3, <2>4, <2>5, <2>6, <2>7, SaveKeeps
<1>3. ASSUME r \in Held, Ready, Readable(disk.artifact[r])
      PROVE  /\ disk.artifact[r].ends = << >>
             /\ disk.index[r] \notin Terminal
             /\ HasIndex(disk) => disk.index[r] \in Active
             /\ disk.artifact[r].status \notin Terminal
             /\ r \in made /\ r \notin deferred
             /\ r \in dropped => Owner[r] \in Protected
  <2>1. Goal(disk, writes) = disk
    BY <1>3 DEF Ready, Goal
  <2>2. OpenIn(disk, r)
    BY <1>3, <2>1 DEF IInv, LiveIsOpen
  <2>3. disk.artifact[r].ends = << >> /\ (disk.index[r] \in Active \/ ~HasIndex(disk))
    BY <1>3, <2>2 DEF OpenIn
  <2>4. ~HasIndex(disk) => disk.index[r] = "none"
    BY <1>1 DEF Sound
  <2>5. disk.artifact[r].status \notin Terminal
    BY <1>1, <2>3, KnownArtifacts
  <2>6. r \in dropped => Owner[r] \in Protected
    BY <1>3, <2>1 DEF IInv, DroppedIsLeft
  <2>7. r \in made /\ r \notin deferred
    BY <1>1, <1>3 DEF Held
  <2> QED BY <2>3, <2>4, <2>5, <2>6, <2>7 DEF Active, Terminal
<1>4. ASSUME NEW st \in {"running", "cancelling"}, Mark(r, st)
      PROVE  IInv'
  <2> DEFINE a == [disk.artifact[r] EXCEPT !.status = st]
  <2>1. /\ Ready /\ Readable(disk.artifact[r]) /\ r \in Held
        /\ Begin("mark", Owner[r], Save(r, a))
        /\ UNCHANGED <<disk, memory, made, faults>>
    BY <1>4 DEF Mark, Writable, Gated, Held
  <2>2. a \in Known
    BY <1>1, <1>3, <2>1, WrittenArtifacts DEF Active
  <2>3. a.status = st /\ Readable(a)
    BY <1>1, <1>3, <2>1 DEF Known, Readable
  <2>4. a.status \notin Terminal /\ (HasIndex(disk) => disk.index[r] # "none")
    BY <1>3, <2>1, <2>3 DEF Terminal, Active
  <2>5. /\ made' = made \union {r}
        /\ UNCHANGED <<disk, state, live, withdrawn, dropped, resetting, keys, deferred, faults>>
    BY <1>1, <1>3, <2>1 DEF memory, calls
  <2>6. /\ live' \ {r} = live \ {r} /\ withdrawn' \ {r} = withdrawn \ {r}
        /\ withdrawn' \subseteq live' /\ (r \in dropped => r \notin live')
        /\ r \in live' \union dropped
    BY <1>1, <2>1, <2>5 DEF Held
  <2> HIDE DEF a
  <2> QED BY <1>3, <2>1, <2>2, <2>3, <2>4, <2>5, <2>6, SaveKeeps
<1>5. ASSUME NEW st \in Terminal, Finish(r, st)
      PROVE  IInv'
  <2> DEFINE a == disk.artifact[r]
             e == Ended(a, st)
  <2>1. /\ Ready /\ Readable(a) /\ (r \in live \/ a.ends # << >>)
        /\ live' = live \ {r} /\ withdrawn' = withdrawn \ {r}
        /\ IF e = a THEN UNCHANGED <<writes, job>> ELSE Begin("finish", Owner[r], Save(r, e))
        /\ UNCHANGED <<disk, state, dropped, resetting, keys, deferred, made, faults>>
    BY <1>5 DEF Finish, Writable
  <2>2. CASE r \in live
    <3>1. /\ Readable(a) /\ a.ends = << >> /\ disk.index[r] \notin Terminal
          /\ HasIndex(disk) => disk.index[r] \in Active
          /\ r \in made /\ r \notin deferred
      BY <2>1, <2>2, <1>3 DEF Held
    <3>2. PICK x \in Terminal : e = [a EXCEPT !.status = x, !.ends = Append(@, x)]
      <4>1. (IF a.status = "cancelling" THEN "failed" ELSE st) \in Terminal
        BY DEF Terminal
      <4> QED BY <3>1, <4>1 DEF Ended
    <3>3. e \in Known
      BY <1>1, <3>1, <3>2, WrittenArtifacts
    <3>4. e.status = x /\ Readable(e)
      BY <1>1, <3>1, <3>2 DEF Known, Readable, Terminal
    <3>5. e # a
      BY <3>4, <3>1, <1>1, KnownArtifacts
    <3>6. e.status \in Terminal /\ (HasIndex(disk) => disk.index[r] # "none")
      BY <3>1, <3>4 DEF Active
    <3>7. Begin("finish", Owner[r], Save(r, e)) /\ made' = made \union {r}
      BY <2>1, <3>1, <3>5
    <3>8. /\ live' \ {r} = live \ {r} /\ withdrawn' \ {r} = withdrawn \ {r}
          /\ withdrawn' \subseteq live' /\ r \notin dropped /\ r \notin live'
      BY <1>1, <2>1, <2>2
    <3> HIDE DEF e
    <3> QED BY <2>1, <3>1, <3>3, <3>4, <3>6, <3>7, <3>8, SaveKeeps
  <2>3. CASE r \notin live
    <3>1. e = a
      BY <2>1, <2>3 DEF Ended
    <3>2. live' = live /\ withdrawn' = withdrawn
      BY <1>1, <2>1, <2>3
    <3> HIDE DEF e, a
    <3>3. UNCHANGED vars
      <4>1. writes' = writes /\ job' = job
        BY <2>1, <3>1
      <4>2. UNCHANGED memory
        BY <2>1, <3>2 DEF memory, calls
      <4> QED BY <2>1, <4>1, <4>2 DEF vars
    <3> QED BY <3>3, StutterKeeps
  <2> QED BY <2>2, <2>3
<1> QED BY <1>2, <1>4, <1>5, WithdrawKeeps, DropKeeps DEF Step

\* An artifact is damaged while nothing runs.
LEMMA DamageKeeps ==
  ASSUME IInv, NEW r \in Runs, Damage(r)
  PROVE  IInv' /\ Keeps(disk, disk')
<1> DEFINE a == [disk.artifact[r] EXCEPT !.whole = FALSE]
<1>1. /\ state = "down" /\ faults < MaxFaults /\ faults' = faults + 1
      /\ Readable(disk.artifact[r]) /\ disk' = [disk EXCEPT !.artifact[r].whole = FALSE]
      /\ UNCHANGED <<writes, job, state, live, withdrawn, dropped, resetting, keys, deferred, made>>
  BY DEF Damage, memory, calls, Fault
<1>2. disk \in Disks /\ disk.artifact[r] \in Known /\ Sound(disk) /\ Blank(disk, made)
  BY DEF IInv, Sound, Disks
<1>3. disk' = Filed(disk, r, a)
  BY <1>1, <1>2 DEF Filed, Disks
<1>4. a \in Known
  BY <1>1, <1>2, WrittenArtifacts DEF Readable
<1>5. /\ disk' \in Disks /\ disk'.index = disk.index /\ disk'.quarantine = disk.quarantine
      /\ (HasIndex(disk') <=> HasIndex(disk)) /\ disk'.torn = disk.torn
      /\ disk'.artifact = [disk.artifact EXCEPT ![r] = a]
  BY <1>2, <1>3, <1>4, FiledParts, ZenonT(60)
<1>6. ~Readable(a) /\ a.status = disk.artifact[r].status
  BY <1>2 DEF Readable, Known
<1> HIDE DEF a
<1>7. \A q \in Runs : disk'.artifact[q] = IF q = r THEN a ELSE disk.artifact[q]
  BY <1>2, <1>5 DEF Disks
<1>8. Sound(disk')
  <2>1. \A q \in Runs : q \in Content(disk') <=> q \in Content(disk)
    BY <1>5, <1>6, <1>7 DEF Content
  <2> QED BY <1>2, <1>5, <1>6, <1>7, <2>1 DEF Sound
<1>9. r \in made
  BY <1>1, <1>2 DEF Blank, NoArtifact, Readable
<1>10. Blank(disk', made)
  BY <1>2, <1>5, <1>7, <1>9 DEF Blank
<1>11. writes = << >>
  BY <1>1 DEF IInv, Stopped
<1>12. faults' \in 0..MaxFaults /\ withdrawn' \subseteq live /\ resetting' \in BOOLEAN
  BY <1>1, FaultsAssumption DEF IInv, Parts
<1>13. /\ OpenRows(disk') \subseteq OpenRows(disk) /\ keys' \subseteq keys
       /\ \A q \in Runs : Readable(disk'.artifact[q]) =>
            /\ disk'.artifact[q] = disk.artifact[q]
            /\ ~HasIndex(disk') \/ (HasIndex(disk) /\ disk'.index[q] = disk.index[q])
  BY <1>1, <1>5, <1>6, <1>7 DEF OpenRows
<1>14. IInv'
  BY <1>1, <1>8, <1>10, <1>11, <1>12, <1>13, RestKeeps
<1>15. Keeps(disk, disk')
  BY <1>5, <1>6, <1>7 DEF Keeps
<1> QED BY <1>14, <1>15

\* The process dies: what it still had to write is never written.
LEMMA CrashKeeps ==
  ASSUME IInv, Crash
  PROVE  IInv'
<1>1. /\ faults < MaxFaults /\ faults' = faults + 1
      /\ state' = "down" /\ writes' = << >> /\ job' = Idle
      /\ live' = {} /\ withdrawn' = {} /\ dropped' = {} /\ resetting' = FALSE
      /\ keys' = {} /\ deferred' = {}
      /\ UNCHANGED <<disk, made>>
  BY DEF Crash, Fault
<1>2. job'.op = "none" /\ Held' = {}
  BY <1>1 DEF Idle, Held
<1>3. Plan(disk', writes', made')
  <2>1. << >> \in Seq(Disks) /\ Len(<< >>) = 0
    OBVIOUS
  <2> QED BY <1>1, <2>1 DEF Plan
<1>4. Parts'
  <2>1. resetting' \in BOOLEAN
    BY <1>1, Zenon
  <2> QED BY <1>1, <1>2, <2>1, FaultsAssumption DEF IInv, Parts
<1>5. (LiveIsOpen /\ DroppedIsLeft /\ GhostsHeld /\ UnlockWaits /\ Stopped /\ HeldIsSpared)'
  BY <1>1, <1>2
     DEF LiveIsOpen, DroppedIsLeft, GhostsHeld, UnlockWaits, Stopped, HeldIsSpared
<1> QED BY <1>1, <1>3, <1>4, <1>5 DEF IInv

\* The disk with an empty index, where there was none.
LEMMA FoundParts ==
  ASSUME NEW d, Sound(d), NEW m, Blank(d, m), NEW e, e = Found(d)
  PROVE  /\ Sound(e) /\ Blank(e, m) /\ HasIndex(e)
         /\ e.artifact = d.artifact /\ e.index = d.index
<1>1. /\ e \in Disks /\ HasIndex(e) /\ e.artifact = d.artifact /\ e.index = d.index
      /\ e.quarantine = d.quarantine /\ e.torn = d.torn
  BY DEF Found, Sound, Disks, HasIndex
<1> QED BY <1>1 DEF Sound, Blank

\* A plan for it is one for the disk.
LEMMA FoundPlan ==
  ASSUME NEW d, NEW e, e.artifact = d.artifact, e.index = d.index,
         NEW s, NEW m, Plan(e, s, m), s # << >>
  PROVE  Plan(d, s, m) /\ Goal(d, s) = Goal(e, s)
<1>1. \A i \in 1..Len(s) : Keeps(Before(e, s, i), s[i]) => Keeps(Before(d, s, i), s[i])
  BY DEF Before, Keeps
<1> QED BY <1>1 DEF Plan, Goal

\* AtlasBackendService.start: the interrupted runs of the open profiles are
\* recovered, and those of the locked ones wait.
LEMMA StartKeeps ==
  ASSUME IInv, Start
  PROVE  IInv'
<1> DEFINE todo == ActiveRuns \ Locked
<1>1. /\ state = "down" /\ state' = "starting"
      /\ deferred' = ActiveRuns \intersect Locked
      /\ UNCHANGED <<disk, live, withdrawn, dropped, resetting, keys, made, faults>>
  BY DEF Start, StartRecovery, calls
<1>2. PICK kept, lost : Begin("recover", job.for, RecoverySteps(Found(disk), todo, kept, lost))
  BY DEF Start, StartRecovery
<1>3. ActiveRuns = OpenRows(disk) /\ todo \subseteq OpenRows(disk)
  BY DEF ActiveRuns, OpenRows
<1>4. PICK e, s : e = Found(disk) /\ s = RecoverySteps(e, todo, kept, lost)
  OBVIOUS
<1>5. writes' = s /\ job' = [op |-> "recover", for |-> job.for]
  BY <1>2, <1>4 DEF Begin
<1>6. /\ Sound(disk) /\ Blank(disk, made) /\ live = {} /\ dropped = {} /\ keys = {}
      /\ Held' = {}
  BY <1>1 DEF IInv, Stopped, Held
<1> HIDE DEF todo
<1>7. /\ Sound(e) /\ Blank(e, made) /\ HasIndex(e)
      /\ e.artifact = disk.artifact /\ e.index = disk.index
  BY <1>4, <1>6, FoundParts
<1>8. OpenRows(e) = OpenRows(disk)
  BY <1>7 DEF OpenRows
<1>9. /\ Plan(e, s, made) /\ s # << >>
      /\ OpenRows(Goal(e, s)) \subseteq OpenRows(e) \ todo
  <2>1. PICK m : m = made
    OBVIOUS
  <2>2. Blank(e, m) /\ todo \subseteq OpenRows(e) /\ s = RecoverySteps(e, todo, kept, lost)
    BY <1>3, <1>4, <1>7, <1>8, <2>1
  <2>3. Plan(e, s, m) /\ s # << >> /\ OpenRows(Goal(e, s)) \subseteq OpenRows(e) \ todo
    BY <1>7, <2>2, RecoveryPlan
  <2> QED BY <2>1, <2>3
<1>10. Plan(disk, s, made) /\ Goal(disk, s) = Goal(e, s)
  BY <1>7, <1>9, FoundPlan
<1>11. OpenRows(disk) \subseteq made
  BY <1>6 DEF OpenRows, Blank, Active
<1>12. Parts'
  BY <1>1, <1>3, <1>5, <1>6, <1>9, <1>11 DEF IInv, Parts
<1>13. GhostsHeld'
  <2>1. Goal(disk', writes') = Goal(disk, s)
    BY <1>1, <1>5
  <2>2. \A r \in Locked : r \in Runs /\ Owner[r] \in Protected
    BY DEF Locked, Unlocked
  <2>3. OpenRows(disk) \ todo \subseteq {r \in deferred' : Owner[r] \in Protected \ keys'}
    BY <1>1, <1>3, <1>6, <2>2 DEF todo
  <2> QED BY <1>8, <1>9, <1>10, <2>1, <2>3 DEF GhostsHeld, Waiting
<1>14. (LiveIsOpen /\ DroppedIsLeft /\ UnlockWaits /\ Stopped /\ HeldIsSpared)'
  BY <1>1, <1>5, <1>6, <1>9
     DEF LiveIsOpen, DroppedIsLeft, UnlockWaits, Stopped, HeldIsSpared, Spares
<1> QED BY <1>1, <1>5, <1>6, <1>10, <1>12, <1>13, <1>14 DEF IInv

\* lock_user: a run of the profile that has been withdrawn stays unfinished.
LEMMA LockKeeps ==
  ASSUME IInv, NEW p \in Profiles, Lock(p)
  PROVE  IInv'
<1>1. /\ Ready /\ keys' = keys \ {p}
      /\ UNCHANGED <<disk, writes, job, state, live, withdrawn, dropped, resetting,
                     deferred, made, faults>>
  BY DEF Lock, Served, calls
<1>2. /\ Sound(disk) /\ Blank(disk, made) /\ writes = << >>
      /\ withdrawn \subseteq live /\ resetting \in BOOLEAN /\ faults \in 0..MaxFaults
  BY <1>1 DEF Ready, IInv, Parts
<1>3. /\ OpenRows(disk') \subseteq OpenRows(disk) /\ keys' \subseteq keys
      /\ \A q \in Runs : Readable(disk'.artifact[q]) =>
           /\ disk'.artifact[q] = disk.artifact[q]
           /\ ~HasIndex(disk') \/ (HasIndex(disk) /\ disk'.index[q] = disk.index[q])
  BY <1>1, <1>2 DEF Sound, Disks
<1> QED BY <1>1, <1>2, <1>3, RestKeeps

\* delete_thread and delete_user: no run the gate knows of is erased, but one
\* that has been withdrawn may be.
LEMMA DeleteKeeps ==
  ASSUME IInv, NEW p \in Profiles, Delete(p)
  PROVE  IInv'
<1> DEFINE S == {r \in RunsOf(p) : disk.index[r] # "none"}
<1>1. /\ Ready /\ HasIndex(disk) /\ Begin("delete", p, Erasure(S))
      /\ UNCHANGED <<disk, state, live, withdrawn, dropped, resetting, keys, deferred, made, faults>>
  BY DEF Delete, Served, memory, calls, HasIndex
<1>2. S \subseteq Runs
  BY <1>1 DEF RunsOf
<1> HIDE DEF S
<1>3. PICK s : s = Erasure(S)
  OBVIOUS
<1>4. /\ writes = << >> /\ state = "up" /\ writes' = s /\ job' = [op |-> "delete", for |-> p]
      /\ Sound(disk) /\ Blank(disk, made) /\ Goal(disk, writes) = disk
  BY <1>1, <1>3 DEF Ready, Begin, IInv, Goal
<1>5. /\ Plan(disk, s, made) /\ s # << >>
      /\ OpenRows(Goal(disk, s)) \subseteq OpenRows(disk) \ S
      /\ \A r \in Runs \ S :
           /\ Goal(disk, s).artifact[r] = disk.artifact[r]
           /\ Goal(disk, s).index[r] = disk.index[r]
      /\ \A r \in S : ~Readable(Goal(disk, s).artifact[r])
  BY <1>1, <1>2, <1>3, <1>4, ErasurePlan
<1>6. Held' = Held /\ Held \subseteq Runs /\ Goal(disk', writes') = Goal(disk, s)
  BY <1>1, <1>4 DEF Held, IInv, Parts
<1>7. Parts'
  BY <1>1, <1>4, <1>5, <1>6 DEF IInv, Parts
<1>8. LiveIsOpen'
  <2>1. ASSUME NEW r \in Held
        PROVE  OpenIn(Goal(disk, s), r)
    <3>1. OpenIn(disk, r) /\ r \in Runs
      BY <1>4, <1>6 DEF IInv, LiveIsOpen
    <3> QED BY <3>1, <1>1, <1>5 DEF OpenIn
  <2> QED BY <1>6, <2>1 DEF LiveIsOpen
<1>9. DroppedIsLeft'
  <2>1. ASSUME NEW r \in dropped
        PROVE  Owner[r] \in Protected \/ ~Readable(Goal(disk, s).artifact[r])
    <3>1. r \in Runs
      BY <1>6 DEF Held
    <3>2. Owner[r] \in Protected \/ ~Readable(disk.artifact[r])
      BY <1>4 DEF IInv, DroppedIsLeft
    <3> QED BY <3>1, <3>2, <1>5
  <2> QED BY <1>1, <1>6, <2>1 DEF DroppedIsLeft
<1>10. GhostsHeld'
  <2>1. OpenRows(disk) \subseteq Held \union Waiting(keys)
    BY <1>4 DEF IInv, GhostsHeld
  <2> QED BY <2>1, <1>1, <1>5, <1>6 DEF GhostsHeld, Waiting
<1>11. (UnlockWaits /\ Stopped /\ HeldIsSpared)'
  BY <1>1, <1>4 DEF UnlockWaits, Stopped, HeldIsSpared
<1> QED BY <1>1, <1>4, <1>5, <1>7, <1>8, <1>9, <1>10, <1>11 DEF IInv

\* unlock_user: the runs that waited for the password are recovered; until the
\* last write they wait still.
LEMMA UnlockKeeps ==
  ASSUME IInv, NEW p \in Profiles, Unlock(p)
  PROVE  IInv'
<1> DEFINE todo == deferred \intersect RunsOf(p) \intersect ActiveRuns
<1>1. /\ Ready /\ HasIndex(disk) /\ p \in Protected
      /\ keys' = keys \union {p}
      /\ UNCHANGED <<disk, state, live, withdrawn, dropped, resetting, deferred, made, faults>>
  BY DEF Unlock, UnlockTo, Served, calls, HasIndex
<1>2. PICK kept, lost :
        IF todo = {} THEN UNCHANGED <<writes, job>>
        ELSE Begin("unlock", p, RecoverySteps(disk, todo, kept, lost))
  BY DEF Unlock, UnlockTo
<1>3. /\ writes = << >> /\ state = "up" /\ job.op = "none" /\ Goal(disk, writes) = disk
      /\ Sound(disk) /\ Blank(disk, made) /\ Held' = Held
  BY <1>1 DEF Ready, IInv, Parts, Goal, Held
<1>4. ActiveRuns = OpenRows(disk) /\ todo \subseteq OpenRows(disk) /\ OpenRows(disk) \subseteq Runs
  BY DEF ActiveRuns, OpenRows
<1>5. OpenRows(disk) \subseteq Held \union {r \in deferred : Owner[r] \in Protected \ keys}
  BY <1>3 DEF IInv, GhostsHeld, Waiting
<1>6. \A r \in OpenRows(disk) \ todo : r \in Held \/ (r \in deferred /\ Owner[r] \in Protected \ keys')
  BY <1>1, <1>4, <1>5 DEF RunsOf
<1>7. todo \subseteq Runs \ Held /\ Held \subseteq Runs
  BY DEF IInv, Parts, RunsOf, Held
<1> HIDE DEF todo
<1>8. CASE todo = {}
  <2>1. UNCHANGED <<writes, job>>
    BY <1>2, <1>8
  <2>2. Parts' /\ LiveIsOpen' /\ DroppedIsLeft'
    BY <1>1, <1>3, <2>1 DEF IInv, Parts, LiveIsOpen, DroppedIsLeft
  <2>3. GhostsHeld'
    BY <1>1, <1>3, <1>6, <1>8, <2>1 DEF GhostsHeld, Waiting
  <2>4. (UnlockWaits /\ Stopped /\ HeldIsSpared)'
    BY <1>1, <1>3, <2>1 DEF UnlockWaits, Stopped, HeldIsSpared
  <2> QED BY <1>1, <1>3, <2>1, <2>2, <2>3, <2>4 DEF IInv
<1>9. CASE todo # {}
  <2>1. PICK s : s = RecoverySteps(disk, todo, kept, lost)
    OBVIOUS
  <2>2. writes' = s /\ job' = [op |-> "unlock", for |-> p]
    BY <1>2, <1>9, <2>1 DEF Begin
  <2>3. /\ Plan(disk, s, made) /\ s # << >>
        /\ \A i \in 1..Len(s) : OpenRows(s[i]) \subseteq OpenRows(disk)
        /\ OpenRows(Goal(disk, s)) \subseteq OpenRows(disk) \ todo
        /\ Spares(disk, s, Runs \ todo)
    <3>1. PICK m : m = made
      OBVIOUS
    <3>2. Sound(disk) /\ HasIndex(disk) /\ Blank(disk, m) /\ todo \subseteq OpenRows(disk)
      BY <1>1, <1>3, <1>4, <3>1
    <3>3. Plan(disk, s, m) /\ s # << >> /\ OpenRows(Goal(disk, s)) \subseteq OpenRows(disk) \ todo
      BY <2>1, <3>2, RecoveryPlan
    <3>4. \A i \in 1..Len(s) : OpenRows(s[i]) \subseteq OpenRows(disk)
      BY <2>1, <3>2, RecoveryPlan
    <3>5. Spares(disk, s, Runs \ todo)
      BY <2>1, <3>2, RecoveryPlan
    <3> QED BY <3>1, <3>3, <3>4, <3>5
  <2>4. Parts'
    BY <1>1, <1>3, <2>2, <2>3 DEF IInv, Parts
  <2>5. Held \subseteq Runs \ todo
    BY <1>7
  <2>6. HeldIsSpared'
    BY <1>1, <1>3, <2>2, <2>3, <2>5 DEF HeldIsSpared, Spares
  <2>7. Goal(disk', writes') = Goal(disk, s) /\ Goal(disk, s) = s[Len(s)] /\ Len(s) \in 1..Len(s)
    <3>1. s \in Seq(Disks) /\ Len(s) \in Nat \ {0}
      BY <2>3, EmptySeq DEF Plan
    <3> QED BY <1>1, <2>2, <2>3, <3>1 DEF Goal
  <2>8. \A r \in Held : /\ Goal(disk, s).artifact[r] = disk.artifact[r]
                        /\ Goal(disk, s).index[r] = disk.index[r]
                        /\ (HasIndex(Goal(disk, s)) <=> HasIndex(disk))
    BY <2>3, <2>5, <2>7 DEF Spares
  <2>9. LiveIsOpen'
    BY <1>3, <2>7, <2>8 DEF IInv, LiveIsOpen, OpenIn
  <2>10. DroppedIsLeft'
    BY <1>1, <1>3, <2>7, <2>8 DEF IInv, DroppedIsLeft, Held
  <2>11. GhostsHeld'
    BY <1>1, <1>3, <1>6, <2>3, <2>7 DEF GhostsHeld, Waiting
  <2>12. UnlockWaits'
    <3>1. OpenRows(disk) \subseteq Held \union {r \in deferred : Owner[r] \in Protected \ (keys' \ {p})}
      BY <1>1, <1>5
    <3> QED BY <1>1, <1>3, <2>2, <2>3, <3>1 DEF UnlockWaits, Waiting
  <2>13. Stopped'
    BY <1>1, <1>3 DEF Stopped
  <2> QED BY <1>1, <1>3, <2>2, <2>3, <2>4, <2>6, <2>9, <2>10, <2>11, <2>12, <2>13 DEF IInv
<1> QED BY <1>8, <1>9

\* _global_mutation begins, and the directory loses its files, its index among
\* them, one by one.
LEMMA RemovalKeeps ==
  ASSUME IInv, BeginReset \/ RemoveFile
  PROVE  IInv' /\ Keeps(disk, disk')
<1>1. /\ writes = << >> /\ writes' = << >> /\ job' = job
      /\ UNCHANGED <<state, live, withdrawn, dropped, keys, deferred, made, faults>>
      /\ resetting' \in BOOLEAN
  BY DEF BeginReset, RemoveFile, Ready, memory, calls, IInv, Parts
<1>2. /\ Sound(disk) /\ disk \in Disks /\ Blank(disk, made)
      /\ withdrawn \subseteq live /\ faults \in 0..MaxFaults
      /\ NoArtifact \in Known /\ NoArtifact.status = "none"
  BY WrittenArtifacts DEF IInv, Sound, Parts, NoArtifact
<1>3. SUFFICES /\ Sound(disk') /\ Blank(disk', made)
               /\ OpenRows(disk') \subseteq OpenRows(disk)
               /\ \A r \in Runs : Readable(disk'.artifact[r]) =>
                    /\ disk'.artifact[r] = disk.artifact[r]
                    /\ ~HasIndex(disk') \/ (HasIndex(disk) /\ disk'.index[r] = disk.index[r])
               /\ Keeps(disk, disk')
  BY <1>1, <1>2, RestKeeps
<1>4. CASE disk' = disk
  BY <1>2, <1>4 DEF Keeps, Sound, Disks
<1>5. ASSUME NEW r \in Runs, disk' = Unfiled(disk, r)
      PROVE  /\ Sound(disk') /\ Blank(disk', made)
             /\ OpenRows(disk') \subseteq OpenRows(disk)
             /\ \A q \in Runs : Readable(disk'.artifact[q]) =>
                  /\ disk'.artifact[q] = disk.artifact[q]
                  /\ ~HasIndex(disk') \/ (HasIndex(disk) /\ disk'.index[q] = disk.index[q])
             /\ Keeps(disk, disk')
  <2>1. disk' = Filed(disk, r, NoArtifact)
    BY <1>5 DEF Filed, Unfiled
  <2>2. /\ disk' \in Disks /\ disk'.index = disk.index /\ disk'.quarantine = disk.quarantine
        /\ (HasIndex(disk') <=> HasIndex(disk)) /\ disk'.torn = disk.torn
        /\ disk'.artifact = [disk.artifact EXCEPT ![r] = NoArtifact]
    BY <1>2, <2>1, FiledParts
  <2>3. \A q \in Runs : disk'.artifact[q] = IF q = r THEN NoArtifact ELSE disk.artifact[q]
    BY <1>2, <2>2 DEF Disks
  <2>4. ~Readable(NoArtifact)
    BY <1>2 DEF Readable
  <2>5. \A q \in Runs : q \in Content(disk') => q \in Content(disk)
    BY <1>2, <2>2, <2>3 DEF Content
  <2>6. Sound(disk')
    BY <1>2, <2>2, <2>3, <2>4, <2>5 DEF Sound
  <2>7. Blank(disk', made)
    BY <1>2, <2>2, <2>3 DEF Blank
  <2>8. Keeps(disk, disk')
    BY <2>2, <2>3, <2>4 DEF Keeps
  <2> QED BY <2>2, <2>3, <2>4, <2>6, <2>7, <2>8 DEF OpenRows, Sound, Disks
<1>6. ASSUME NEW r \in disk.quarantine, disk' = [disk EXCEPT !.quarantine = @ \ {r}]
      PROVE  /\ Sound(disk') /\ Blank(disk', made)
             /\ OpenRows(disk') \subseteq OpenRows(disk)
             /\ \A q \in Runs : Readable(disk'.artifact[q]) =>
                  /\ disk'.artifact[q] = disk.artifact[q]
                  /\ ~HasIndex(disk') \/ (HasIndex(disk) /\ disk'.index[q] = disk.index[q])
             /\ Keeps(disk, disk')
  <2>1. /\ disk' \in Disks /\ disk'.index = disk.index /\ disk'.artifact = disk.artifact
        /\ (HasIndex(disk') <=> HasIndex(disk)) /\ disk'.torn = disk.torn
        /\ disk'.quarantine = disk.quarantine \ {r}
    BY <1>2, <1>6 DEF Disks, HasIndex
  <2>2. \A q \in Runs : q \in Content(disk') => q \in Content(disk)
    BY <2>1 DEF Content
  <2>3. Sound(disk') /\ Blank(disk', made)
    BY <1>2, <2>1, <2>2 DEF Sound, Blank
  <2> QED BY <2>1, <2>3 DEF OpenRows, Keeps, Sound, Disks
<1>7. ASSUME disk' = Unindexed(disk)
      PROVE  /\ Sound(disk') /\ Blank(disk', made)
             /\ OpenRows(disk') \subseteq OpenRows(disk)
             /\ \A q \in Runs : Readable(disk'.artifact[q]) =>
                  /\ disk'.artifact[q] = disk.artifact[q]
                  /\ ~HasIndex(disk') \/ (HasIndex(disk) /\ disk'.index[q] = disk.index[q])
             /\ Keeps(disk, disk')
  <2>1. PICK rows : rows = [q \in Runs |-> "none"]
    OBVIOUS
  <2>2. PICK left : left = Content(disk)
    OBVIOUS
  <2>3. rows \in [Runs -> Rows] /\ left \in SUBSET Runs
    BY <1>2, <2>1, <2>2 DEF Rows, Content, Disks
  <2>4. disk' = [disk EXCEPT !.indexed = FALSE, !.index = rows, !.torn = @ \union left]
    BY <1>7, <2>1, <2>2 DEF Unindexed
  <2>5. /\ disk' \in Disks /\ disk'.index = rows /\ disk'.artifact = disk.artifact
        /\ ~HasIndex(disk') /\ disk'.torn = disk.torn \union left
        /\ disk'.quarantine = disk.quarantine
    BY <1>2, <2>3, <2>4 DEF Disks, HasIndex
  <2>6. \A q \in Runs : disk'.index[q] = "none"
    BY <2>1, <2>5
  <2>7. \A q \in Runs : q \in Content(disk') => q \in disk'.torn
    BY <2>2, <2>5 DEF Content
  <2>8. \A q \in Runs : q \notin disk'.torn =>
          q \notin disk'.quarantine /\ disk'.artifact[q].status = "none"
    BY <2>2, <2>5 DEF Content
  <2>9. "none" \notin Active \union Terminal
    BY DEF Active, Terminal
  <2>10. Sound(disk')
    BY <2>5, <2>6, <2>7, <2>8, <2>9 DEF Sound
  <2>11. Blank(disk', made)
    BY <1>2, <2>5, <2>6 DEF Blank
  <2>12. Keeps(disk, disk')
    BY <2>5, <2>6 DEF Keeps
  <2> QED BY <2>5, <2>6, <2>9, <2>10, <2>11, <2>12 DEF OpenRows
<1>8. \/ disk' = disk
      \/ \E r \in Runs : disk' = Unfiled(disk, r)
      \/ \E r \in disk.quarantine : disk' = [disk EXCEPT !.quarantine = @ \ {r}]
      \/ disk' = Unindexed(disk)
  BY DEF BeginReset, RemoveFile
<1> QED BY <1>4, <1>5, <1>6, <1>7, <1>8

\* An empty index is written over what is left.
LEMMA ClearedParts ==
  ASSUME NEW d, Sound(d), NEW m, Blank(d, m), NEW e, e = Cleared(d)
  PROVE  /\ Sound(e) /\ Blank(e, m) /\ Keeps(d, e) /\ OpenRows(e) = {}
         /\ \A r \in Runs : ~Readable(e.artifact[r])
<1>1. d \in Disks /\ NoArtifact \in Known /\ NoArtifact.status = "none" /\ ~Readable(NoArtifact)
  BY WrittenArtifacts DEF Sound, NoArtifact, Readable
<1>2. PICK rows, arts : rows = [r \in Runs |-> "none"] /\ arts = [r \in Runs |-> NoArtifact]
  OBVIOUS
<1>3. rows \in [Runs -> Rows] /\ arts \in [Runs -> Known]
  BY <1>1, <1>2 DEF Rows
<1>4. e = [artifact |-> arts, index |-> rows, quarantine |-> d.quarantine,
           indexed |-> TRUE, torn |-> d.quarantine]
  BY <1>2 DEF Cleared, Nothing
<1>5. /\ e \in Disks /\ e.artifact = arts /\ e.index = rows /\ e.quarantine = d.quarantine
      /\ HasIndex(e) /\ e.torn = d.quarantine
  BY <1>1, <1>3, <1>4 DEF Disks, HasIndex
<1>6. \A r \in Runs : e.artifact[r] = NoArtifact /\ e.index[r] = "none"
  BY <1>2, <1>5
<1>7. "none" \notin Active \union Terminal
  BY DEF Active, Terminal
<1>8. Sound(e)
  BY <1>1, <1>5, <1>6, <1>7 DEF Sound
<1>9. Blank(e, m)
  BY <1>5, <1>6 DEF Blank
<1>10. Keeps(d, e)
  BY <1>1, <1>6 DEF Keeps
<1> QED BY <1>1, <1>6, <1>7, <1>8, <1>9, <1>10 DEF OpenRows

\* reset_all ends, or raises: with the keys gone or not, with an empty index or not.
LEMMA ResetKeeps ==
  ASSUME IInv, ResetStore \/ ResetRaises
  PROVE  IInv' /\ Keeps(disk, disk')
<1>1. /\ writes = << >> /\ writes' = << >> /\ job' = job /\ resetting' = FALSE
      /\ UNCHANGED <<state, live, withdrawn, dropped, made>>
      /\ keys' = keys \/ keys' = {}
      /\ faults' = faults \/ Fault
  BY DEF ResetStore, ResetRaises, Ready
<1>2. Sound(disk) /\ disk \in Disks /\ Blank(disk, made) /\ withdrawn \subseteq live
  BY DEF IInv, Sound, Parts
<1>3. faults' \in 0..MaxFaults
  BY <1>1, FaultsAssumption DEF IInv, Parts, Fault
<1>4. /\ disk' = disk \/ disk' = Cleared(disk)
      /\ deferred' = deferred \/ (deferred' = {} /\ disk' = Cleared(disk))
  BY DEF ResetStore, ResetRaises
<1>5. CASE disk' = disk /\ deferred' = deferred
  <2>1. /\ OpenRows(disk') \subseteq OpenRows(disk)
        /\ \A q \in Runs : Readable(disk'.artifact[q]) =>
             /\ disk'.artifact[q] = disk.artifact[q]
             /\ ~HasIndex(disk') \/ (HasIndex(disk) /\ disk'.index[q] = disk.index[q])
    BY <1>2, <1>5 DEF Disks
  <2>2. Sound(disk') /\ Blank(disk', made) /\ keys' \subseteq keys /\ resetting' \in BOOLEAN
        /\ withdrawn' \subseteq live
    BY <1>1, <1>2, <1>5
  <2>3. IInv'
    BY <1>1, <1>3, <1>5, <2>1, <2>2, RestKeeps
  <2> QED BY <2>3, <1>5 DEF Keeps
<1>6. CASE disk' = Cleared(disk)
  <2>1. /\ Sound(disk') /\ Blank(disk', made) /\ Keeps(disk, disk') /\ OpenRows(disk') = {}
        /\ \A r \in Runs : ~Readable(disk'.artifact[r])
    <3>1. PICK e, m : e = disk' /\ m = made
      OBVIOUS
    <3>2. Blank(disk, m) /\ e = Cleared(disk)
      BY <1>2, <1>6, <3>1
    <3>3. /\ Sound(e) /\ Blank(e, m) /\ Keeps(disk, e) /\ OpenRows(e) = {}
          /\ \A r \in Runs : ~Readable(e.artifact[r])
      BY <1>2, <3>2, ClearedParts
    <3> QED BY <3>1, <3>3
  <2>2. keys' \subseteq keys /\ resetting' \in BOOLEAN /\ withdrawn' \subseteq live
    BY <1>1, <1>2
  <2>3. IInv'
    BY <1>1, <1>3, <1>4, <2>1, <2>2, RestKeeps
  <2> QED BY <2>1, <2>3
<1> QED BY <1>4, <1>5, <1>6

\* The unlock fails between two of its writes: the disk is where it got to, and
\* what is left waits for the password again.
LEMMA UnlockFailsKeeps ==
  ASSUME IInv, UnlockFails
  PROVE  IInv'
<1>1. /\ job.op = "unlock" /\ writes # << >> /\ faults < MaxFaults
      /\ faults' = faults + 1
      /\ writes' = << >> /\ job' = Idle
      /\ keys' = keys \ {job.for}
      /\ UNCHANGED <<disk, state, live, withdrawn, dropped, resetting, deferred, made>>
  BY DEF UnlockFails, calls, Fault
<1>2. job'.op = "none" /\ state = "up" /\ Held' = Held
  BY <1>1 DEF Idle, IInv, Parts, Stopped, Held
<1>3. Plan(disk', writes', made')
  <2>1. << >> \in Seq(Disks) /\ Len(<< >>) = 0
    OBVIOUS
  <2> QED BY <1>1, <2>1 DEF Plan
<1>4. Parts'
  BY <1>1, <1>2, FaultsAssumption DEF IInv, Parts
<1>5. Len(writes) \in 1..Len(writes) /\ Goal(disk, writes) = writes[Len(writes)]
  <2>1. writes \in Seq(Disks) /\ Len(writes) \in Nat \ {0}
    BY <1>1, EmptySeq DEF IInv, Plan
  <2> QED BY <1>1, <2>1 DEF Goal
<1>6. \A r \in Held : /\ Goal(disk, writes).artifact[r] = disk.artifact[r]
                      /\ Goal(disk, writes).index[r] = disk.index[r]
                      /\ (HasIndex(Goal(disk, writes)) <=> HasIndex(disk))
  BY <1>1, <1>5 DEF IInv, HeldIsSpared, Spares
<1>7. Goal(disk', writes') = disk
  BY <1>1 DEF Goal
<1>8. LiveIsOpen'
  BY <1>2, <1>6, <1>7 DEF IInv, LiveIsOpen, OpenIn
<1>9. DroppedIsLeft'
  BY <1>1, <1>6, <1>7 DEF IInv, DroppedIsLeft, Held
<1>10. GhostsHeld'
  BY <1>1, <1>2, <1>7 DEF IInv, UnlockWaits, GhostsHeld, Waiting
<1>11. (UnlockWaits /\ Stopped /\ HeldIsSpared)'
  BY <1>1, <1>2 DEF UnlockWaits, Stopped, HeldIsSpared
<1> QED BY <1>1, <1>3, <1>4, <1>8, <1>9, <1>10, <1>11 DEF IInv

\* The next file is replaced.
LEMMA WriteKeeps ==
  ASSUME IInv, Write
  PROVE  IInv' /\ Keeps(disk, disk')
<1>1. /\ writes # << >> /\ disk' = Head(writes) /\ writes' = Tail(writes)
      /\ UNCHANGED <<live, withdrawn, dropped, resetting, keys, made, faults>>
  BY DEF Write, calls
<1>2. /\ Sound(disk') /\ Blank(disk', made') /\ Keeps(disk, disk')
      /\ Plan(disk', writes', made')
      /\ Goal(disk', writes') = Goal(disk, writes)
      /\ disk' = writes[1]
      /\ writes' \in Seq(Disks) /\ Len(writes') = Len(writes) - 1
      /\ \A i \in 1..Len(writes') : writes'[i] = writes[i + 1]
      /\ Len(writes) \in Nat \ {0}
  <2>1. PICK m : m = made
    OBVIOUS
  <2>2. Plan(disk, writes, m)
    BY <2>1 DEF IInv
  <2> QED BY <1>1, <2>1, <2>2, PlanTail
<1>3. /\ 1 \in 1..Len(writes)
      /\ \A i \in 1..Len(writes') : i + 1 \in 1..Len(writes)
  BY <1>2
<1>4. Held' = Held
  BY <1>1 DEF Held
<1>5. LiveIsOpen' /\ DroppedIsLeft'
  BY <1>1, <1>2, <1>4 DEF IInv, LiveIsOpen, DroppedIsLeft
<1>6. state # "down"
  BY <1>1 DEF IInv, Stopped
<1>7. OpenRows(Goal(disk, writes)) \subseteq Held \union Waiting(keys)
  BY <1>6 DEF IInv, GhostsHeld
<1>8. job' = job => HeldIsSpared'
  BY <1>1, <1>2, <1>3, <1>4 DEF IInv, HeldIsSpared, Spares
<1>9. CASE Len(writes) > 1
  <2>1. UNCHANGED <<job, state, deferred>>
    BY <1>9 DEF Write
  <2>2. writes' # << >>
    BY <1>2, <1>9, EmptySeq
  <2>3. Parts'
    BY <1>1, <1>4, <2>1, <2>2 DEF IInv, Parts
  <2>4. GhostsHeld'
    BY <1>1, <1>2, <1>4, <1>7, <2>1 DEF GhostsHeld, Waiting
  <2>5. UnlockWaits'
    BY <1>1, <1>2, <1>3, <1>4, <2>1 DEF IInv, UnlockWaits, Waiting
  <2>6. Stopped'
    BY <1>1, <1>6, <2>1, <2>2 DEF IInv, Stopped
  <2> QED BY <1>2, <1>5, <1>8, <2>1, <2>3, <2>4, <2>5, <2>6 DEF IInv
<1>10. CASE ~(Len(writes) > 1)
  <2>1. /\ job' = Idle /\ state' = "up"
        /\ deferred' = IF job.op = "unlock" THEN deferred \ RunsOf(job.for) ELSE deferred
    BY <1>10 DEF Write
  <2>2. writes' = << >> /\ job'.op = "none"
    BY <1>2, <1>10, <2>1, EmptySeq DEF Idle
  <2>3. Parts'
    BY <1>1, <1>4, <2>1, <2>2 DEF IInv, Parts
  <2>4. GhostsHeld'
    <3>1. job.op = "unlock" => job.for \in keys
      BY DEF IInv, UnlockWaits
    <3> QED BY <1>1, <1>2, <1>4, <1>7, <2>1, <3>1 DEF GhostsHeld, Waiting, RunsOf
  <2>5. (UnlockWaits /\ Stopped /\ HeldIsSpared)'
    BY <2>1, <2>2 DEF UnlockWaits, Stopped, HeldIsSpared
  <2> QED BY <1>2, <1>5, <2>3, <2>4, <2>5 DEF IInv
<1> QED BY <1>2, <1>9, <1>10

-----------------------------------------------------------------------------
(* The theorems. *)

\* A first start finds no files.
LEMMA InitHolds ==
  ASSUME Init
  PROVE  IInv
<1>1. /\ disk = Nothing /\ writes = << >> /\ job = Idle /\ state = "down"
      /\ live = {} /\ withdrawn = {} /\ dropped = {} /\ resetting = FALSE
      /\ keys = {} /\ deferred = {} /\ made = {} /\ faults = 0
  BY DEF Init
<1>2. NoArtifact \in Known /\ NoArtifact.status = "none"
  BY WrittenArtifacts DEF NoArtifact
<1>3. disk \in Disks /\ HasIndex(disk)
  BY <1>1, <1>2 DEF Nothing, Disks, Rows, HasIndex
<1>4. \A r \in Runs : /\ disk.artifact[r] = NoArtifact /\ disk.index[r] = "none"
                      /\ r \notin disk.quarantine
  BY <1>1 DEF Nothing
<1>5. Sound(disk) /\ Blank(disk, made)
  BY <1>2, <1>3, <1>4 DEF Sound, Blank, Terminal
<1>6. Plan(disk, writes, made)
  <2>1. << >> \in Seq(Disks) /\ Len(<< >>) = 0
    OBVIOUS
  <2> QED BY <1>1, <2>1 DEF Plan
<1>7. job.op = "none" /\ Held = {}
  BY <1>1 DEF Idle, Held
<1>8. Parts
  <2>1. resetting \in BOOLEAN
    BY <1>1, Zenon
  <2> QED BY <1>1, <1>7, <2>1, FaultsAssumption DEF Parts
<1>9. LiveIsOpen /\ DroppedIsLeft /\ GhostsHeld /\ UnlockWaits /\ Stopped /\ HeldIsSpared
  BY <1>1, <1>7 DEF LiveIsOpen, DroppedIsLeft, GhostsHeld, UnlockWaits, Stopped, HeldIsSpared
<1> QED BY <1>5, <1>6, <1>8, <1>9 DEF IInv

\* A disk loses nothing to itself.
LEMMA KeepsItself ==
  ASSUME NEW d
  PROVE  Keeps(d, d)
BY DEF Keeps

\* Every step keeps the invariant, and the outcomes on the disk.
LEMMA NextKeeps ==
  ASSUME IInv, [Next]_vars
  PROVE  IInv' /\ Keeps(disk, disk')
<1>1. UNCHANGED disk => Keeps(disk, disk')
  BY KeepsItself
<1>2. CASE UNCHANGED vars
  BY <1>1, <1>2, StutterKeeps DEF vars
<1>3. ASSUME NEW r \in Runs, Step(r)
      PROVE  IInv' /\ Keeps(disk, disk')
  <2>1. UNCHANGED disk
    BY <1>3 DEF Step, Create, Mark, Finish, Withdraw, Drop
  <2> QED BY <1>1, <1>3, <2>1, StepKeeps
<1>4. ASSUME NEW r \in Runs, Damage(r)
      PROVE  IInv' /\ Keeps(disk, disk')
  BY <1>4, DamageKeeps
<1>5. ASSUME NEW p \in Profiles, Change(p)
      PROVE  IInv' /\ Keeps(disk, disk')
  <2>1. UNCHANGED disk
    BY <1>5 DEF Change, Unlock, UnlockTo, Lock, Delete
  <2>2. IInv'
    BY <1>5, UnlockKeeps, LockKeeps, DeleteKeeps DEF Change
  <2> QED BY <1>1, <2>1, <2>2
<1>6. CASE Start
  <2>1. UNCHANGED disk
    BY <1>6 DEF Start, StartRecovery
  <2> QED BY <1>1, <1>6, <2>1, StartKeeps
<1>7. CASE Write
  BY <1>7, WriteKeeps
<1>8. CASE UnlockFails
  <2>1. UNCHANGED disk
    BY <1>8 DEF UnlockFails
  <2> QED BY <1>1, <1>8, <2>1, UnlockFailsKeeps
<1>9. CASE Reset
  BY <1>9, RemovalKeeps, ResetKeeps DEF Reset
<1>10. CASE Crash
  <2>1. UNCHANGED disk
    BY <1>10 DEF Crash
  <2> QED BY <1>1, <1>10, <2>1, CrashKeeps
<1> QED BY <1>2, <1>3, <1>4, <1>5, <1>6, <1>7, <1>8, <1>9, <1>10 DEF Next

\* The invariant of the runs follows.
LEMMA InvariantMeans ==
  ASSUME IInv
  PROVE  TypeOK /\ DiskIsSound /\ RunsAreHeld
<1>1. Sound(disk) /\ \A i \in 1..Len(writes) : Sound(writes[i])
  BY DEF IInv, Plan
<1>2. /\ DiskType(disk) /\ OneEnding(disk) /\ IndexFollows(disk) /\ ContentIsReachable(disk)
      /\ \A i \in 1..Len(writes) : DiskType(writes[i])
  BY <1>1, SoundDisks
<1>3. TypeOK
  <2>1. deferred \subseteq Runs \ (live \union dropped)
    BY DEF IInv, Parts, Held
  <2> QED BY <1>2, <2>1 DEF TypeOK, IInv, Parts
<1>4. NoGhostRuns
  <2>1. SUFFICES ASSUME Ready, NEW r \in ActiveRuns
                 PROVE  r \in live \/ Left(r) \/ (r \in deferred /\ Owner[r] \in Protected \ keys)
    BY DEF NoGhostRuns
  <2>2. Goal(disk, writes) = disk /\ state # "down"
    BY <2>1 DEF Ready, Goal
  <2>3. r \in Held \union Waiting(keys)
    BY <2>2 DEF OpenRows, ActiveRuns, IInv, GhostsHeld
  <2>4. r \in dropped => Left(r)
    BY <2>2 DEF IInv, DroppedIsLeft, Left
  <2> QED BY <2>3, <2>4 DEF Held, Waiting
<1>5. RecoverySparesLive
  BY DEF IInv, HeldIsSpared, Spares, Held, RecoverySparesLive
<1> QED BY <1>2, <1>3, <1>4, <1>5 DEF DiskIsSound, RunsAreHeld

\* At every instant of every operation, recovery, crash and restart the artifact
\* and the index row of a run agree: no second ending, no row that says ended
\* over a file that says otherwise, and no file that the index does not know but
\* those a reset has left (run_store.py writes the artifact first, api_service.py
\* looks for an ending; reset_all may lose the index before the files).
THEOREM DiskStaysSound == Spec => []DiskIsSound
<1>1. Init => IInv
  BY InitHolds
<1>2. IInv /\ [Next]_vars => IInv'
  BY NextKeeps
<1>3. IInv => DiskIsSound
  BY InvariantMeans
<1> QED BY <1>1, <1>2, <1>3, PTL DEF Spec

\* Between operations every run that the index shows as active is held by the
\* service or waits for its profile's password, and a recovery never touches a
\* run the service holds (_recover_incomplete_runs, unlock_user): the one
\* exception is a withdrawn run whose profile was locked or reset before the
\* call that was to fail it (cancel_run, _profile_has_active_runs_locked).
THEOREM RunsStayHeld == Spec => []RunsAreHeld
<1>1. Init => IInv
  BY InitHolds
<1>2. IInv /\ [Next]_vars => IInv'
  BY NextKeeps
<1>3. IInv => RunsAreHeld
  BY InvariantMeans
<1> QED BY <1>1, <1>2, <1>3, PTL DEF Spec

\* An outcome on the disk is final: no crash between two files and no second
\* recovery turns a completed run into a failed one (fail_incomplete_runs).
THEOREM OutcomesStay == Spec => OutcomeKept
<1>1. Init => IInv
  BY InitHolds
<1>2. IInv /\ [Next]_vars => IInv'
  BY NextKeeps
<1>3. IInv /\ [Next]_vars => [Keeps(disk, disk')]_vars
  BY NextKeeps
<1> QED BY <1>1, <1>2, <1>3, PTL DEF Spec, OutcomeKept
=============================================================================
