----------------------------- MODULE Compaction -----------------------------
(***************************************************************************)
(* The messages of chat threads and their compaction (_execute_run,        *)
(* _execute_compact_run and the functions below them in api_service.py,    *)
(* _build_answer_messages in graph/nodes.py).  What the model is told of a *)
(* thread is a summary of its first messages, and the others as they are.  *)
(* A chat run may replace more messages by a longer summary before and     *)
(* after it answers, and a compact run does nothing else; the summary is   *)
(* asked for by a helper thread, which may answer late.  Other threads     *)
(* duplicate and branch what is saved.                                     *)
(*                                                                         *)
(* A message is [id, role, size] and a summary [covers, size]: covers      *)
(* names the messages that the model was given to summarise, and sizes are *)
(* in tokens.  Counting is exact.  One worker executes the runs.           *)
(***************************************************************************)
EXTENDS Integers, FiniteSetsExt, SequencesExt

CONSTANTS
  MaxThreads,    \* threads are 1..MaxThreads; thread 1 has messages at the start
  MaxTurns,      \* bound on the runs that are executed (of the model)
  Sizes,         \* sizes of messages
  SummarySizes,  \* sizes of the summaries that the model gives
  Threshold,     \* _auto_compact_threshold: from here on a chat is compacted,
  Target,        \* _compaction_target_tokens: if it is larger than this
  BatchLimit,    \* max_chars of _select_messages_for_compaction
  Pasts,         \* the sizes of the messages that thread 1 may have at the start
  PromptBudget   \* what a prompt has room for besides the system prompt

ASSUME CompactionAssumption ==
  /\ MaxThreads \in Nat \ {0} /\ MaxTurns \in Nat
  /\ Sizes \subseteq Nat \ {0} /\ SummarySizes \subseteq Nat \ {0}
  /\ Pasts \subseteq Seq(Sizes)
  /\ Threshold \in Nat \ {0} /\ {Target, BatchLimit, PromptBudget} \subseteq Nat

ChatThreads == 1..MaxThreads

VARIABLES
  saved,    \* each thread's checkpoint: its messages, summary, count and marks
  turn,     \* the run that is executed: where it is, and its working copy
  turns,    \* runs begun
  helpers,  \* the helper threads that wait for the model
  stopped   \* the run is in _cancelled_runs

compactionVars == <<saved, turn, turns, helpers, stopped>>

NoSummary == [covers |-> {}, size |-> 0]
Nothing == [messages |-> <<>>, summary |-> NoSummary, count |-> 0, marks |-> {}]
Rest == [pc |-> "idle", manual |-> FALSE, auto |-> FALSE, thread |-> 1, work |-> Nothing,
         phase |-> "before", asked |-> 0, reply |-> [result |-> "none"],
         prompt |-> [summary |-> FALSE, from |-> 1]]

-----------------------------------------------------------------------------
(* What a thread is told as *)

Total(messages) == FoldLeft(LAMBDA sum, m : sum + m.size, 0, messages)
Raw(t) == SubSeq(t.messages, t.count + 1, Len(t.messages))

\* _count_thread_representation_tokens.
Tokens(t) == Total(Raw(t)) + t.summary.size

\* _select_messages_for_compaction: where the largest batch of whole units ends
\* that follows the compacted messages and fits, or 0. A user's message and the
\* answer to it are one unit.
UnitEnds(t, cutoff) ==
  {k \in (t.count + 1)..cutoff :
     ~(k < cutoff /\ t.messages[k].role = "user" /\ t.messages[k + 1].role = "assistant")}
Fitting(t, cutoff) ==
  {k \in UnitEnds(t, cutoff) : Total(SubSeq(t.messages, t.count + 1, k)) <= BatchLimit}
BatchEnd(t, cutoff) == IF Fitting(t, cutoff) = {} THEN 0 ELSE Max(Fitting(t, cutoff))

Given(t, upto) == {t.messages[k].id : k \in (t.count + 1)..upto}

\* _recent_prompt_messages: the binary search for the longest suffix that fits.
Suffix(raw, k) == Total(SubSeq(raw, k, Len(raw)))
Earliest(raw, room) ==
  LET search[s \in (1..(Len(raw) + 1)) \X (0..Len(raw)) \X (1..Len(raw))] ==
        LET low  == s[1]
            high == s[2]
            best == s[3]
            mid  == (low + high) \div 2
        IN  IF low > high THEN best
            ELSE IF Suffix(raw, mid) <= room THEN search[<<low, mid - 1, mid>>]
            ELSE search[<<mid + 1, high, best>>]
  IN  search[<<1, Len(raw), Len(raw)>>]

\* _build_answer_messages: the summary is left out if it does not fit beside the
\* latest message; a latest message that does not fit is refused.
Latest(t) == Last(t.messages).size
ShowsSummary(t) == t.summary.size > 0 /\ t.summary.size + Latest(t) <= PromptBudget
RoomFor(t) == PromptBudget - (IF ShowsSummary(t) THEN t.summary.size ELSE 0)
PromptOf(t) ==
  [summary |-> ShowsSummary(t),
   from |-> IF Total(Raw(t)) <= RoomFor(t) THEN t.count + 1
            ELSE t.count + Earliest(Raw(t), RoomFor(t))]

-----------------------------------------------------------------------------
\* Thread 1 has messages, the last of which may be unanswered (a branch).
Past(sizes) ==
  [Nothing EXCEPT !.messages =
     [k \in DOMAIN sizes |->
        [id |-> k, role |-> IF k % 2 = 1 THEN "user" ELSE "assistant", size |-> sizes[k]]]]

CompactionInit ==
  /\ \E sizes \in Pasts :
       saved = [t \in ChatThreads |-> IF t = 1 THEN Past(sizes) ELSE Nothing]
  /\ turn = Rest /\ turns = 0 /\ helpers = {} /\ stopped = FALSE

TurnAt(pc) == turn.pc = pc
TurnGoes(pc) == turn' = [turn EXCEPT !.pc = pc]
Work == turn.work
NextId == 10 * turns + 10   \* a number that no message has yet

\* The run ends: completed, failed or stopped.
TurnEnds == turn' = Rest /\ stopped' = FALSE

\* _execute_run: the thread as it is saved, and the new prompt. auto is the
\* client's auto_compact_long_chats.
BeginChat(t) ==
  /\ TurnAt("idle") /\ turns < MaxTurns
  /\ turns' = turns + 1
  /\ \E size \in Sizes, auto \in BOOLEAN :
       turn' = [Rest EXCEPT
         !.pc = "compact", !.thread = t, !.auto = auto,
         !.work = [saved[t] EXCEPT
           !.messages = Append(@, [id |-> NextId, role |-> "user", size |-> size])]]
  /\ UNCHANGED <<saved, helpers, stopped>>

\* _execute_compact_run; one of an empty thread fails at once.
BeginCompact(t) ==
  /\ TurnAt("idle") /\ turns < MaxTurns
  /\ turns' = turns + 1
  /\ turn' = [Rest EXCEPT !.pc = IF saved[t].messages = <<>> THEN "idle" ELSE "compact",
                          !.thread = t, !.manual = TRUE, !.work = saved[t]]
  /\ UNCHANGED <<saved, helpers, stopped>>

\* cancel_run sets the mark; _raise_if_cancelled ends the run where it looks.
StopTurn ==
  /\ ~TurnAt("idle") /\ ~stopped
  /\ stopped' = TRUE
  /\ UNCHANGED <<saved, turn, turns, helpers>>
Stopping ==
  /\ stopped /\ turn.pc \in {"compact", "waiting", "answer", "answering", "save", "finish"}
  /\ TurnEnds
  /\ UNCHANGED <<saved, turns, helpers>>

-----------------------------------------------------------------------------
(* Asking for a summary *)

\* Before the answer the prompt is kept, after it the prompt and the answer; a
\* compact run keeps the last two messages.
Protected == IF turn.manual \/ turn.phase = "after" THEN 2 ELSE 1
Cutoff == Len(Work.messages) - Protected

\* _compaction_model_call_budget: one call in a chat run.
Budget == ~turn.manual => turn.asked = 0

\* _maybe_compact_context looks whether the thread is too long.
Needed == \/ turn.manual
          \/ turn.auto /\ Tokens(Work) >= Threshold /\ Tokens(Work) > Target

\* A helper is asked about the messages up to upto, and the present summary.
\* (AskAnew does not give the summary to the model.)
AskAnew(upto) ==
  /\ turn' = [turn EXCEPT !.pc = "waiting", !.asked = @ + 1, !.reply = [result |-> "none"]]
  /\ helpers' = helpers \cup
       {[run |-> turns, call |-> turn.asked + 1, upto |-> upto, covers |-> Given(Work, upto)]}
Ask(upto) ==
  /\ turn' = [turn EXCEPT !.pc = "waiting", !.asked = @ + 1, !.reply = [result |-> "none"]]
  /\ helpers' = helpers \cup
       {[run |-> turns, call |-> turn.asked + 1, upto |-> upto,
         covers |-> Work.summary.covers \cup Given(Work, upto)]}

\* _summarize_message_batch: the oldest raw messages.
AskSummary ==
  /\ TurnAt("compact") /\ Needed /\ Budget
  /\ BatchEnd(Work, Cutoff) > 0
  /\ Ask(BatchEnd(Work, Cutoff))
  /\ UNCHANGED <<saved, turns, stopped>>

\* _tighten_thread_summary: there are no more raw messages to replace.
CanTighten == Cutoff <= Work.count /\ Work.summary.size > 0
AskTighter ==
  /\ TurnAt("compact") /\ Needed /\ Budget
  /\ CanTighten
  /\ Ask(Work.count)
  /\ UNCHANGED <<saved, turns, stopped>>

\* Where a chat run goes when its compaction is over; a compact run that found
\* nothing to replace fails.
AfterCompaction == IF turn.phase = "before" THEN "answer" ELSE "save"
LeaveCompaction == IF turn.manual THEN TurnEnds
                   ELSE TurnGoes(AfterCompaction) /\ UNCHANGED stopped

NotCompacted ==
  /\ TurnAt("compact")
  /\ Needed /\ Budget => BatchEnd(Work, Cutoff) = 0 /\ ~CanTighten
  /\ LeaveCompaction
  /\ UNCHANGED <<saved, turns, helpers>>

\* The model answers a helper, or fails it. The answer goes into the queue of the
\* call that started the helper.
OwnQueue(h) == TurnAt("waiting") /\ h.run = turns /\ h.call = turn.asked
HelperReplies(h) ==
  /\ helpers' = helpers \ {h}
  /\ \E reply \in {[result |-> "error"]}
               \cup [result : {"ok"}, size : SummarySizes, covers : {h.covers}, upto : {h.upto}] :
       turn' = IF OwnQueue(h) THEN [turn EXCEPT !.reply = reply] ELSE turn
  /\ UNCHANGED <<saved, turns, stopped>>

\* The deadline of _invoke_compaction_model, or the model's failure. What is open
\* at the provider is aborted; the helper may still go on.
Unavailable ==
  /\ TurnAt("waiting") /\ ~stopped
  /\ turn.reply.result \in {"none", "error"}
  /\ LeaveCompaction
  /\ UNCHANGED <<saved, turns, helpers>>

-----------------------------------------------------------------------------
(* Accepting a summary *)

Summarised(reply) ==
  [Work EXCEPT !.summary = [covers |-> reply.covers, size |-> reply.size], !.count = reply.upto]

\* _persist_compaction_event: the mark in the timeline of the working copy.
Marked(t) == [t EXCEPT !.marks = @ \cup {t.count}]

\* update_state without messages, and with them.
Checkpoint(t) == [saved EXCEPT ![turn.thread] = [t EXCEPT !.messages = saved[turn.thread].messages]]

\* A summary is accepted if it makes the thread shorter. (AcceptsAny.)
AcceptsAny(new) == TRUE
Accepts(new) == Tokens(new) < Tokens(Work)

Rejected ==
  /\ TurnAt("waiting") /\ ~stopped /\ turn.reply.result = "ok"
  /\ ~Accepts(Summarised(turn.reply))
  /\ LeaveCompaction
  /\ UNCHANGED <<saved, turns, helpers>>

\* What a chat run accepts before its answer is saved at once, unless the new
\* prompt is part of it; what it accepts after the answer is saved with it.
Saves(new) ==
  IF turn.phase = "before" /\ new.count <= Len(saved[turn.thread].messages)
  THEN saved' = Checkpoint(Marked(new)) ELSE UNCHANGED saved
Accepted ==
  /\ TurnAt("waiting") /\ ~stopped /\ turn.reply.result = "ok"
  /\ LET new == Summarised(turn.reply) IN
     /\ Accepts(new)
     /\ Saves(new)
     /\ turn' = [turn EXCEPT !.work = Marked(new),
                             !.pc = IF turn.manual THEN "finish" ELSE AfterCompaction]
  /\ UNCHANGED <<turns, helpers, stopped>>

\* A compact run is completed after a last look at the mark.
CompletesCompact ==
  /\ TurnAt("finish") /\ ~stopped
  /\ TurnEnds
  /\ UNCHANGED <<saved, turns, helpers>>

-----------------------------------------------------------------------------
(* The answer *)

BuildPrompt ==
  /\ TurnAt("answer") /\ ~stopped
  /\ IF Latest(Work) > PromptBudget THEN TurnEnds
     ELSE /\ turn' = [turn EXCEPT !.pc = "answering", !.prompt = PromptOf(Work)]
          /\ UNCHANGED stopped
  /\ UNCHANGED <<saved, turns, helpers>>

\* The answer has come; or the model failed, and so does the run.
Answered ==
  /\ TurnAt("answering") /\ ~stopped
  /\ \E size \in Sizes :
       turn' = [turn EXCEPT
         !.pc = "compact", !.phase = "after",
         !.work.messages = Append(@, [id |-> NextId + 1, role |-> "assistant", size |-> size])]
  /\ UNCHANGED <<saved, turns, helpers, stopped>>
AnswerFails ==
  /\ TurnAt("answering")
  /\ TurnEnds
  /\ UNCHANGED <<saved, turns, helpers>>

\* update_state appends the prompt and the answer to the saved messages.
SaveTurn ==
  /\ TurnAt("save")
  /\ saved' = [saved EXCEPT ![turn.thread] =
       [Work EXCEPT !.messages = saved[turn.thread].messages \o
          SubSeq(Work.messages, Len(Work.messages) - 1, Len(Work.messages))]]
  /\ TurnEnds
  /\ UNCHANGED <<turns, helpers>>

\* The process ends and is started again.
ProcessDies ==
  /\ ~TurnAt("idle") /\ TurnEnds /\ helpers' = {}
  /\ UNCHANGED <<saved, turns>>

-----------------------------------------------------------------------------
(* Other threads of the service *)

Fresh(t) == t # 1 /\ saved[t] = Nothing /\ turn.thread # t

DuplicateThread(t, new) ==
  /\ Fresh(new) /\ saved[t].messages # <<>>
  /\ saved' = [saved EXCEPT ![new] = saved[t]]
  /\ UNCHANGED <<turn, turns, helpers, stopped>>

\* The first k messages, without their summary.
BranchThread(t, new, k) ==
  /\ Fresh(new) /\ k \in 1..Len(saved[t].messages)
  /\ saved' = [saved EXCEPT ![new] =
       [Nothing EXCEPT !.messages = SubSeq(saved[t].messages, 1, k)]]
  /\ UNCHANGED <<turn, turns, helpers, stopped>>

CompactionNext ==
  \/ \E t \in ChatThreads : BeginChat(t) \/ BeginCompact(t)
  \/ StopTurn \/ Stopping
  \/ AskSummary \/ AskTighter \/ NotCompacted
  \/ \E h \in helpers : HelperReplies(h)
  \/ Unavailable \/ Rejected \/ Accepted \/ CompletesCompact
  \/ BuildPrompt \/ Answered \/ AnswerFails \/ SaveTurn
  \/ ProcessDies
  \/ \E t, new \in ChatThreads : \/ DuplicateThread(t, new)
                                 \/ \E k \in 1..Len(saved[t].messages) : BranchThread(t, new, k)

CompactionSpec == CompactionInit /\ [][CompactionNext]_compactionVars

-----------------------------------------------------------------------------
(* Properties *)

\* What is saved, and the working copy of the run.
States == {saved[t] : t \in ChatThreads} \cup {Work}
Folded(t) == {t.messages[k].id : k \in 1..t.count}

\* The types; and a run asks the model for at most one summary.
CompactionTypeOK ==
  /\ turns \in 0..MaxTurns /\ stopped \in BOOLEAN /\ turn.asked <= 1
  /\ turn.phase \in {"before", "after"} /\ turn.thread \in ChatThreads
  /\ \A t \in States :
       /\ t.count \in 0..Len(t.messages) /\ t.summary.size \in Nat
       /\ \A k \in DOMAIN t.messages : t.messages[k].role \in {"user", "assistant"}

\* Every message that is not given to the model as it is has been given to it for
\* the summary, whatever was stopped, failed or answered late, and whatever a unit's
\* size: no part of the conversation silently disappears.
NothingDropped == \A t \in States : Folded(t) \subseteq t.summary.covers

\* A summary tells nothing that the thread does not say before the messages that
\* follow it: no late answer of another run's helper, and in a branch nothing of
\* what was said after it.
NothingForeign == \A t \in States : t.summary.covers \subseteq Folded(t)

\* The prompt that is being answered is given as it is, with as much before it as
\* fits and no more.
PromptFits ==
  TurnAt("answering") =>
    LET from == turn.prompt.from
        size(k) == Total(SubSeq(Work.messages, k, Len(Work.messages)))
                     + (IF turn.prompt.summary THEN Work.summary.size ELSE 0)
    IN  /\ from \in (Work.count + 1)..Len(Work.messages)
        /\ size(from) <= PromptBudget
        /\ from > Work.count + 1 => size(from - 1) > PromptBudget

\* The history shows every compaction that is in force, even if the run that made
\* it failed, was stopped or died.
Announced == \A t \in States : t.count > 0 => t.count \in t.marks

\* Nothing of a conversation is lost or made up, for the model or for the user.
ThreadIsKept ==
  CompactionTypeOK /\ NothingDropped /\ NothingForeign /\ PromptFits /\ Announced

\* A compaction never makes what the model is told of a thread longer.
ContextShrinks ==
  [][\A t \in ChatThreads :
       saved[t] # Nothing /\ saved'[t].summary # saved[t].summary =>
         Tokens(saved'[t]) < Tokens([saved[t] EXCEPT !.messages = saved'[t].messages])
    ]_compactionVars

=============================================================================
