--------------------------- MODULE ToolCallsProofs ---------------------------
(***************************************************************************)
(* What holds of the tool calls of a model and of the store of a companion *)
(* (ToolCalls, ContinuityStore) for every number of threads, calls, tries, *)
(* fields, sections, letters and faults.                                   *)
(*                                                                         *)
(* A request is the business of one thread, which goes from stage to stage *)
(* of its tool; each part of the store has an invariant of its own, and a  *)
(* step of a request upon another part leaves it alone.                    *)
(***************************************************************************)
EXTENDS ToolCalls, FiniteSetTheorems, TLAPS

USE StoreAssumption, CallsAssumption

-----------------------------------------------------------------------------
(* What a thread is doing *)

LogStages     == {"file"}
SessionStages == {"sections", "stores", "log", "older log"}
NoteStages    == {"remember", "revise", "forget", "insert", "mark"}
RowStages     == {"insert row", "find row", "read row", "write row", "drop row"}
SheetStages   == {"open", "fill", "fill removed", "unlink"}
PromptStages  == {"snapshot", "write section"}

\* The stages of a tool.
Fits(stage, tool) ==
  \/ tool = "closeout" /\ stage \in LogStages
  \/ tool = "summon" /\ stage \in SessionStages
  \/ tool = "remember" /\ stage = "remember"
  \/ tool = "update_memory" /\ stage = "revise"
  \/ tool = "forget" /\ stage = "forget"
  \/ tool = "send_message" /\ stage = "insert"
  \/ tool = "mark" /\ stage = "mark"
  \/ tool = "upsert" /\ stage \in RowStages \ {"drop row"}
  \/ tool = "resolve" /\ stage = "write row"
  \/ tool = "delete_record" /\ stage = "drop row"
  \/ tool \in {"update_sheet", "write_file"} /\ stage \in SheetStages \ {"unlink"}
  \/ tool = "delete_file" /\ stage = "unlink"
  \/ tool = "update_prompts" /\ stage \in PromptStages

Open(at, for, call, seen) ==
  [at |-> at, for |-> for, call |-> call, seen |-> seen]

Reply(for, call, ok) ==
  [at |-> "replied", for |-> for, call |-> call, ok |-> ok]

\* Requests that are being served, and answers the gateway has not taken.
JobOK(j) ==
  \/ j = Nothing
  \/ /\ j = Reply(j.for, j.call, j.ok)
     /\ j.for \in Nat \ {0} /\ j.ok \in BOOLEAN /\ Conforms(j.call)
  \/ /\ j = Open(j.at, j.for, j.call, j.seen)
     /\ j.for \in Nat /\ Conforms(j.call) /\ Fits(j.at, j.call.tool)

JobsOK ==
  /\ job = [t \in Threads |-> job[t]]
  /\ \A t \in Threads : JobOK(job[t])

\* What a step of thread t leaves of the others, and where it may take t.
Alone(t) == \A u \in Threads \ {t} : job'[u] = job[u]

MovesIn(S) ==
  \A u \in Threads :
    \/ job'[u] = job[u]
    \/ /\ job[u].at \in S \cup {"idle", "replied"}
       /\ job'[u].at \in S \cup {"idle", "replied"}

LEMMA OpenFields ==
  ASSUME NEW at, NEW for, NEW call, NEW seen
  PROVE  /\ Open(at, for, call, seen).at = at
         /\ Open(at, for, call, seen).for = for
         /\ Open(at, for, call, seen).call = call
         /\ Open(at, for, call, seen).seen = seen
         /\ Open(at, for, call, seen) = [at |-> at, for |-> for, call |-> call, seen |-> seen]
BY DEF Open

LEMMA ReplyFields ==
  ASSUME NEW for, NEW call, NEW ok
  PROVE  /\ Reply(for, call, ok).at = "replied"
         /\ Reply(for, call, ok).for = for
         /\ Reply(for, call, ok).call = call
         /\ Reply(for, call, ok).ok = ok
         /\ Reply(for, call, ok) = [at |-> "replied", for |-> for, call |-> call, ok |-> ok]
BY DEF Reply

LEMMA FitsStages ==
  ASSUME NEW s, NEW tool, Fits(s, tool)
  PROVE  s # "idle" /\ s # "replied"
BY DEF Fits, LogStages, SessionStages, NoteStages, RowStages, SheetStages, PromptStages

LEMMA NothingFields == Nothing.at = "idle"
BY DEF Nothing

\* A thread is idle when its stage says so.
LEMMA IdleAt ==
  ASSUME NEW j, JobOK(j)
  PROVE  /\ j = Nothing <=> j.at = "idle"
         /\ j.at = "replied" =>
              /\ j = Reply(j.for, j.call, j.ok)
              /\ j.for \in Nat \ {0} /\ j.ok \in BOOLEAN /\ Conforms(j.call)
         /\ j.at \notin {"idle", "replied"} =>
              /\ j = Open(j.at, j.for, j.call, j.seen)
              /\ j.for \in Nat /\ Conforms(j.call) /\ Fits(j.at, j.call.tool)
<1>1. CASE j = Nothing
  BY <1>1, NothingFields
<1>2. CASE /\ j = Reply(j.for, j.call, j.ok)
           /\ j.for \in Nat \ {0} /\ j.ok \in BOOLEAN /\ Conforms(j.call)
  <2>1. j.at = "replied"
    BY <1>2, ReplyFields
  <2>2. QED
    BY <1>2, <2>1, NothingFields
<1>3. CASE /\ j = Open(j.at, j.for, j.call, j.seen)
           /\ j.for \in Nat /\ Conforms(j.call) /\ Fits(j.at, j.call.tool)
  <2>1. j.at # "idle" /\ j.at # "replied"
    BY <1>3, FitsStages
  <2>2. QED
    BY <1>3, <2>1, NothingFields
<1>4. QED
  BY <1>1, <1>2, <1>3 DEF JobOK

LEMMA OpenOK ==
  ASSUME NEW at, NEW for \in Nat, NEW call, NEW seen, Conforms(call), Fits(at, call.tool)
  PROVE  JobOK(Open(at, for, call, seen))
BY OpenFields DEF JobOK

LEMMA ReplyOK ==
  ASSUME NEW for \in Nat \ {0}, NEW call, NEW ok \in BOOLEAN, Conforms(call)
  PROVE  JobOK(Reply(for, call, ok))
BY ReplyFields DEF JobOK

\* Replacing one job.
LEMMA PutJob ==
  ASSUME JobsOK, NEW t \in Threads, NEW j, JobOK(j), job' = [job EXCEPT ![t] = j]
  PROVE  /\ job'[t] = j /\ Alone(t) /\ JobsOK'
<1>1. job'[t] = j /\ \A u \in Threads \ {t} : job'[u] = job[u]
  BY DEF JobsOK
<1>2. job' = [u \in Threads |-> job'[u]]
  BY DEF JobsOK
<1>3. \A u \in Threads : JobOK(job'[u])
  BY <1>1 DEF JobsOK
<1>4. QED
  BY <1>1, <1>2, <1>3 DEF Alone, JobsOK, JobOK, Open, Reply, Nothing, Conforms

\* A thread goes on.
LEMMA GoMoved ==
  ASSUME JobsOK, NEW t \in Threads, NEW s, NEW seen, Go(t, s, seen),
         job[t].at \notin {"idle", "replied"}
  PROVE  /\ job' = [job EXCEPT ![t] = Open(s, job[t].for, job[t].call, seen)]
         /\ job'[t] = Open(s, job[t].for, job[t].call, seen) /\ Alone(t)
         /\ job'[t].at = s /\ job'[t].for = job[t].for /\ job'[t].call = job[t].call
         /\ job'[t].seen = seen
<1>1. job[t] = Open(job[t].at, job[t].for, job[t].call, job[t].seen)
  BY IdleAt DEF JobsOK
<1>2. [job[t] EXCEPT !.at = s, !.seen = seen] = Open(s, job[t].for, job[t].call, seen)
  <2> DEFINE j == job[t]
  <2>1. j = Open(j.at, j.for, j.call, j.seen)
    BY <1>1
  <2> HIDE DEF j
  <2>2. [j EXCEPT !.at = s, !.seen = seen] =
          [f \in DOMAIN j |-> IF f = "seen" THEN seen ELSE IF f = "at" THEN s ELSE j[f]]
    OBVIOUS
  <2>3. [f \in DOMAIN j |-> IF f = "seen" THEN seen ELSE IF f = "at" THEN s ELSE j[f]] =
          Open(s, j.for, j.call, seen)
    BY <2>1 DEF Open
  <2> USE DEF j
  <2>4. QED
    BY <2>2, <2>3
<1>3. job' = [job EXCEPT ![t] = Open(s, job[t].for, job[t].call, seen)]
  BY <1>2 DEF Go, JobsOK
<1>4. job'[t] = Open(s, job[t].for, job[t].call, seen) /\ Alone(t)
  BY <1>3 DEF JobsOK, Alone
<1>5. QED
  BY <1>3, <1>4, OpenFields

LEMMA GoFacts ==
  ASSUME JobsOK, NEW t \in Threads, NEW s, NEW seen, Go(t, s, seen),
         job[t].at \notin {"idle", "replied"}, Fits(s, job[t].call.tool)
  PROVE  /\ job'[t] = Open(s, job[t].for, job[t].call, seen)
         /\ Alone(t) /\ JobsOK'
<1>1. job[t].for \in Nat /\ Conforms(job[t].call)
  BY IdleAt DEF JobsOK
<1>2. JobOK(Open(s, job[t].for, job[t].call, seen))
  BY <1>1, OpenOK
<1>3. job' = [job EXCEPT ![t] = Open(s, job[t].for, job[t].call, seen)]
  BY GoMoved
<1>4. QED
  BY <1>2, <1>3, PutJob

\* What becomes of a request that is answered.
Answered(t, ok) == IF job[t].for = 0 THEN Nothing ELSE Reply(job[t].for, job[t].call, ok)

LEMMA NothingOK == JobOK(Nothing)
BY DEF JobOK

LEMMA AnsweredOK ==
  ASSUME JobsOK, NEW t \in Threads, NEW ok \in BOOLEAN,
         job[t].at \notin {"idle", "replied"}
  PROVE  /\ JobOK(Answered(t, ok))
         /\ Answered(t, ok).at \in {"idle", "replied"}
         /\ Answered(t, ok) = IF job[t].for = 0 THEN Nothing ELSE Replied(t, ok)
<1>1. job[t].for \in Nat /\ Conforms(job[t].call)
  BY IdleAt DEF JobsOK
<1>2. CASE job[t].for = 0
  BY <1>2, NothingOK, NothingFields DEF Answered
<1>3. CASE job[t].for # 0
  BY <1>1, <1>3, ReplyOK, ReplyFields DEF Answered, Replied
<1>4. QED
  BY <1>2, <1>3

LEMMA AnswerFacts ==
  ASSUME JobsOK, NEW t \in Threads, NEW ok \in BOOLEAN, Answer(t, ok),
         job[t].at \notin {"idle", "replied"}
  PROVE  /\ job'[t] = Answered(t, ok)
         /\ job'[t].at \in {"idle", "replied"}
         /\ Alone(t) /\ JobsOK'
<1>1. job' = [job EXCEPT ![t] = Answered(t, ok)]
  BY AnsweredOK DEF Answer, Replied, Answered
<1>2. QED
  BY <1>1, AnsweredOK, PutJob

LEMMA BeginFacts ==
  ASSUME JobsOK, NEW t \in Threads, NEW n \in Nat, NEW c, NEW stage, NEW seen,
         Begin(t, n, c, stage, seen), Conforms(c), Fits(stage, c.tool)
  PROVE  /\ job[t] = Nothing /\ job'[t] = Open(stage, n, c, seen)
         /\ Alone(t) /\ JobsOK'
         /\ passed' = {x \in passed : x[1] # t}
<1>1. job' = [job EXCEPT ![t] = Open(stage, n, c, seen)]
  BY DEF Begin, Open
<1>2. job'[t] = Open(stage, n, c, seen) /\ Alone(t) /\ JobsOK'
  BY <1>1, OpenOK, PutJob
<1>3. job[t] = Nothing /\ passed' = {x \in passed : x[1] # t}
  BY DEF Begin, Idle
<1>4. QED
  BY <1>2, <1>3

LEMMA BeginFields ==
  ASSUME JobsOK, NEW t \in Threads, NEW n \in Nat, NEW c, NEW stage, NEW seen,
         Begin(t, n, c, stage, seen), Conforms(c), Fits(stage, c.tool)
  PROVE  /\ job'[t].at = stage /\ job'[t].for = n /\ job'[t].call = c
         /\ job'[t].seen = seen
BY BeginFacts, OpenFields

LEMMA RefuseFacts ==
  ASSUME JobsOK, NEW t \in Threads, NEW n \in Nat, NEW c, Refuse(t, n, c), Conforms(c)
  PROVE  /\ job[t] = Nothing /\ job'[t] = Reply(n, c, FALSE) /\ n # 0
         /\ Alone(t) /\ JobsOK'
         /\ passed' = passed
<1>1. job' = [job EXCEPT ![t] = Reply(n, c, FALSE)]
  BY DEF Refuse, Reply
<1>2. QED
  BY <1>1, ReplyOK, PutJob DEF Refuse, Idle

LEMMA CollectFacts ==
  ASSUME JobsOK, NEW t \in Threads, Collect(t)
  PROVE  /\ job[t].at = "replied" /\ job'[t] = Nothing
         /\ Alone(t) /\ JobsOK'
BY NothingOK, PutJob DEF Collect, At

\* A kill, or an error that ends requests.
LEMMA InterruptFacts ==
  ASSUME JobsOK, NEW ts \in SUBSET Threads, Interrupt(ts)
  PROVE  /\ \A t \in Threads \ ts : job'[t] = job[t]
         /\ \A t \in ts : /\ job[t].at \notin {"idle", "replied"}
                          /\ job'[t] = Answered(t, FALSE)
                          /\ job'[t].at \in {"idle", "replied"}
         /\ JobsOK'
<1>1. \A t \in ts : job[t].at \notin {"idle", "replied"}
  <2> SUFFICES ASSUME NEW t \in ts PROVE job[t].at \notin {"idle", "replied"}
    OBVIOUS
  <2>1. job[t] # Nothing /\ job[t].at # "replied"
    BY DEF Interrupt, Idle, At
  <2>2. JobOK(job[t])
    BY DEF JobsOK
  <2>3. QED
    BY <2>1, <2>2, IdleAt
<1>2. \A t \in Threads \ ts : job'[t] = job[t]
  BY DEF Interrupt
<1>3. \A t \in ts : /\ job'[t] = Answered(t, FALSE)
                    /\ job'[t].at \in {"idle", "replied"}
                    /\ JobOK(job'[t])
  <2> SUFFICES ASSUME NEW t \in ts
               PROVE  /\ job'[t] = Answered(t, FALSE)
                      /\ job'[t].at \in {"idle", "replied"}
                      /\ JobOK(job'[t])
    OBVIOUS
  <2>1. job'[t] = IF job[t].for = 0 THEN Nothing ELSE Replied(t, FALSE)
    BY DEF Interrupt
  <2>2. QED
    BY <1>1, <2>1, AnsweredOK
<1>4. job' = [t \in Threads |-> job'[t]]
  BY DEF Interrupt
<1>5. \A t \in Threads : JobOK(job'[t])
  BY <1>2, <1>3 DEF JobsOK
<1>6. QED
  BY <1>1, <1>2, <1>3, <1>4, <1>5 DEF JobsOK, JobOK, Open, Reply, Nothing, Conforms

LEMMA AloneMoves ==
  ASSUME NEW t \in Threads, NEW S, Alone(t),
         job[t].at \in S \cup {"idle", "replied"}, job'[t].at \in S \cup {"idle", "replied"}
  PROVE  MovesIn(S)
BY DEF Alone, MovesIn

\* The steps of a request, by what it touches: its beginning, and its work.
LogStep(t) ==
  \/ \E n \in Nat : \E c : Conforms(c) /\ c.tool = "closeout" /\ AskCloseout(t, n, c)
  \/ FileCloseout(t)

SessionStep(t) ==
  \/ \E n \in Nat : \E c : Conforms(c) /\ c.tool = "summon" /\ AskSession(t, n, c)
  \/ ReadSection(t) \/ InstallLane(t) \/ ReadLog(t) \/ ReadOlderLog(t)

NoteStep(t) ==
  \/ \E n \in Nat : \E c :
       /\ Conforms(c)
       /\ \/ c.tool = "remember" /\ AskRemember(t, n, c)
          \/ c.tool = "update_memory" /\ AskNote(t, n, c, "revise")
          \/ c.tool = "forget" /\ AskNote(t, n, c, "forget")
          \/ c.tool = "send_message" /\ AskInsert(t, n, c)
          \/ c.tool = "mark" /\ AskMark(t, n, c)
  \/ Remember(t) \/ UpdateMemory(t) \/ Forget(t) \/ InsertCopy(t) \/ MarkLetters(t)

RowStep(t) ==
  \/ \E n \in Nat : \E c :
       /\ Conforms(c)
       /\ \/ c.tool = "upsert" /\ AskUpsert(t, n, c)
          \/ c.tool = "resolve" /\ AskRow(t, n, c, "write row")
          \/ c.tool = "delete_record" /\ AskRow(t, n, c, "drop row")
  \/ InsertRow(t) \/ FindRow(t) \/ WriteRow(t) \/ DeleteRow(t)

SheetStep(t) ==
  \/ \E n \in Nat : \E c :
       /\ Conforms(c)
       /\ \/ c.tool = "update_sheet" /\ AskUpdateSheet(t, n, c)
          \/ c.tool = "write_file" /\ AskWriteFile(t, n, c)
          \/ c.tool = "delete_file" /\ AskDeleteFile(t, n, c)
  \/ OpenFile(t) \/ FillFile(t) \/ FillRemoved(t) \/ Unlink(t)

PromptStep(t) ==
  \/ \E n \in Nat : \E c : Conforms(c) /\ c.tool = "update_prompts" /\ AskPrompts(t, n, c)
  \/ Snapshot(t) \/ WriteSection(t)

LEMMA ServeSteps ==
  ASSUME NEW t \in Threads, NEW n \in Nat, NEW c, Conforms(c), Serve(t, n, c)
  PROVE  \/ LogStep(t) \/ SessionStep(t) \/ NoteStep(t) \/ RowStep(t) \/ SheetStep(t)
         \/ PromptStep(t)
BY DEF Serve, LogStep, SessionStep, NoteStep, RowStep, SheetStep, PromptStep

LEMMA WorkSteps ==
  ASSUME NEW t \in Threads, Work(t)
  PROVE  \/ LogStep(t) \/ SessionStep(t) \/ NoteStep(t) \/ RowStep(t) \/ SheetStep(t)
         \/ PromptStep(t)
BY DEF Work, LogStep, SessionStep, NoteStep, RowStep, SheetStep, PromptStep

-----------------------------------------------------------------------------
(* What each kind of step leaves alone *)

\* What a session has been overtaken by is not forgotten while it is assembled.
KeepsPassed(t) ==
  \A u \in Threads \ {t} : \A x : <<u, x>> \in passed => <<u, x>> \in passed'

LEMMA BegunKeepsPassed ==
  ASSUME NEW t, passed' = {x \in passed : x[1] # t}
  PROVE  KeepsPassed(t)
BY DEF KeepsPassed

LEMMA SamePassed ==
  ASSUME NEW t, passed \subseteq passed' PROVE KeepsPassed(t)
BY DEF KeepsPassed

LEMMA BeginMoves ==
  ASSUME JobsOK, NEW t \in Threads, NEW n \in Nat, NEW c, NEW stage, NEW seen, NEW S,
         Begin(t, n, c, stage, seen), Conforms(c), Fits(stage, c.tool), stage \in S
  PROVE  /\ job[t] = Nothing /\ job[t].at = "idle"
         /\ job'[t] = Open(stage, n, c, seen)
         /\ JobsOK' /\ Alone(t) /\ MovesIn(S) /\ KeepsPassed(t)
         /\ passed' = {x \in passed : x[1] # t}
<1>1. /\ job[t] = Nothing /\ job'[t] = Open(stage, n, c, seen)
      /\ Alone(t) /\ JobsOK' /\ passed' = {x \in passed : x[1] # t}
  BY BeginFacts
<1>2. job[t].at = "idle" /\ job'[t].at = stage
  BY <1>1, NothingFields, OpenFields
<1>3. MovesIn(S)
  BY <1>1, <1>2, AloneMoves
<1>4. QED
  BY <1>1, <1>2, <1>3, BegunKeepsPassed

LEMMA RefuseMoves ==
  ASSUME JobsOK, NEW t \in Threads, NEW n \in Nat, NEW c, Refuse(t, n, c), Conforms(c), NEW S
  PROVE  /\ job[t] = Nothing /\ job[t].at = "idle"
         /\ job'[t] = Reply(n, c, FALSE) /\ job'[t].at = "replied"
         /\ JobsOK' /\ Alone(t) /\ MovesIn(S) /\ KeepsPassed(t)
         /\ passed' = passed
<1>1. /\ job[t] = Nothing /\ job'[t] = Reply(n, c, FALSE)
      /\ Alone(t) /\ JobsOK' /\ passed' = passed
  BY RefuseFacts
<1>2. job[t].at = "idle" /\ job'[t].at = "replied"
  BY <1>1, NothingFields DEF Reply
<1>3. MovesIn(S)
  BY <1>1, <1>2, AloneMoves
<1>4. QED
  BY <1>1, <1>2, <1>3, SamePassed

LEMMA AnswerMoves ==
  ASSUME JobsOK, NEW t \in Threads, NEW ok \in BOOLEAN, Answer(t, ok), NEW S,
         job[t].at \in S, job[t].at \notin {"idle", "replied"}
  PROVE  /\ job'[t] = Answered(t, ok) /\ job'[t].at \in {"idle", "replied"}
         /\ JobsOK' /\ Alone(t) /\ MovesIn(S)
<1>1. /\ job'[t] = Answered(t, ok) /\ job'[t].at \in {"idle", "replied"}
      /\ Alone(t) /\ JobsOK'
  BY AnswerFacts
<1>2. MovesIn(S)
  BY <1>1, AloneMoves
<1>3. QED
  BY <1>1, <1>2

LEMMA GoMoves ==
  ASSUME JobsOK, NEW t \in Threads, NEW s, NEW seen, Go(t, s, seen), NEW S,
         job[t].at \in S, s \in S,
         job[t].at \notin {"idle", "replied"}, Fits(s, job[t].call.tool)
  PROVE  /\ job'[t] = Open(s, job[t].for, job[t].call, seen)
         /\ JobsOK' /\ Alone(t) /\ MovesIn(S)
<1>1. /\ job'[t] = Open(s, job[t].for, job[t].call, seen)
      /\ Alone(t) /\ JobsOK'
  BY GoFacts
<1>2. job'[t].at = s
  BY <1>1, OpenFields
<1>3. MovesIn(S)
  BY <1>1, <1>2, AloneMoves
<1>4. QED
  BY <1>1, <1>3

\* The tool of a request at a stage.
LEMMA StageTool ==
  ASSUME JobsOK, NEW t \in Threads, job[t].at \notin {"idle", "replied"}
  PROVE  /\ Fits(job[t].at, job[t].call.tool)
         /\ job[t].for \in Nat /\ Conforms(job[t].call)
         /\ job[t] = Open(job[t].at, job[t].for, job[t].call, job[t].seen)
BY IdleAt DEF JobsOK

LEMMA LogFrame ==
  ASSUME JobsOK, NEW t \in Threads, LogStep(t)
  PROVE  /\ JobsOK' /\ MovesIn(LogStages) /\ Alone(t) /\ KeepsPassed(t)
         /\ UNCHANGED <<rowVars, sheetVars, promptVars, spoiled, packet>>
<1>1. ASSUME NEW n \in Nat, NEW c, Conforms(c), c.tool = "closeout", AskCloseout(t, n, c)
      PROVE  /\ JobsOK' /\ MovesIn(LogStages) /\ Alone(t) /\ KeepsPassed(t)
             /\ UNCHANGED <<rowVars, sheetVars, promptVars, spoiled, packet>>
  <2>1. Begin(t, n, c, "file", [stamp |-> clock + 1])
    BY <1>1 DEF AskCloseout
  <2>2. Fits("file", c.tool) /\ "file" \in LogStages
    BY <1>1 DEF Fits, LogStages
  <2>3. QED
    BY <1>1, <2>1, <2>2, BeginMoves DEF AskCloseout
<1>2. CASE FileCloseout(t)
  <2>1. job[t].at = "file" /\ Answer(t, TRUE) /\ "file" \in LogStages
    BY <1>2 DEF FileCloseout, At, LogStages
  <2>2. JobsOK' /\ Alone(t) /\ MovesIn(LogStages)
    BY <2>1, AnswerMoves
  <2>3. KeepsPassed(t)
    BY <1>2 DEF FileCloseout, KeepsPassed
  <2>4. QED
    BY <1>2, <2>2, <2>3 DEF FileCloseout
<1>3. QED
  BY <1>1, <1>2 DEF LogStep

LEMMA SessionFrame ==
  ASSUME JobsOK, NEW t \in Threads, SessionStep(t)
  PROVE  /\ JobsOK' /\ MovesIn(SessionStages) /\ Alone(t) /\ KeepsPassed(t)
         /\ UNCHANGED <<logVars, notes, made, read, copies, row, sheetVars, promptVars,
                        spoiled>>
         /\ lane => lane'
<1> DEFINE Kept == UNCHANGED <<logVars, notes, made, read, copies, row, sheetVars,
                               promptVars, spoiled>>
<1>1. ASSUME NEW n \in Nat, NEW c, Conforms(c), c.tool = "summon", AskSession(t, n, c)
      PROVE  /\ JobsOK' /\ MovesIn(SessionStages) /\ Alone(t) /\ KeepsPassed(t) /\ Kept
             /\ lane => lane'
  <2> DEFINE seen0 == [state |-> state, good |-> good, prompts |-> <<>>]
  <2>1. job[t] = Nothing /\ job' = [job EXCEPT ![t] = Open("sections", n, c, seen0)]
    BY <1>1 DEF AskSession, Idle, Open
  <2>2. Fits("sections", c.tool) /\ "sections" \in SessionStages
    BY <1>1 DEF Fits, SessionStages
  <2>3. JobOK(Open("sections", n, c, seen0))
    BY <1>1, <2>2, OpenOK
  <2>4. job'[t] = Open("sections", n, c, seen0) /\ Alone(t) /\ JobsOK'
    BY <2>1, <2>3, PutJob
  <2>5. job[t].at = "idle" /\ job'[t].at = "sections"
    BY <2>1, <2>4, NothingFields, OpenFields
  <2>6. MovesIn(SessionStages)
    BY <2>2, <2>4, <2>5, AloneMoves
  <2>7. KeepsPassed(t)
    BY <1>1 DEF AskSession, KeepsPassed
  <2>8. QED
    BY <1>1, <2>4, <2>6, <2>7 DEF AskSession, rowVars
<1>2. ASSUME NEW s \in SessionStages \ {"older log"}, job[t].at = s
      PROVE  s \notin {"idle", "replied"} /\ job[t].at \in SessionStages
             /\ \A r \in SessionStages : Fits(r, job[t].call.tool)
  BY <1>2, StageTool DEF Fits, SessionStages, LogStages, RowStages, SheetStages, PromptStages
<1>3. CASE ReadSection(t)
  <2>1. job[t].at = "sections" /\ passed' = passed /\ Kept /\ lane' = lane
    BY <1>3 DEF ReadSection, At, Keep, rowVars
  <2>s. PICK s \in SessionStages : \E seen : Go(t, s, seen)
    BY <1>3 DEF ReadSection, SessionStages
  <2>2. PICK seen : Go(t, s, seen)
    BY <2>s
  <2>a. "sections" \in SessionStages \ {"older log"}
    BY DEF SessionStages
  <2>b. Fits(s, job[t].call.tool)
    BY <1>2, <2>1, <2>a
  <2>3. JobsOK' /\ Alone(t) /\ MovesIn(SessionStages)
    BY <2>1, <2>2, <2>a, <2>b, GoMoves
  <2>4. QED
    BY <2>1, <2>3, SamePassed
<1>4. CASE InstallLane(t)
  <2>1. job[t].at = "stores" /\ passed' = passed /\ Kept /\ lane' = TRUE
    BY <1>4 DEF InstallLane, At, Keep
  <2>2. PICK seen : Go(t, "log", seen)
    BY <1>4 DEF InstallLane
  <2>3. JobsOK' /\ Alone(t) /\ MovesIn(SessionStages)
    BY <1>2, <2>1, <2>2, GoMoves DEF SessionStages
  <2>4. QED
    BY <2>1, <2>3, SamePassed
<1>5. CASE ReadLog(t)
  <2>1. job[t].at = "log" /\ passed' = passed /\ Kept /\ lane' = lane
    BY <1>5 DEF ReadLog, At, Keep, rowVars
  <2>2. PICK seen : Go(t, "older log", seen)
    BY <1>5 DEF ReadLog
  <2>3. JobsOK' /\ Alone(t) /\ MovesIn(SessionStages)
    BY <1>2, <2>1, <2>2, GoMoves DEF SessionStages
  <2>4. QED
    BY <2>1, <2>3, SamePassed
<1>6. CASE ReadOlderLog(t)
  <2>1. job[t].at = "older log" /\ Answer(t, TRUE) /\ Kept /\ lane' = lane
    BY <1>6 DEF ReadOlderLog, At, rowVars
  <2>2. JobsOK' /\ Alone(t) /\ MovesIn(SessionStages)
    BY <2>1, AnswerMoves DEF SessionStages
  <2>3. KeepsPassed(t)
    BY <1>6 DEF ReadOlderLog, KeepsPassed
  <2>4. QED
    BY <2>1, <2>2, <2>3
<1>7. QED
  BY <1>1, <1>3, <1>4, <1>5, <1>6 DEF SessionStep

LEMMA NoteFrame ==
  ASSUME JobsOK, NEW t \in Threads, NoteStep(t)
  PROVE  /\ JobsOK' /\ MovesIn(NoteStages) /\ Alone(t) /\ KeepsPassed(t)
         /\ UNCHANGED <<logVars, lane, row, sheetVars, promptVars, spoiled, packet>>
<1> DEFINE Kept == UNCHANGED <<logVars, lane, row, sheetVars, promptVars, spoiled, packet>>
<1> DEFINE Framed == JobsOK' /\ MovesIn(NoteStages) /\ Alone(t) /\ KeepsPassed(t)
<1>1. ASSUME NEW n \in Nat, NEW c, Conforms(c), NEW stage \in NoteStages,
             Begin(t, n, c, stage, Blank), Fits(stage, c.tool)
      PROVE  Framed
  BY <1>1, BeginMoves
<1>2. ASSUME NEW n \in Nat, NEW c, Conforms(c), Refuse(t, n, c)
      PROVE  Framed
  BY <1>2, RefuseMoves
<1>3. ASSUME NEW n \in Nat, NEW c, Conforms(c),
             \/ c.tool = "remember" /\ AskRemember(t, n, c)
             \/ c.tool = "update_memory" /\ AskNote(t, n, c, "revise")
             \/ c.tool = "forget" /\ AskNote(t, n, c, "forget")
             \/ c.tool = "send_message" /\ AskInsert(t, n, c)
             \/ c.tool = "mark" /\ AskMark(t, n, c)
      PROVE  Framed /\ Kept
  <2>1. \/ Refuse(t, n, c)
        \/ \E stage \in NoteStages : Begin(t, n, c, stage, Blank) /\ Fits(stage, c.tool)
    BY <1>3 DEF AskRemember, AskNote, AskInsert, AskMark, Fits, NoteStages
  <2>2. Kept
    BY <1>3 DEF AskRemember, AskNote, AskInsert, AskMark, rowVars
  <2> HIDE DEF Kept, Framed
  <2>3. QED
    BY <1>1, <1>2, <1>3, <2>1, <2>2
<1>4. ASSUME \/ Remember(t) \/ UpdateMemory(t) \/ Forget(t) \/ InsertCopy(t) \/ MarkLetters(t)
      PROVE  Framed /\ Kept
  <2>1. job[t].at \in NoteStages /\ Kept /\ passed' = passed
    BY <1>4 DEF Remember, UpdateMemory, Forget, InsertCopy, MarkLetters, At, NoteStages, Keep
  <2>2. \E ok \in BOOLEAN : Answer(t, ok)
    BY <1>4 DEF Remember, UpdateMemory, Forget, InsertCopy, MarkLetters, Noted
  <2>3. job[t].at \notin {"idle", "replied"}
    BY <2>1 DEF NoteStages
  <2>4. JobsOK' /\ Alone(t) /\ MovesIn(NoteStages)
    BY <2>1, <2>2, <2>3, AnswerMoves
  <2>5. QED
    BY <2>1, <2>4, SamePassed
<1>5. QED
  BY <1>3, <1>4 DEF NoteStep

LEMMA RowFrame ==
  ASSUME JobsOK, NEW t \in Threads, RowStep(t)
  PROVE  /\ JobsOK' /\ MovesIn(RowStages) /\ Alone(t) /\ KeepsPassed(t)
         /\ UNCHANGED <<logVars, notes, made, read, copies, sheetVars, promptVars, spoiled,
                        packet>>
<1> DEFINE Kept == UNCHANGED <<logVars, notes, made, read, copies, sheetVars, promptVars,
                               spoiled, packet>>
<1> DEFINE Framed == JobsOK' /\ MovesIn(RowStages) /\ Alone(t) /\ KeepsPassed(t)
<1>1. ASSUME NEW n \in Nat, NEW c, Conforms(c), NEW stage \in RowStages, NEW seen,
             Begin(t, n, c, stage, seen), Fits(stage, c.tool)
      PROVE  Framed
  BY <1>1, BeginMoves
<1>2. ASSUME NEW n \in Nat, NEW c, Conforms(c), Refuse(t, n, c)
      PROVE  Framed
  BY <1>2, RefuseMoves
<1>3. ASSUME NEW n \in Nat, NEW c, Conforms(c),
             \/ c.tool = "upsert" /\ AskUpsert(t, n, c)
             \/ c.tool = "resolve" /\ AskRow(t, n, c, "write row")
             \/ c.tool = "delete_record" /\ AskRow(t, n, c, "drop row")
      PROVE  Framed /\ Kept
  <2>1. \/ Refuse(t, n, c)
        \/ \E stage \in RowStages : \E seen : Begin(t, n, c, stage, seen) /\ Fits(stage, c.tool)
    BY <1>3 DEF AskUpsert, AskRow, Fits, RowStages
  <2>2. Kept
    BY <1>3 DEF AskUpsert, AskRow, Others
  <2> HIDE DEF Kept, Framed
  <2>3. QED
    BY <1>1, <1>2, <1>3, <2>1, <2>2
<1>4. ASSUME \/ InsertRow(t) \/ FindRow(t) \/ WriteRow(t) \/ DeleteRow(t)
      PROVE  Framed /\ Kept
  <2>1. job[t].at \in RowStages /\ Kept /\ passed' = passed
    BY <1>4 DEF InsertRow, FindRow, WriteRow, DeleteRow, At, RowStages, Keep, Others
  <2>2. job[t].at \notin {"idle", "replied"}
    BY <2>1 DEF RowStages
  <2>3. job[t].at \in RowStages \ {"write row", "drop row"} =>
          \A r \in RowStages \ {"drop row"} : Fits(r, job[t].call.tool)
    BY <2>2, StageTool DEF Fits, RowStages, LogStages, SessionStages, SheetStages,
       PromptStages
  <2>4. \/ \E ok \in BOOLEAN : Answer(t, ok)
        \/ \E r \in RowStages \ {"drop row"} : \E seen :
             Go(t, r, seen) /\ job[t].at \in RowStages \ {"write row", "drop row"}
    BY <1>4 DEF InsertRow, FindRow, WriteRow, DeleteRow, RowStages, At
  <2>5. CASE \E ok \in BOOLEAN : Answer(t, ok)
    BY <2>1, <2>2, <2>5, AnswerMoves, SamePassed
  <2>6. CASE \E r \in RowStages \ {"drop row"} : \E seen :
               Go(t, r, seen) /\ job[t].at \in RowStages \ {"write row", "drop row"}
    BY <2>1, <2>2, <2>3, <2>6, GoMoves, SamePassed
  <2>7. QED
    BY <2>4, <2>5, <2>6
<1>5. QED
  BY <1>3, <1>4 DEF RowStep

\* Another stage for a request.
LEMMA MovedStage ==
  ASSUME NEW j, NEW s, NEW k, j = Open(j.at, j.for, j.call, j.seen), j.for \in Nat,
         Conforms(j.call), Fits(s, j.call.tool), k = [j EXCEPT !.at = s]
  PROVE  /\ k = Open(s, j.for, j.call, j.seen) /\ k.at = s
         /\ k.for = j.for /\ k.call = j.call /\ JobOK(k)
<1>1. k = [f \in DOMAIN j |-> IF f = "at" THEN s ELSE j[f]]
  OBVIOUS
<1>2. [f \in DOMAIN j |-> IF f = "at" THEN s ELSE j[f]] = Open(s, j.for, j.call, j.seen)
  BY DEF Open
<1>3. QED
  BY <1>1, <1>2, OpenOK, OpenFields

\* The file is removed: who was filling it goes on with a file that has no name.
LEMMA UnlinkMoves ==
  ASSUME JobsOK, NEW t \in Threads, Unlink(t)
  PROVE  /\ JobsOK' /\ MovesIn(SheetStages)
         /\ job[t].at = "unlink" /\ job'[t] = Answered(t, sheet # Gone)
         /\ job'[t].at \in {"idle", "replied"}
         /\ \A u \in Threads \ {t} :
              \/ job[u].at # "fill" /\ job'[u] = job[u]
              \/ /\ job[u].at = "fill" /\ job'[u].at = "fill removed"
                 /\ job'[u].for = job[u].for /\ job'[u].call = job[u].call
<1>1. job[t].at = "unlink"
  BY DEF Unlink, At
<1>2. job' = [u \in Threads |->
             IF u = t THEN Answered(t, sheet # Gone)
             ELSE IF At(u, "fill") THEN [job[u] EXCEPT !.at = "fill removed"]
             ELSE job[u]]
  BY DEF Unlink, Answered, Replied, Reply
<1>3. /\ JobOK(job'[t]) /\ job'[t].at \in {"idle", "replied"}
      /\ job'[t] = Answered(t, sheet # Gone)
  BY <1>1, <1>2, AnsweredOK
<1>4. ASSUME NEW u \in Threads \ {t}, job[u].at = "fill"
      PROVE  /\ JobOK(job'[u]) /\ job'[u].at = "fill removed"
             /\ job'[u].for = job[u].for /\ job'[u].call = job[u].call
  <2>1. /\ job[u] = Open(job[u].at, job[u].for, job[u].call, job[u].seen)
        /\ job[u].for \in Nat /\ Conforms(job[u].call) /\ Fits("fill", job[u].call.tool)
    BY <1>4, StageTool
  <2>2. PICK s : s = "fill removed"
    OBVIOUS
  <2>3. Fits(s, job[u].call.tool)
    BY <2>1, <2>2 DEF Fits, SheetStages, LogStages, SessionStages, RowStages, PromptStages
  <2>4. job'[u] = [job[u] EXCEPT !.at = s]
    BY <1>2, <1>4, <2>2 DEF At
  <2>5. /\ JobOK(job'[u]) /\ job'[u].at = s
        /\ job'[u].for = job[u].for /\ job'[u].call = job[u].call
    BY <2>1, <2>3, <2>4, MovedStage
  <2>6. QED
    BY <2>2, <2>5
<1>5. ASSUME NEW u \in Threads \ {t}, job[u].at # "fill"
      PROVE  JobOK(job'[u]) /\ job'[u] = job[u]
  BY <1>2, <1>5 DEF At, JobsOK
<1>6. job' = [u \in Threads |-> job'[u]]
  BY <1>2
<1>7. JobsOK'
  <2>1. \A u \in Threads : JobOK(job'[u])
    BY <1>3, <1>4, <1>5
  <2>2. QED
    BY <1>6, <2>1 DEF JobsOK, JobOK, Open, Reply, Nothing, Conforms
<1>8. MovesIn(SheetStages)
  BY <1>1, <1>3, <1>4, <1>5 DEF MovesIn, SheetStages
<1>9. QED
  BY <1>1, <1>3, <1>4, <1>5, <1>7, <1>8

LEMMA SheetFrame ==
  ASSUME JobsOK, NEW t \in Threads, SheetStep(t)
  PROVE  /\ JobsOK' /\ MovesIn(SheetStages) /\ KeepsPassed(t)
         /\ UNCHANGED <<logVars, rowVars, promptVars, packet>>
         /\ spoiled \subseteq spoiled' /\ spoiled' \subseteq spoiled \cup {"sheet"}
<1> DEFINE Kept == /\ UNCHANGED <<logVars, rowVars, promptVars, packet>>
                   /\ spoiled \subseteq spoiled' /\ spoiled' \subseteq spoiled \cup {"sheet"}
<1> DEFINE Framed == JobsOK' /\ MovesIn(SheetStages) /\ KeepsPassed(t)
<1>1. ASSUME NEW n \in Nat, NEW c, Conforms(c), NEW stage \in SheetStages, NEW seen,
             Begin(t, n, c, stage, seen), Fits(stage, c.tool)
      PROVE  Framed
  BY <1>1, BeginMoves
<1>2. ASSUME NEW n \in Nat, NEW c, Conforms(c), Refuse(t, n, c)
      PROVE  Framed
  BY <1>2, RefuseMoves
<1>3. ASSUME NEW n \in Nat, NEW c, Conforms(c),
             \/ c.tool = "update_sheet" /\ AskUpdateSheet(t, n, c)
             \/ c.tool = "write_file" /\ AskWriteFile(t, n, c)
             \/ c.tool = "delete_file" /\ AskDeleteFile(t, n, c)
      PROVE  Framed /\ Kept
  <2>1. \/ Refuse(t, n, c)
        \/ \E stage \in SheetStages : \E seen : Begin(t, n, c, stage, seen) /\ Fits(stage, c.tool)
    BY <1>3 DEF AskUpdateSheet, AskWriteFile, AskDeleteFile, SheetJob, Fits, SheetStages
  <2>2. Kept
    BY <1>3 DEF AskUpdateSheet, AskWriteFile, AskDeleteFile, SheetJob, Elsewhere
  <2> HIDE DEF Kept, Framed
  <2>3. QED
    BY <1>1, <1>2, <1>3, <2>1, <2>2
<1>4. CASE OpenFile(t)
  <2>1. job[t].at = "open" /\ Kept /\ passed' = passed
    BY <1>4 DEF OpenFile, At, Keep, Elsewhere
  <2>2. PICK seen : Go(t, "fill", seen)
    BY <1>4 DEF OpenFile
  <2>3. Fits("fill", job[t].call.tool)
    BY <2>1, StageTool DEF Fits, SheetStages, LogStages, SessionStages, RowStages, PromptStages
  <2>4. Framed
    <3>1. "open" \in SheetStages /\ "fill" \in SheetStages
      BY DEF SheetStages
    <3>2. JobsOK' /\ MovesIn(SheetStages)
      BY <2>1, <2>2, <2>3, <3>1, GoMoves
    <3>3. QED
      BY <2>1, <3>2, SamePassed
  <2>5. QED
    BY <2>1, <2>4
<1>5. ASSUME FillFile(t) \/ FillRemoved(t)
      PROVE  Framed /\ Kept
  <2>1. job[t].at \in SheetStages /\ Kept /\ passed' = passed
    BY <1>5 DEF FillFile, FillRemoved, At, SheetStages, Keep, Elsewhere
  <2>2. PICK ok \in BOOLEAN : Answer(t, ok)
    BY <1>5 DEF FillFile, FillRemoved
  <2>3. Framed
    BY <2>1, <2>2, AnswerMoves, SamePassed DEF SheetStages
  <2>4. QED
    BY <2>1, <2>3
<1>6. CASE Unlink(t)
  <2>1. Kept /\ passed' = passed
    BY <1>6 DEF Unlink, Keep, Elsewhere
  <2>2. QED
    BY <1>6, <2>1, UnlinkMoves, SamePassed
<1>7. QED
  BY <1>3, <1>4, <1>5, <1>6 DEF SheetStep

LEMMA PromptFrame ==
  ASSUME JobsOK, NEW t \in Threads, PromptStep(t)
  PROVE  /\ JobsOK' /\ MovesIn(PromptStages) /\ Alone(t) /\ KeepsPassed(t)
         /\ UNCHANGED <<logVars, rowVars, sheetVars, packet>>
         /\ spoiled \subseteq spoiled' /\ spoiled' \subseteq spoiled \cup {"prompts"}
<1> DEFINE Kept == /\ UNCHANGED <<logVars, rowVars, sheetVars, packet>>
                   /\ spoiled \subseteq spoiled' /\ spoiled' \subseteq spoiled \cup {"prompts"}
<1>1. ASSUME NEW n \in Nat, NEW c, Conforms(c), c.tool = "update_prompts", AskPrompts(t, n, c)
      PROVE  JobsOK' /\ MovesIn(PromptStages) /\ Alone(t) /\ KeepsPassed(t) /\ Kept
  <2>1. Begin(t, n, c, "snapshot", [left |-> c.sections]) /\ Kept
    BY <1>1 DEF AskPrompts, FirstOfEdit, Aside
  <2>2. Fits("snapshot", c.tool) /\ "snapshot" \in PromptStages
    BY <1>1 DEF Fits, PromptStages
  <2> HIDE DEF Kept
  <2>3. QED
    BY <1>1, <2>1, <2>2, BeginMoves
<1>2. ASSUME Snapshot(t) \/ WriteSection(t)
      PROVE  JobsOK' /\ MovesIn(PromptStages) /\ Alone(t) /\ KeepsPassed(t) /\ Kept
  <2>1. job[t].at \in PromptStages /\ Kept /\ passed \subseteq passed'
    BY <1>2 DEF Snapshot, WriteSection, At, PromptStages, Keep, Aside
  <2>2. \/ \E ok \in BOOLEAN : Answer(t, ok)
        \/ \E seen : Go(t, "write section", seen)
    BY <1>2 DEF Snapshot, WriteSection
  <2>3. job[t].at \notin {"idle", "replied"} /\ "write section" \in PromptStages
    BY <2>1 DEF PromptStages
  <2>4. Fits("write section", job[t].call.tool)
    <3>1. Fits(job[t].at, job[t].call.tool)
      BY <2>3, StageTool
    <3>2. job[t].call.tool = "update_prompts"
      BY <2>1, <3>1 DEF Fits, SheetStages, LogStages, SessionStages, RowStages, PromptStages
    <3>3. QED
      BY <3>2 DEF Fits, PromptStages
  <2> HIDE DEF Kept
  <2>5. JobsOK' /\ Alone(t) /\ MovesIn(PromptStages)
    BY <2>1, <2>2, <2>3, <2>4, AnswerMoves, GoMoves
  <2>6. QED
    BY <2>1, <2>5, SamePassed
<1>3. QED
  BY <1>1, <1>2 DEF PromptStep

InterruptFrameOf(ts) ==
  \A u \in Threads :
    \/ job'[u] = job[u] /\ u \notin ts
    \/ /\ u \in ts /\ job[u].at \notin {"idle", "replied"}
       /\ job'[u] = Answered(u, FALSE) /\ job'[u].at \in {"idle", "replied"}

LEMMA InterruptFrame ==
  ASSUME JobsOK, NEW ts \in SUBSET Threads, Interrupt(ts)
  PROVE  /\ JobsOK' /\ InterruptFrameOf(ts)
         /\ UNCHANGED <<logVars, rowVars, sheetVars, promptVars, passed, packet>>
         /\ spoiled \subseteq spoiled'
BY InterruptFacts DEF Interrupt, InterruptFrameOf

LEMMA CollectFrame ==
  ASSUME JobsOK, NEW t \in Threads, Collect(t)
  PROVE  /\ JobsOK' /\ MovesIn({}) /\ Alone(t)
         /\ job[t].at = "replied" /\ job'[t] = Nothing /\ job'[t].at = "idle"
         /\ UNCHANGED <<logVars, rowVars, sheetVars, promptVars, historyOf, packet>>
<1>1. job[t].at = "replied" /\ job'[t] = Nothing /\ Alone(t) /\ JobsOK'
  BY CollectFacts
<1>2. job'[t].at = "idle"
  BY <1>1, NothingFields
<1>3. MovesIn({})
  BY <1>1, <1>2, AloneMoves
<1>4. QED
  BY <1>1, <1>2, <1>3 DEF Collect

-----------------------------------------------------------------------------
(* The calls of the gateway, and the kinds of steps *)

CallRecords ==
  [call : GatewayCalls, tries : Nat, said : {"nothing", "ok", "error"}, alone : BOOLEAN]

CallsOK == calls \in Seq(CallRecords)

LEMMA CallFields ==
  ASSUME CallsOK
  PROVE  /\ DOMAIN calls = 1 .. Len(calls) /\ Len(calls) \in Nat /\ LastCall = Len(calls)
         /\ \A n \in DOMAIN calls :
              /\ calls[n] \in CallRecords /\ calls[n].call \in GatewayCalls
              /\ calls[n].tries \in Nat /\ calls[n].said \in {"nothing", "ok", "error"}
              /\ calls[n].alone \in BOOLEAN /\ Conforms(calls[n].call)
<1>1. DOMAIN calls = 1 .. Len(calls) /\ Len(calls) \in Nat /\ LastCall = Len(calls)
  BY DEF CallsOK, LastCall
<1>2. \A n \in DOMAIN calls : calls[n] \in CallRecords
  BY <1>1 DEF CallsOK
<1>3. \A k \in CallRecords : /\ k.call \in GatewayCalls /\ k.tries \in Nat
                             /\ k.said \in {"nothing", "ok", "error"}
                             /\ k.alone \in BOOLEAN /\ Conforms(k.call)
  BY DEF CallRecords
<1>4. QED
  BY <1>1, <1>2, <1>3

Still == UNCHANGED <<logVars, rowVars, sheetVars, promptVars, historyOf, packet, job>>

Stepped(t) ==
  LogStep(t) \/ SessionStep(t) \/ NoteStep(t) \/ RowStep(t) \/ SheetStep(t) \/ PromptStep(t)

LEMMA NextKinds ==
  ASSUME CallsOK, [Next]_vars
  PROVE  \/ \E t \in Threads : Stepped(t) \/ Collect(t)
         \/ \E ts \in SUBSET Threads : Interrupt(ts)
         \/ Still
<1>1. LastCall \in Nat /\ (LastCall > 0 => Conforms(calls[LastCall].call))
  BY CallFields
<1>2. ASSUME NEW t \in Threads, NEW n \in Nat, NEW c, Conforms(c), Serve(t, n, c)
      PROVE  Stepped(t)
  BY <1>2, ServeSteps DEF Stepped
<1>3. ASSUME NEW t \in Threads, NEW c \in GatewayCalls, Call(t, c)
      PROVE  Stepped(t)
  BY <1>1, <1>2, <1>3 DEF Call
<1>4. ASSUME NEW t \in Threads, NEW c \in DirectCalls, Direct(t, c)
      PROVE  Stepped(t)
  BY <1>2, <1>4 DEF Direct
<1>5. ASSUME NEW t \in Threads, Retry(t)
      PROVE  Stepped(t)
  BY <1>1, <1>2, <1>5 DEF Retry
<1>6. ASSUME NEW t \in Threads, Work(t)
      PROVE  Stepped(t)
  BY <1>6, WorkSteps DEF Stepped
<1>7. ASSUME NEW t \in Threads, Deliver(t) \/ LoseAnswer(t) \/ DropAnswer(t)
      PROVE  Collect(t)
  BY <1>7 DEF Deliver, LoseAnswer, DropAnswer
<1>8. ASSUME GiveUp \/ UNCHANGED vars
      PROVE  Still
  BY <1>8 DEF GiveUp, vars, storeVars, Still, historyOf
<1>9. QED
  BY <1>3, <1>4, <1>5, <1>6, <1>7, <1>8 DEF Next

LEMMA Retried ==
  ASSUME NEW r \in CallRecords
  PROVE  [r EXCEPT !.tries = @ + 1, !.said = "nothing"] \in CallRecords
<1> DEFINE k == [r EXCEPT !.tries = @ + 1, !.said = "nothing"]
<1>1. k = [f \in DOMAIN r |-> IF f = "said" THEN "nothing"
                              ELSE IF f = "tries" THEN r.tries + 1 ELSE r[f]]
  OBVIOUS
<1>2. [f \in DOMAIN r |-> IF f = "said" THEN "nothing"
                          ELSE IF f = "tries" THEN r.tries + 1 ELSE r[f]] =
        [call |-> r.call, tries |-> r.tries + 1, said |-> "nothing", alone |-> r.alone]
  BY DEF CallRecords
<1>3. [call |-> r.call, tries |-> r.tries + 1, said |-> "nothing", alone |-> r.alone]
        \in CallRecords
  BY DEF CallRecords
<1>4. QED
  BY <1>1, <1>2, <1>3

LEMMA CallsStep ==
  ASSUME CallsOK, [Next]_vars
  PROVE  CallsOK'
<1>0. /\ DOMAIN calls = 1 .. Len(calls) /\ Len(calls) \in Nat /\ LastCall = Len(calls)
      /\ \A n \in DOMAIN calls : calls[n] \in CallRecords
  BY CallFields
<1>1. CASE UNCHANGED calls
  BY <1>1 DEF CallsOK
<1>2. ASSUME NEW t \in Threads, NEW c \in GatewayCalls, Call(t, c)
      PROVE  CallsOK'
  <2>1. [call |-> c, tries |-> 1, said |-> "nothing", alone |-> ~Crowded(LastCall + 1, c)]
          \in CallRecords
    BY DEF CallRecords
  <2>2. QED
    BY <1>2, <2>1 DEF Call, CallsOK
<1>3. ASSUME NEW n \in DOMAIN calls, NEW k \in CallRecords, calls' = [calls EXCEPT ![n] = k]
      PROVE  CallsOK'
  BY <1>0, <1>3 DEF CallsOK
<1>4. ASSUME NEW t \in Threads, Retry(t)
      PROVE  CallsOK'
  <2>1. LastCall \in DOMAIN calls /\ calls[LastCall] \in CallRecords
    BY <1>0, <1>4 DEF Retry
  <2> DEFINE k == [calls[LastCall] EXCEPT !.tries = @ + 1, !.said = "nothing"]
  <2>2. k \in CallRecords
    BY <2>1, Retried
  <2>3. calls' = [calls EXCEPT ![LastCall] = k]
    BY <1>4 DEF Retry
  <2> HIDE DEF k
  <2>4. QED
    BY <1>3, <2>1, <2>2, <2>3
<1>5. ASSUME NEW t \in Threads, Deliver(t)
      PROVE  CallsOK'
  <2>1. PICK s \in {"ok", "error"} : calls' = [calls EXCEPT ![job[t].for].said = s]
    BY <1>5 DEF Deliver
  <2> DEFINE k == [calls[job[t].for] EXCEPT !.said = s]
  <2>2. CASE job[t].for \in DOMAIN calls
    <3>1. k \in CallRecords
      BY <1>0, <2>2 DEF CallRecords
    <3>2. calls' = [calls EXCEPT ![job[t].for] = k]
      BY <2>1
    <3> HIDE DEF k
    <3>3. QED
      BY <1>3, <2>2, <3>1, <3>2
  <2>3. CASE job[t].for \notin DOMAIN calls
    <3>1. calls' = calls
      BY <1>0, <2>1, <2>3 DEF CallsOK
    <3>2. QED
      BY <1>1, <3>1
  <2>4. QED
    BY <2>2, <2>3
<1>6. ASSUME NEW t \in Threads, NEW c \in DirectCalls, Direct(t, c)
      PROVE  CallsOK'
  <2> DEFINE k(n) == [calls[n] EXCEPT !.alone = @ /\ Touches(calls[n].call) # Touches(c)]
  <2>1. \A n \in DOMAIN calls : k(n) \in CallRecords
    <3> SUFFICES ASSUME NEW n \in DOMAIN calls PROVE k(n) \in CallRecords
      OBVIOUS
    <3>1. calls[n] \in CallRecords
      BY <1>0
    <3>2. (calls[n].alone /\ Touches(calls[n].call) # Touches(c)) \in BOOLEAN
      OBVIOUS
    <3>3. QED
      BY <3>1, <3>2 DEF CallRecords
  <2>2. calls' = [n \in 1 .. Len(calls) |-> k(n)]
    BY <1>0, <1>6 DEF Direct
  <2> HIDE DEF k
  <2>3. QED
    BY <1>0, <2>1, <2>2 DEF CallsOK
<1>7. QED
  BY <1>1, <1>2, <1>4, <1>5, <1>6
  DEF Next, LoseAnswer, DropAnswer, GiveUp, vars

LEMMA JobsStep ==
  ASSUME JobsOK, CallsOK, [Next]_vars
  PROVE  JobsOK'
<1>1. ASSUME NEW t \in Threads, Stepped(t) \/ Collect(t) PROVE JobsOK'
  BY <1>1, LogFrame, SessionFrame, NoteFrame, RowFrame, SheetFrame, PromptFrame, CollectFrame
  DEF Stepped
<1>2. ASSUME NEW ts \in SUBSET Threads, Interrupt(ts) PROVE JobsOK'
  BY <1>2, InterruptFrame
<1>3. CASE Still
  BY <1>3 DEF Still, JobsOK, JobOK, Open, Reply, Nothing, Conforms
<1>4. QED
  BY <1>1, <1>2, <1>3, NextKinds

-----------------------------------------------------------------------------
(* The session log *)

\* Dates: a closeout is younger than the older log, and than the last stamp
\* nobody has.
LogTypes ==
  /\ clock \in Nat /\ OldEntries <= clock
  /\ closeouts \subseteq 1 .. clock /\ legacy \subseteq 1 .. OldEntries
  /\ closeouts \cap legacy = {}
  /\ state \in {0} \cup closeouts
  /\ \A t \in Threads :
       job[t].at = "file" => job[t].seen.stamp \in (OldEntries + 1) .. clock

\* A closeout that has met no other is the only one being filed, and the
\* youngest.
YoungestAlone ==
  \A t \in Threads :
    job[t].at = "file" /\ job[t].seen.stamp \notin met =>
      /\ \A e \in closeouts : e < job[t].seen.stamp
      /\ \A u \in Threads : job[u].at = "file" => u = t

LogInv == LogTypes /\ YoungestAlone /\ HandoffIsNewest

LEMMA LogUndisturbed ==
  ASSUME LogInv, UNCHANGED logVars,
         \A u \in Threads : job'[u] = job[u] \/ job'[u].at # "file"
  PROVE  LogInv'
BY DEF LogInv, LogTypes, YoungestAlone, HandoffIsNewest, logVars

LEMMA LogInit == Init => LogInv
BY NothingFields DEF Init, LogInv, LogTypes, YoungestAlone, HandoffIsNewest

LEMMA LogStepKeeps ==
  ASSUME JobsOK, LogInv, NEW t \in Threads, LogStep(t)
  PROVE  LogInv'
<1>1. ASSUME NEW n \in Nat, NEW c, Conforms(c), c.tool = "closeout", AskCloseout(t, n, c)
      PROVE  LogInv'
  <2> DEFINE others == {u \in Threads : At(u, "file")}
  <2>1. /\ Begin(t, n, c, "file", [stamp |-> clock + 1]) /\ clock' = clock + 1
        /\ met' = IF others = {} THEN met
                  ELSE met \cup {clock + 1} \cup {job[u].seen.stamp : u \in others}
        /\ UNCHANGED <<closeouts, legacy, state>>
    BY <1>1 DEF AskCloseout
  <2>2. Fits("file", c.tool)
    BY <1>1 DEF Fits, LogStages
  <2>3. /\ job[t] = Nothing /\ job'[t] = Open("file", n, c, [stamp |-> clock + 1])
        /\ Alone(t)
    BY <1>1, <2>1, <2>2, BeginFacts
  <2>4. job'[t].at = "file" /\ job'[t].seen.stamp = clock + 1
    BY <2>3, OpenFields
  <2>5. job[t].at # "file"
    BY <2>3, NothingFields
  <2>6. LogTypes'
    BY <2>1, <2>3, <2>4 DEF LogInv, LogTypes, Alone
  <2>7. HandoffIsNewest'
    BY <2>1 DEF LogInv, HandoffIsNewest
  <2>8. YoungestAlone'
    <3>1. CASE others = {}
      <4>1. \A u \in Threads : job'[u].at = "file" => u = t
        BY <2>3, <3>1 DEF Alone, At
      <4>2. \A e \in closeouts : e < clock + 1
        BY DEF LogInv, LogTypes
      <4>3. \A e \in closeouts' : e < job'[t].seen.stamp
        BY <2>1, <2>4, <4>2
      <4>4. QED
        BY <4>1, <4>3 DEF YoungestAlone
    <3>2. CASE others # {}
      <4>1. \A u \in Threads : job'[u].at = "file" => job'[u].seen.stamp \in met'
        BY <2>1, <2>3, <2>4, <3>2 DEF Alone, At
      <4>2. QED
        BY <4>1 DEF YoungestAlone
    <3>3. QED
      BY <3>1, <3>2
  <2>9. QED
    BY <2>6, <2>7, <2>8 DEF LogInv
<1>2. CASE FileCloseout(t)
  <2> DEFINE s == job[t].seen.stamp
  <2>1. /\ job[t].at = "file" /\ Answer(t, TRUE)
        /\ closeouts' = closeouts \cup legacy \cup {s}
        /\ legacy' = {} /\ state' = s
        /\ clock' = clock /\ met' = met
    BY <1>2 DEF FileCloseout, At, LeftOver, Handoff
  <2>2. job'[t].at \in {"idle", "replied"} /\ Alone(t)
    BY <2>1, AnswerFacts
  <2>3. s \in (OldEntries + 1) .. clock
    BY <2>1 DEF LogInv, LogTypes
  <2>4. LogTypes'
    <3>1. closeouts' \subseteq 1 .. clock' /\ clock' \in Nat /\ OldEntries <= clock'
      <4>1. clock \in Nat /\ OldEntries <= clock /\ closeouts \subseteq 1 .. clock
              /\ legacy \subseteq 1 .. OldEntries
        BY DEF LogInv, LogTypes
      <4>2. legacy \subseteq 1 .. clock /\ s \in 1 .. clock
        BY <4>1, <2>3
      <4> HIDE DEF s
      <4>3. QED
        BY <2>1, <4>1, <4>2
    <3>2. \A u \in Threads :
            job'[u].at = "file" => job'[u].seen.stamp \in (OldEntries + 1) .. clock'
      BY <2>1, <2>2 DEF LogInv, LogTypes, Alone
    <3>3. legacy' \subseteq 1 .. OldEntries /\ closeouts' \cap legacy' = {}
            /\ state' \in {0} \cup closeouts'
      BY <2>1
    <3>4. QED
      BY <3>1, <3>2, <3>3 DEF LogTypes
  <2>5. HandoffIsNewest'
    <3>1. s \notin met => \A e \in closeouts : e < s
      BY <2>1 DEF LogInv, YoungestAlone
    <3>2. QED
      BY <2>1, <2>3, <3>1 DEF LogInv, LogTypes, HandoffIsNewest
  <2>6. YoungestAlone'
    <3> SUFFICES ASSUME NEW u \in Threads, job'[u].at = "file",
                        job'[u].seen.stamp \notin met'
                 PROVE  FALSE
      BY DEF YoungestAlone
    <3>1. u # t /\ job'[u] = job[u]
      BY <2>2 DEF Alone
    <3>2. QED
      BY <2>1, <3>1 DEF LogInv, YoungestAlone
  <2>7. QED
    BY <2>4, <2>5, <2>6 DEF LogInv
<1>3. QED
  BY <1>1, <1>2 DEF LogStep

LEMMA LogNext ==
  ASSUME JobsOK, CallsOK, LogInv, [Next]_vars
  PROVE  LogInv'
<1>1. ASSUME NEW S, "file" \notin S, MovesIn(S), UNCHANGED logVars
      PROVE  LogInv'
  BY <1>1, LogUndisturbed DEF MovesIn
<1>2. ASSUME NEW t \in Threads, Stepped(t)
      PROVE  LogInv'
  <2>1. CASE LogStep(t)
    BY <2>1, LogStepKeeps
  <2>2. CASE SessionStep(t)
    BY <1>1, <2>2, SessionFrame DEF SessionStages
  <2>3. CASE NoteStep(t)
    BY <1>1, <2>3, NoteFrame DEF NoteStages
  <2>4. CASE RowStep(t)
    BY <1>1, <2>4, RowFrame DEF RowStages
  <2>5. CASE SheetStep(t)
    BY <1>1, <2>5, SheetFrame DEF SheetStages
  <2>6. CASE PromptStep(t)
    BY <1>1, <2>6, PromptFrame DEF PromptStages
  <2>7. QED
    BY <1>2, <2>1, <2>2, <2>3, <2>4, <2>5, <2>6 DEF Stepped
<1>3. ASSUME NEW t \in Threads, Collect(t)
      PROVE  LogInv'
  BY <1>1, <1>3, CollectFrame
<1>4. ASSUME NEW ts \in SUBSET Threads, Interrupt(ts)
      PROVE  LogInv'
  BY <1>4, InterruptFrame, LogUndisturbed DEF InterruptFrameOf
<1>5. CASE Still
  BY <1>5, LogUndisturbed DEF Still
<1>6. QED
  BY <1>2, <1>3, <1>4, <1>5, NextKinds

LEMMA JobsInit == Init => JobsOK /\ CallsOK
BY NothingOK DEF Init, JobsOK, CallsOK

\* A thread is idle, keeps an answer for the gateway, or is at a stage of its
\* request's tool; and the history of calls is one of records.
THEOREM JobsHold == Spec => [](JobsOK /\ CallsOK)
<1>1. JobsOK /\ CallsOK /\ [Next]_vars => (JobsOK /\ CallsOK)'
  BY JobsStep, CallsStep
<1>2. QED
  BY JobsInit, <1>1, PTL DEF Spec

\* The text the next session starts from is that of the newest closeout, unless
\* that one overlapped another.
THEOREM HandoffIsNewestHolds == Spec => []HandoffIsNewest
<1>1. JobsOK /\ CallsOK /\ LogInv /\ [Next]_vars => LogInv'
  BY LogNext
<1>2. LogInv => HandoffIsNewest
  BY DEF LogInv
<1>3. QED
  BY LogInit, JobsHold, <1>1, <1>2, PTL DEF Spec

-----------------------------------------------------------------------------
(* The newest entries of a log *)

Above(S, e) == {f \in S : f > e}

LEMMA NewestAbove ==
  ASSUME NEW S PROVE Newest(S) = {e \in S : Cardinality(Above(S, e)) < LogLimit}
BY DEF Newest, Above

\* Of a log with enough entries, so many are the newest.
LEMMA NewestCount ==
  ASSUME NEW X \in SUBSET Nat, IsFiniteSet(X), Cardinality(X) >= LogLimit
  PROVE  IsFiniteSet(Newest(X)) /\ Cardinality(Newest(X)) >= LogLimit
<1> DEFINE rank == [x \in X \ Newest(X) |-> Cardinality(Above(X, x))]
           k    == Cardinality(X)
           Older == X \ Newest(X)
<1>1. k \in Nat /\ Newest(X) \subseteq X
  BY FS_CardinalityType, NewestAbove
<1>2. \A x \in X : IsFiniteSet(Above(X, x)) /\ Cardinality(Above(X, x)) \in 0 .. (k - 1)
  <2> SUFFICES ASSUME NEW x \in X
               PROVE  IsFiniteSet(Above(X, x)) /\ Cardinality(Above(X, x)) \in 0 .. (k - 1)
    OBVIOUS
  <2>1. Above(X, x) \subseteq X /\ Above(X, x) # X
    BY DEF Above
  <2>2. QED
    BY <2>1, <1>1, FS_Subset, FS_CardinalityType
<1>3. \A x \in Older : rank[x] \in LogLimit .. (k - 1)
  BY <1>2, NewestAbove
<1>4. \A x, y \in Older : x < y => rank[y] < rank[x]
  <2> SUFFICES ASSUME NEW x \in Older, NEW y \in Older, x < y
               PROVE  rank[y] < rank[x]
    OBVIOUS
  <2>1. Above(X, y) \subseteq Above(X, x) /\ y \in Above(X, x) /\ y \notin Above(X, y)
    <3>1. x \in Nat /\ y \in X /\ y \in Nat
      BY <1>1
    <3>2. \A f \in X : f > y => f > x
      <4> SUFFICES ASSUME NEW f \in X, f > y PROVE f > x
        OBVIOUS
      <4>1. f \in Nat /\ x < y
        OBVIOUS
      <4>2. QED
        BY <3>1, <4>1
    <3>3. y > x /\ ~(y > y)
      BY <3>1
    <3> HIDE DEF Older, rank
    <3>4. QED
      BY <3>1, <3>2, <3>3 DEF Above
  <2>2. Cardinality(Above(X, y)) < Cardinality(Above(X, x))
    BY <1>2, <2>1, FS_Subset, FS_CardinalityType
  <2>3. QED
    BY <2>2
<1>5. rank \in Injection(Older, LogLimit .. (k - 1))
  <2>1. rank \in [Older -> LogLimit .. (k - 1)]
    BY <1>3
  <2>2. \A x, y \in Older : rank[x] = rank[y] => x = y
    <3> SUFFICES ASSUME NEW x \in Older, NEW y \in Older, rank[x] = rank[y]
                 PROVE  x = y
      OBVIOUS
    <3>1. rank[x] \in Nat /\ rank[y] \in Nat
      BY <1>3
    <3>2. ~(x < y) /\ ~(y < x)
      BY <1>4, <3>1
    <3>3. QED
      BY <3>2
  <2> HIDE DEF rank, Older
  <2>3. QED
    BY <2>1, <2>2 DEF Injection, IsInjective
<1> HIDE DEF rank
<1>6. /\ IsFiniteSet(LogLimit .. (k - 1)) /\ Cardinality(LogLimit .. (k - 1)) = k - LogLimit
  <2>1. k - 1 \in Int /\ LogLimit \in Int /\ k >= LogLimit
    BY <1>1
  <2> HIDE DEF k
  <2>2. /\ IsFiniteSet(LogLimit .. (k - 1))
        /\ Cardinality(LogLimit .. (k - 1)) =
             IF LogLimit > k - 1 THEN 0 ELSE (k - 1) - LogLimit + 1
    BY <2>1, FS_Interval
  <2>3. QED
    BY <1>1, <2>1, <2>2
<1>7. IsFiniteSet(Older) /\ Cardinality(Older) <= k - LogLimit
  BY <1>5, <1>6, FS_Injection
<1>8. IsFiniteSet(Newest(X)) /\ Cardinality(Older) = k - Cardinality(X \cap Newest(X))
  BY <1>1, FS_Difference, FS_Subset
<1>9. X \cap Newest(X) = Newest(X)
  BY <1>1
<1>10. Cardinality(Newest(X)) \in Nat
  BY <1>8, FS_CardinalityType
<1>11. Cardinality(Older) = k - Cardinality(Newest(X))
  BY <1>8, <1>9
<1> HIDE DEF k, Older
<1>12. Cardinality(Newest(X)) >= LogLimit
  BY <1>1, <1>7, <1>10, <1>11
<1>13. QED
  BY <1>8, <1>12

\* The newest of two logs are among the newest of each.
LEMMA NewestOfBoth ==
  ASSUME NEW A \in SUBSET Nat, IsFiniteSet(A), NEW B \in SUBSET Nat, IsFiniteSet(B)
  PROVE  Newest(Newest(A) \cup Newest(B)) = Newest(A \cup B)
<1> DEFINE U == A \cup B
           W == Newest(A) \cup Newest(B)
<1>1. IsFiniteSet(U) /\ W \subseteq U
  BY FS_Union, NewestAbove
<1>2. ASSUME NEW S \in SUBSET U, NEW e
      PROVE  /\ Above(S, e) \subseteq Above(U, e)
             /\ IsFiniteSet(Above(S, e)) /\ IsFiniteSet(Above(U, e))
             /\ Cardinality(Above(S, e)) \in Nat /\ Cardinality(Above(U, e)) \in Nat
             /\ Cardinality(Above(S, e)) <= Cardinality(Above(U, e))
  <2>1. Above(S, e) \subseteq Above(U, e) /\ Above(U, e) \subseteq U
    BY DEF Above
  <2>2. QED
    BY <1>1, <2>1, FS_Subset, FS_CardinalityType
<1>3. Newest(U) \subseteq W
  <2> SUFFICES ASSUME NEW e \in Newest(U) PROVE e \in W
    OBVIOUS
  <2>1. e \in U /\ Cardinality(Above(U, e)) < LogLimit
    BY NewestAbove
  <2>2. ASSUME NEW S \in SUBSET U, e \in S PROVE e \in Newest(S)
    <3>1. Cardinality(Above(S, e)) <= Cardinality(Above(U, e))
            /\ Cardinality(Above(S, e)) \in Nat /\ Cardinality(Above(U, e)) \in Nat
      BY <1>2
    <3>2. QED
      BY <2>1, <2>2, <3>1, NewestAbove
  <2>3. QED
    BY <2>1, <2>2
<1>4. Newest(U) \subseteq Newest(W)
  <2> SUFFICES ASSUME NEW e \in Newest(U) PROVE e \in Newest(W)
    OBVIOUS
  <2>1. e \in W /\ Cardinality(Above(U, e)) < LogLimit
    BY <1>3, NewestAbove
  <2>2. /\ Cardinality(Above(W, e)) <= Cardinality(Above(U, e))
        /\ Cardinality(Above(W, e)) \in Nat /\ Cardinality(Above(U, e)) \in Nat
    BY <1>1, <1>2
  <2> HIDE DEF U, W
  <2>3. QED
    BY <2>1, <2>2, NewestAbove
<1>5. Newest(W) \subseteq Newest(U)
  <2> SUFFICES ASSUME NEW e \in Newest(W), Cardinality(Above(U, e)) >= LogLimit
               PROVE  FALSE
    <3>1. \A e \in Newest(W) : e \in U /\ Cardinality(Above(U, e)) \in Nat
      BY <1>1, <1>2, NewestAbove
    <3> HIDE DEF U, W
    <3>2. QED
      BY <3>1, NewestAbove
  <2>1. e \in W /\ Cardinality(Above(W, e)) < LogLimit
    BY NewestAbove
  <2> DEFINE X == Above(U, e)
  <2>2. X \in SUBSET Nat /\ X \subseteq U /\ IsFiniteSet(X)
    BY <1>1, FS_Subset DEF Above
  <2>3. IsFiniteSet(Newest(X)) /\ Cardinality(Newest(X)) >= LogLimit
    BY <2>2, NewestCount
  <2>4. \A f \in X : Above(X, f) = Above(U, f) /\ f \in U /\ f > e
    <3>1. e \in Nat /\ U \subseteq Nat
      BY <2>1, <1>1
    <3>2. \A f \in U : f > e => \A g \in U : g > f => g > e
      <4> SUFFICES ASSUME NEW f \in U, f > e, NEW g \in U, g > f PROVE g > e
        OBVIOUS
      <4>1. f \in Nat /\ g \in Nat /\ e \in Nat
        BY <3>1
      <4>2. QED
        BY <4>1
    <3> HIDE DEF U, W
    <3>3. QED
      BY <3>2 DEF Above
  <2>5. Newest(X) \subseteq Newest(U)
    <3> HIDE DEF X, U
    <3>1. QED
      BY <2>4, NewestAbove
  <2>6. Newest(X) \subseteq Above(W, e)
    <3>1. \A f \in Newest(X) : f \in W /\ f > e
      BY <1>3, <2>4, <2>5, NewestAbove
    <3> HIDE DEF X, U, W
    <3>2. QED
      BY <3>1 DEF Above
  <2>7. Cardinality(Newest(X)) <= Cardinality(Above(W, e))
          /\ Cardinality(Newest(X)) \in Nat /\ Cardinality(Above(W, e)) \in Nat
    BY <1>1, <1>2, <2>3, <2>6, FS_Subset, FS_CardinalityType
  <2>8. QED
    BY <2>1, <2>3, <2>7
<1>6. QED
  BY <1>4, <1>5

-----------------------------------------------------------------------------
(* The log a session shows *)

\* Between the two statements the closeouts read are closeouts; and unless the
\* older log was absorbed meanwhile, they are the newest of closeouts which, with
\* the older log, make up the past.
TwoReads ==
  \A t \in Threads :
    job[t].at = "older log" =>
      /\ job[t].seen.closed \subseteq closeouts
      /\ <<t, "log">> \notin passed =>
           \E C \in SUBSET closeouts : /\ job[t].seen.closed = Newest(C)
                                       /\ job[t].seen.past = Newest(C \cup legacy)

SessionInv == TwoReads /\ LogShowsOnce

LEMMA SessionInit == Init => SessionInv
BY NothingFields DEF Init, SessionInv, TwoReads, LogShowsOnce

LEMMA SessionUndisturbed ==
  ASSUME SessionInv, UNCHANGED <<closeouts, legacy, packet>>,
         \A u \in Threads :
           job'[u].at = "older log" =>
             job'[u] = job[u] /\ (<<u, "log">> \in passed => <<u, "log">> \in passed')
  PROVE  SessionInv'
<1>1. TwoReads'
  BY DEF SessionInv, TwoReads
<1>2. LogShowsOnce'
  BY DEF SessionInv, LogShowsOnce, Newest
<1>3. QED
  BY <1>1, <1>2 DEF SessionInv

\* Where a request is when it takes a step.
LEMMA NoteFrom ==
  ASSUME NEW t, NoteStep(t) PROVE job[t].at \in NoteStages \cup {"idle"}
BY NothingFields DEF NoteStep, AskRemember, AskNote, AskInsert, AskMark, Begin, Refuse, Idle,
   Remember, UpdateMemory, Forget, InsertCopy, MarkLetters, At, NoteStages

LEMMA RowFrom ==
  ASSUME NEW t, RowStep(t) PROVE job[t].at \in RowStages \cup {"idle"}
BY NothingFields DEF RowStep, AskUpsert, AskRow, Begin, Refuse, Idle,
   InsertRow, FindRow, WriteRow, DeleteRow, At, RowStages

LEMMA SheetFrom ==
  ASSUME NEW t, SheetStep(t) PROVE job[t].at \in SheetStages \cup {"idle"}
BY NothingFields DEF SheetStep, AskUpdateSheet, AskWriteFile, AskDeleteFile, SheetJob, Begin,
   Refuse, Idle, OpenFile, FillFile, FillRemoved, Unlink, At, SheetStages

LEMMA PromptFrom ==
  ASSUME NEW t, PromptStep(t) PROVE job[t].at \in PromptStages \cup {"idle"}
BY NothingFields DEF PromptStep, AskPrompts, Begin, Idle, Snapshot, WriteSection, At,
   PromptStages

\* A step of another request that leaves the log.
LEMMA OtherStepsPass ==
  ASSUME SessionInv, NEW t \in Threads, NEW S, "older log" \notin S, MovesIn(S),
         KeepsPassed(t), job'[t].at # "older log", UNCHANGED <<closeouts, legacy, packet>>
  PROVE  SessionInv'
BY SessionUndisturbed DEF MovesIn, KeepsPassed

LEMMA SessionStepKeeps ==
  ASSUME JobsOK, LogInv, SessionInv, NEW t \in Threads, SessionStep(t)
  PROVE  SessionInv'
<1>1. /\ Alone(t) /\ KeepsPassed(t) /\ UNCHANGED <<closeouts, legacy>>
  BY SessionFrame DEF logVars
<1>2. ASSUME job'[t].at # "older log", UNCHANGED packet
      PROVE  SessionInv'
  BY <1>1, <1>2, SessionUndisturbed DEF Alone, KeepsPassed
<1>3. ASSUME NEW n \in Nat, NEW c, Conforms(c), c.tool = "summon", AskSession(t, n, c)
      PROVE  SessionInv'
  <2>1. job'[t].at = "sections" /\ UNCHANGED packet
    BY <1>3 DEF AskSession, JobsOK
  <2>2. QED
    BY <1>2, <2>1
<1>4. ASSUME job[t].at \in {"sections", "stores", "log"}
      PROVE  \A r \in SessionStages : Fits(r, job[t].call.tool)
  BY <1>4, StageTool DEF Fits, SessionStages, LogStages, RowStages, SheetStages, PromptStages
<1>5. CASE ReadSection(t)
  <2>s. PICK s \in {"sections", "stores"} : \E seen : Go(t, s, seen)
    BY <1>5 DEF ReadSection
  <2>1. PICK seen : Go(t, s, seen)
    BY <2>s
  <2>2. job[t].at = "sections" /\ UNCHANGED packet
    BY <1>5 DEF ReadSection, At
  <2>3. Fits(s, job[t].call.tool)
    BY <1>4, <2>2 DEF SessionStages
  <2>4. job'[t] = Open(s, job[t].for, job[t].call, seen)
    BY <2>1, <2>2, <2>3, GoFacts
  <2>5. job'[t].at = s
    BY <2>4, OpenFields
  <2>6. QED
    BY <1>2, <2>2, <2>5
<1>6. CASE InstallLane(t)
  <2>1. PICK seen : Go(t, "log", seen)
    BY <1>6 DEF InstallLane
  <2>2. job[t].at = "stores" /\ UNCHANGED packet
    BY <1>6 DEF InstallLane, At
  <2>3. Fits("log", job[t].call.tool)
    BY <1>4, <2>2 DEF SessionStages
  <2>4. job'[t] = Open("log", job[t].for, job[t].call, seen)
    BY <2>1, <2>2, <2>3, GoFacts
  <2>5. job'[t].at = "log"
    BY <2>4, OpenFields
  <2>6. QED
    BY <1>2, <2>2, <2>5
<1>7. CASE ReadLog(t)
  <2> DEFINE seen == [state |-> job[t].seen.state, good |-> job[t].seen.good,
                      prompts |-> job[t].seen.prompts, closed |-> Statement(1),
                      past |-> Newest(closeouts \cup legacy)]
  <2>1. job[t].at = "log" /\ UNCHANGED packet
    BY <1>7 DEF ReadLog, At
  <2>2. Go(t, "older log", seen)
    BY <1>7 DEF ReadLog
  <2>3. Fits("older log", job[t].call.tool)
    BY <1>4, <2>1 DEF SessionStages
  <2>4. job'[t].seen = seen
    <3>1. PICK x : x = seen
      OBVIOUS
    <3>2. Go(t, "older log", x)
      BY <2>2, <3>1
    <3>3. job'[t].seen = x
      BY <2>1, <2>3, <3>2, GoMoved
    <3>4. QED
      BY <3>1, <3>3
  <2>5. job'[t].seen.closed = Newest(closeouts)
          /\ job'[t].seen.past = Newest(closeouts \cup legacy)
    BY <2>4 DEF Statement
  <2>6. Newest(closeouts) \subseteq closeouts
    BY NewestAbove
  <2>7. TwoReads'
    <3> SUFFICES ASSUME NEW u \in Threads, job'[u].at = "older log"
                 PROVE  /\ job'[u].seen.closed \subseteq closeouts'
                        /\ <<u, "log">> \notin passed' =>
                             \E C \in SUBSET closeouts' :
                               /\ job'[u].seen.closed = Newest(C)
                               /\ job'[u].seen.past = Newest(C \cup legacy')
      BY DEF TwoReads, Newest
    <3>1. CASE u = t
      BY <1>1, <2>5, <2>6, <3>1
    <3>2. CASE u # t
      BY <1>1, <3>2 DEF SessionInv, TwoReads, Alone, KeepsPassed
    <3>3. QED
      BY <3>1, <3>2
  <2>8. LogShowsOnce'
    BY <2>1 DEF SessionInv, LogShowsOnce, Newest
  <2>9. QED
    BY <2>7, <2>8 DEF SessionInv
<1>8. CASE ReadOlderLog(t)
  <2> DEFINE seen == job[t].seen
  <2>1. /\ job[t].at = "older log" /\ Answer(t, TRUE)
        /\ packet' = [seen |-> seen, old |-> Newest(legacy),
                      passed |-> {x[2] : x \in {y \in passed : y[1] = t}}]
    <3>1. Statement(2) = Newest(legacy)
      BY DEF Statement
    <3>2. QED
      BY <1>8, <3>1 DEF ReadOlderLog, At
  <2>2. packet'.seen = seen /\ packet'.old = Newest(legacy)
          /\ (<<t, "log">> \in passed => "log" \in packet'.passed)
    <3>1. <<t, "log">>[1] = t /\ <<t, "log">>[2] = "log"
      OBVIOUS
    <3>2. <<t, "log">> \in passed => "log" \in {x[2] : x \in {y \in passed : y[1] = t}}
      BY <3>1
    <3>3. QED
      BY <2>1, <3>2
  <2>3. job'[t].at \in {"idle", "replied"}
    BY <2>1, AnswerFacts
  <2>4. TwoReads'
    <3> SUFFICES ASSUME NEW u \in Threads, job'[u].at = "older log"
                 PROVE  /\ job'[u].seen.closed \subseteq closeouts'
                        /\ <<u, "log">> \notin passed' =>
                             \E C \in SUBSET closeouts' :
                               /\ job'[u].seen.closed = Newest(C)
                               /\ job'[u].seen.past = Newest(C \cup legacy')
      BY DEF TwoReads, Newest
    <3>1. u # t
      BY <2>3
    <3>2. QED
      BY <1>1, <3>1 DEF SessionInv, TwoReads, Alone, KeepsPassed
  <2>5. seen.closed \subseteq closeouts /\ Newest(legacy) \subseteq legacy
    BY <2>1, NewestAbove DEF SessionInv, TwoReads
  <2>6. seen.closed \cap Newest(legacy) = {}
    BY <2>5 DEF LogInv, LogTypes
  <2>7. ASSUME <<t, "log">> \notin passed
        PROVE  Newest(seen.closed \cup Newest(legacy)) = seen.past
    <3>1. PICK C \in SUBSET closeouts : /\ seen.closed = Newest(C)
                                        /\ seen.past = Newest(C \cup legacy)
      BY <2>1, <2>7 DEF SessionInv, TwoReads
    <3>2. clock \in Nat /\ C \subseteq 1 .. clock /\ legacy \subseteq 1 .. OldEntries
      BY DEF LogInv, LogTypes
    <3>3. IsFiniteSet(C) /\ IsFiniteSet(legacy) /\ C \in SUBSET Nat /\ legacy \in SUBSET Nat
      <4>1. IsFiniteSet(1 .. clock) /\ IsFiniteSet(1 .. OldEntries)
        BY <3>2, FS_Interval
      <4>2. IsFiniteSet(C) /\ IsFiniteSet(legacy)
        BY <3>2, <4>1, FS_Subset
      <4>3. QED
        BY <3>2, <4>2
    <3>4. QED
      BY <3>1, <3>3, NewestOfBoth
  <2>8. LogShowsOnce'
    <3> HIDE DEF seen
    <3>1. packet'.seen.closed \cap packet'.old = {}
      BY <2>2, <2>6
    <3>2. "log" \notin packet'.passed =>
            Newest(packet'.seen.closed \cup packet'.old) = packet'.seen.past
      BY <2>2, <2>7
    <3>3. QED
      BY <3>1, <3>2 DEF LogShowsOnce, Newest
  <2>9. QED
    BY <2>4, <2>8 DEF SessionInv
<1>9. QED
  BY <1>3, <1>5, <1>6, <1>7, <1>8 DEF SessionStep

\* A closeout absorbs the older log.
LEMMA CloseoutPasses ==
  ASSUME JobsOK, LogInv, SessionInv, NEW t \in Threads, LogStep(t)
  PROVE  SessionInv'
<1>1. /\ MovesIn(LogStages) /\ Alone(t) /\ KeepsPassed(t) /\ UNCHANGED packet
  BY LogFrame
<1>2. \A u \in Threads : job'[u].at = "older log" => job'[u] = job[u]
  BY <1>1 DEF MovesIn, LogStages
<1>3. job'[t].at = "older log" => job[t].at = "older log"
  BY <1>2
<1>4. ASSUME NEW n \in Nat, NEW c, Conforms(c), c.tool = "closeout", AskCloseout(t, n, c)
      PROVE  SessionInv'
  <2>1. /\ UNCHANGED <<closeouts, legacy>> /\ job[t] = Nothing
    BY <1>4 DEF AskCloseout, Begin, Idle
  <2>2. job'[t].at # "older log"
    BY <1>3, <2>1, NothingFields
  <2>3. QED
    BY <1>1, <2>1, <2>2, OtherStepsPass DEF LogStages
<1>5. CASE FileCloseout(t)
  <2>1. /\ job[t].at = "file" /\ closeouts \subseteq closeouts'
        /\ legacy' = {}
        /\ passed' = IF legacy = {} THEN passed
                     ELSE passed \cup {<<u, "log">> : u \in {v \in Threads : At(v, "older log")}}
    BY <1>5 DEF FileCloseout, At, LeftOver
  <2>2. TwoReads'
    <3> SUFFICES ASSUME NEW u \in Threads, job'[u].at = "older log"
                 PROVE  /\ job'[u].seen.closed \subseteq closeouts'
                        /\ <<u, "log">> \notin passed' =>
                             \E C \in SUBSET closeouts' :
                               /\ job'[u].seen.closed = Newest(C)
                               /\ job'[u].seen.past = Newest(C \cup legacy')
      BY DEF TwoReads, Newest
    <3>1. job'[u] = job[u]
      BY <1>2
    <3>2. job[u].seen.closed \subseteq closeouts
      BY <3>1 DEF SessionInv, TwoReads
    <3>3. CASE legacy = {}
      BY <2>1, <3>1, <3>2, <3>3 DEF SessionInv, TwoReads
    <3>4. CASE legacy # {}
      BY <2>1, <3>1, <3>2, <3>4 DEF At
    <3>5. QED
      BY <3>3, <3>4
  <2>3. LogShowsOnce'
    BY <1>1 DEF SessionInv, LogShowsOnce, Newest
  <2>4. QED
    BY <2>2, <2>3 DEF SessionInv
<1>6. QED
  BY <1>4, <1>5 DEF LogStep

LEMMA SessionNext ==
  ASSUME JobsOK, CallsOK, LogInv, SessionInv, [Next]_vars
  PROVE  SessionInv'
<1>1. ASSUME NEW t \in Threads, NEW S, S \cap SessionStages = {}, MovesIn(S),
             KeepsPassed(t), UNCHANGED <<closeouts, legacy, packet>>,
             JobsOK', job[t].at \in S \cup {"idle", "replied"}
      PROVE  SessionInv'
  <2>1. "older log" \notin S /\ job[t].at # "older log"
    BY <1>1 DEF SessionStages
  <2>2. job'[t].at # "older log"
    BY <1>1, <2>1 DEF MovesIn
  <2>3. QED
    BY <1>1, <2>1, <2>2, OtherStepsPass
<1>2. ASSUME NEW t \in Threads, Stepped(t)
      PROVE  SessionInv'
  <2>1. CASE LogStep(t)
    BY <2>1, CloseoutPasses
  <2>2. CASE SessionStep(t)
    BY <2>2, SessionStepKeeps
  <2>3. CASE NoteStep(t)
    BY <1>1, <2>3, NoteFrame, NoteFrom DEF NoteStages, SessionStages, logVars
  <2>4. CASE RowStep(t)
    BY <1>1, <2>4, RowFrame, RowFrom DEF RowStages, SessionStages, logVars
  <2>5. CASE SheetStep(t)
    BY <1>1, <2>5, SheetFrame, SheetFrom DEF SheetStages, SessionStages, logVars
  <2>6. CASE PromptStep(t)
    BY <1>1, <2>6, PromptFrame, PromptFrom DEF PromptStages, SessionStages, logVars
  <2>7. QED
    BY <1>2, <2>1, <2>2, <2>3, <2>4, <2>5, <2>6 DEF Stepped
<1>3. ASSUME NEW t \in Threads, Collect(t)
      PROVE  SessionInv'
  <2>1. /\ MovesIn({}) /\ UNCHANGED <<closeouts, legacy, packet, passed>>
    BY <1>3, CollectFrame DEF logVars, historyOf
  <2>2. QED
    BY <2>1, SessionUndisturbed DEF MovesIn
<1>4. ASSUME NEW ts \in SUBSET Threads, Interrupt(ts)
      PROVE  SessionInv'
  <2>1. InterruptFrameOf(ts) /\ UNCHANGED <<closeouts, legacy, packet, passed>>
    BY <1>4, InterruptFrame DEF logVars
  <2>2. QED
    BY <2>1, SessionUndisturbed DEF InterruptFrameOf
<1>5. CASE Still
  BY <1>5, SessionUndisturbed DEF Still, logVars, historyOf
<1>6. QED
  BY <1>2, <1>3, <1>4, <1>5, NextKinds

\* A session shows no entry of the log twice, and lacks one only when a closeout
\* absorbed the older log between the two reads.
THEOREM LogShowsOnceHolds == Spec => []LogShowsOnce
<1>1. JobsOK /\ CallsOK /\ LogInv /\ [Next]_vars => LogInv'
  BY LogNext
<1>2. JobsOK /\ CallsOK /\ LogInv /\ SessionInv /\ [Next]_vars => SessionInv'
  BY SessionNext
<1>3. SessionInv => LogShowsOnce
  BY DEF SessionInv
<1>4. QED
  BY LogInit, SessionInit, JobsHold, <1>1, <1>2, <1>3, PTL DEF Spec

-----------------------------------------------------------------------------
(* The prompts *)

PromptTypes ==
  /\ prompts \in Texts /\ good \in Texts /\ snapshots \subseteq Texts
  /\ \A t \in Threads : job[t].at \in PromptStages => job[t].seen.left \subseteq Sections

\* While edits have not overlapped, there is one at most, and once it writes,
\* what was good is in a snapshot.
OneEdit ==
  "prompts" \notin spoiled =>
    /\ \A t, u \in Threads :
         job[t].at \in PromptStages /\ job[u].at \in PromptStages => t = u
    /\ prompts = good \/ good \in snapshots
    /\ \A t \in Threads : job[t].at = "write section" => good \in snapshots

\* When none is writing and none was cut short, the prompts are good.
GoodWhenQuiet ==
  (\E t \in Threads : job[t].at = "write section") \/ "cut" \in spoiled \/ prompts = good

EditInv == PromptTypes /\ OneEdit /\ GoodWhenQuiet

LEMMA EditInit == Init => EditInv
<1> SUFFICES ASSUME Init PROVE EditInv
  OBVIOUS
<1>1. /\ prompts = [x \in Sections |-> 0] /\ good = prompts /\ snapshots = {}
      /\ \A t \in Threads : job[t].at = "idle"
  BY NothingFields DEF Init
<1>2. prompts \in Texts
  BY <1>1 DEF Texts
<1>3. QED
  BY <1>1, <1>2 DEF EditInv, PromptTypes, OneEdit, GoodWhenQuiet, PromptStages

LEMMA EditUndisturbed ==
  ASSUME EditInv, UNCHANGED promptVars, spoiled \subseteq spoiled',
         \A u \in Threads : job'[u] = job[u] \/ job'[u].at \notin PromptStages,
         \/ "cut" \in spoiled'
         \/ \A u \in Threads : job[u].at = "write section" => job'[u] = job[u]
  PROVE  EditInv'
<1>1. PromptTypes'
  BY DEF EditInv, PromptTypes, promptVars, Texts
<1>2. OneEdit'
  BY DEF EditInv, OneEdit, promptVars, PromptStages
<1>3. GoodWhenQuiet'
  BY DEF EditInv, GoodWhenQuiet, promptVars
<1>4. QED
  BY <1>1, <1>2, <1>3 DEF EditInv

LEMMA PromptTool ==
  ASSUME JobsOK, NEW t \in Threads
  PROVE  /\ job[t].at \in PromptStages <=> Serving(t, PromptTools)
         /\ job[t].at \in PromptStages => job[t].call.tool = "update_prompts"
                                            /\ job[t].call.val \in Values
<1>1. CASE job[t].at \in {"idle", "replied"}
  BY <1>1, IdleAt DEF JobsOK, Serving, Idle, PromptStages
<1>2. CASE job[t].at \notin {"idle", "replied"}
  <2>1. Fits(job[t].at, job[t].call.tool) /\ Conforms(job[t].call)
    BY <1>2, StageTool
  <2>2. job[t] # Nothing
    BY <1>2, NothingFields
  <2>3. job[t].at \in PromptStages <=> job[t].call.tool = "update_prompts"
    BY <2>1 DEF Fits, PromptStages, LogStages, SessionStages, RowStages, SheetStages
  <2>4. QED
    BY <1>2, <2>1, <2>2, <2>3 DEF Serving, Idle, PromptTools, Conforms
<1>3. QED
  BY <1>1, <1>2

LEMMA PromptStepKeeps ==
  ASSUME JobsOK, EditInv, NEW t \in Threads, PromptStep(t)
  PROVE  EditInv'
<1>1. /\ MovesIn(PromptStages) /\ Alone(t)
  BY PromptFrame
<1>2. ASSUME NEW n \in Nat, NEW c, Conforms(c), c.tool = "update_prompts", AskPrompts(t, n, c)
      PROVE  EditInv'
  <2>1. /\ Begin(t, n, c, "snapshot", [left |-> c.sections])
        /\ spoiled' = IF \E u \in Threads : Serving(u, PromptTools)
                      THEN spoiled \cup {"prompts"} ELSE spoiled
        /\ UNCHANGED promptVars
    BY <1>2 DEF AskPrompts, FirstOfEdit
  <2>2. Fits("snapshot", c.tool)
    BY <1>2 DEF Fits, PromptStages
  <2>3. job'[t].at = "snapshot" /\ job'[t].seen = [left |-> c.sections]
    <3>1. PICK x : x = [left |-> c.sections]
      OBVIOUS
    <3>2. Begin(t, n, c, "snapshot", x)
      BY <2>1, <3>1
    <3>3. QED
      BY <1>2, <2>2, <3>1, <3>2, BeginFields
  <2>4. job'[t].seen.left \subseteq Sections
    BY <1>2, <2>3 DEF Conforms
  <2>5. PromptTypes'
    BY <1>1, <2>1, <2>3, <2>4 DEF EditInv, PromptTypes, Alone, promptVars, Texts
  <2>6. OneEdit'
    <3> SUFFICES ASSUME "prompts" \notin spoiled'
                 PROVE  /\ \A v, u \in Threads :
                             job'[v].at \in PromptStages /\ job'[u].at \in PromptStages => v = u
                        /\ prompts = good \/ good \in snapshots
                        /\ \A v \in Threads : job'[v].at = "write section" => good \in snapshots
      BY <2>1 DEF OneEdit, promptVars
    <3>1. \A u \in Threads : job[u].at \notin PromptStages
      BY <2>1, PromptTool
    <3>2. "prompts" \notin spoiled
      BY <2>1
    <3>3. \A u \in Threads \ {t} : job'[u].at \notin PromptStages
      BY <1>1, <3>1 DEF Alone
    <3>4. \A u \in Threads : job'[u].at # "write section"
      BY <2>3, <3>3 DEF PromptStages
    <3>5. QED
      BY <3>2, <3>3, <3>4 DEF EditInv, OneEdit
  <2>7. GoodWhenQuiet'
    <3>1. job[t].at # "write section"
      BY <2>1, NothingFields DEF Begin, Idle
    <3>2. QED
      BY <1>1, <2>1, <3>1 DEF EditInv, GoodWhenQuiet, Alone, promptVars
  <2>8. QED
    BY <2>5, <2>6, <2>7 DEF EditInv
<1>3. ASSUME job[t].at \in PromptStages
      PROVE  /\ job[t].at \notin {"idle", "replied"} /\ Fits("write section", job[t].call.tool)
             /\ job[t].call.val \in Values /\ job[t].seen.left \subseteq Sections
  BY <1>3, PromptTool DEF PromptStages, Fits, EditInv, PromptTypes
<1>4. CASE Snapshot(t)
  <2>1. /\ job[t].at = "snapshot" /\ Go(t, "write section", job[t].seen)
        /\ snapshots' = snapshots \cup {prompts} /\ UNCHANGED <<prompts, good, spoiled>>
    BY <1>4 DEF Snapshot, At
  <2>2. PICK x : x = job[t].seen
    OBVIOUS
  <2>3. Go(t, "write section", x)
    BY <2>1, <2>2
  <2>4. job'[t].at = "write section" /\ job'[t].seen = job[t].seen
    BY <1>3, <2>1, <2>2, <2>3, GoMoved DEF PromptStages
  <2>5. PromptTypes'
    BY <1>1, <1>3, <2>1, <2>4 DEF EditInv, PromptTypes, Alone, Texts, PromptStages
  <2>6. OneEdit'
    BY <1>1, <2>1, <2>4 DEF EditInv, OneEdit, Alone, PromptStages
  <2>7. GoodWhenQuiet'
    BY <2>4 DEF GoodWhenQuiet
  <2>8. QED
    BY <2>5, <2>6, <2>7 DEF EditInv
<1>5. CASE WriteSection(t)
  <2>1. PICK x \in job[t].seen.left :
          /\ prompts' = [prompts EXCEPT ![x] = job[t].call.val]
          /\ IF job[t].seen.left = {x}
             THEN good' = prompts' /\ Answer(t, TRUE)
             ELSE UNCHANGED good /\ Go(t, "write section", [left |-> job[t].seen.left \ {x}])
    BY <1>5 DEF WriteSection
  <2>2. job[t].at = "write section" /\ UNCHANGED <<snapshots, spoiled>>
    BY <1>5 DEF WriteSection, At
  <2>3. x \in Sections /\ job[t].call.val \in Values /\ job[t].seen.left \subseteq Sections
    BY <1>3, <2>1, <2>2 DEF PromptStages
  <2>4. prompts' \in Texts
    BY <2>1, <2>3 DEF EditInv, PromptTypes, Texts
  <2>5. \/ good' = prompts' /\ job'[t].at \in {"idle", "replied"}
        \/ /\ good' = good /\ job'[t].at = "write section"
           /\ job'[t].seen.left \subseteq Sections
    <3>1. CASE job[t].seen.left = {x}
      <4>1. good' = prompts' /\ Answer(t, TRUE)
        BY <2>1, <3>1
      <4>2. QED
        BY <1>3, <2>2, <4>1, AnswerFacts DEF PromptStages
    <3>2. CASE job[t].seen.left # {x}
      <4>1. PICK y : y = [left |-> job[t].seen.left \ {x}]
        OBVIOUS
      <4>2. good' = good /\ Go(t, "write section", y)
        BY <2>1, <3>2, <4>1
      <4>3. job'[t].at = "write section" /\ job'[t].seen = y
        BY <1>3, <2>2, <4>2, GoMoved DEF PromptStages
      <4>4. y.left \subseteq Sections
        BY <2>3, <4>1
      <4>5. QED
        BY <4>2, <4>3, <4>4
    <3>3. QED
      BY <3>1, <3>2
  <2>6. good' \in Texts
    BY <2>4, <2>5 DEF EditInv, PromptTypes
  <2>7. PromptTypes'
    BY <1>1, <2>2, <2>4, <2>5, <2>6 DEF EditInv, PromptTypes, Alone, Texts, PromptStages
  <2>8. OneEdit'
    <3> SUFFICES ASSUME "prompts" \notin spoiled
                 PROVE  /\ \A v, u \in Threads :
                             job'[v].at \in PromptStages /\ job'[u].at \in PromptStages => v = u
                        /\ prompts' = good' \/ good' \in snapshots
                        /\ \A v \in Threads : job'[v].at = "write section" => good' \in snapshots
      BY <2>2 DEF OneEdit
    <3>1. good \in snapshots /\ \A u \in Threads \ {t} : job[u].at \notin PromptStages
      BY <2>2 DEF EditInv, OneEdit, PromptStages
    <3>2. \A u \in Threads \ {t} : job'[u].at \notin PromptStages
      BY <1>1, <3>1 DEF Alone
    <3>3. \A v \in Threads : job'[v].at = "write section" => v = t
      BY <3>2 DEF PromptStages
    <3>4. prompts' = good' \/ good' \in snapshots
      BY <2>5, <3>1
    <3>5. job'[t].at = "write section" => good' \in snapshots
      BY <2>5, <3>1
    <3>6. QED
      BY <3>2, <3>3, <3>4, <3>5
  <2>9. GoodWhenQuiet'
    BY <2>5 DEF GoodWhenQuiet
  <2>10. QED
    BY <2>7, <2>8, <2>9 DEF EditInv
<1>6. QED
  BY <1>2, <1>4, <1>5 DEF PromptStep

LEMMA EditNext ==
  ASSUME JobsOK, CallsOK, EditInv, [Next]_vars
  PROVE  EditInv'
<1>1. ASSUME NEW S, S \cap PromptStages = {}, MovesIn(S), UNCHANGED promptVars,
             spoiled \subseteq spoiled'
      PROVE  EditInv'
  <2>1. \A u \in Threads : job'[u] = job[u] \/ (job[u].at \notin PromptStages
                                                /\ job'[u].at \notin PromptStages)
    BY <1>1 DEF MovesIn, PromptStages
  <2>2. QED
    BY <1>1, <2>1, EditUndisturbed DEF PromptStages
<1>2. ASSUME NEW t \in Threads, Stepped(t)
      PROVE  EditInv'
  <2>1. CASE LogStep(t)
    BY <1>1, <2>1, LogFrame DEF LogStages, PromptStages
  <2>2. CASE SessionStep(t)
    BY <1>1, <2>2, SessionFrame DEF SessionStages, PromptStages
  <2>3. CASE NoteStep(t)
    BY <1>1, <2>3, NoteFrame DEF NoteStages, PromptStages
  <2>4. CASE RowStep(t)
    BY <1>1, <2>4, RowFrame DEF RowStages, PromptStages
  <2>5. CASE SheetStep(t)
    BY <1>1, <2>5, SheetFrame DEF SheetStages, PromptStages
  <2>6. CASE PromptStep(t)
    BY <2>6, PromptStepKeeps
  <2>7. QED
    BY <1>2, <2>1, <2>2, <2>3, <2>4, <2>5, <2>6 DEF Stepped
<1>3. ASSUME NEW t \in Threads, Collect(t)
      PROVE  EditInv'
  BY <1>1, <1>3, CollectFrame DEF historyOf
<1>4. ASSUME NEW ts \in SUBSET Threads, Interrupt(ts)
      PROVE  EditInv'
  <2>1. InterruptFrameOf(ts) /\ UNCHANGED promptVars /\ spoiled \subseteq spoiled'
    BY <1>4, InterruptFrame
  <2>2. "cut" \in spoiled' \/ \A u \in ts : job[u].at # "write section"
    BY <1>4 DEF Interrupt, At
  <2>3. QED
    BY <2>1, <2>2, EditUndisturbed DEF InterruptFrameOf, PromptStages
<1>5. CASE Still
  BY <1>5, EditUndisturbed DEF Still, historyOf
<1>6. QED
  BY <1>2, <1>3, <1>4, <1>5, NextKinds

-----------------------------------------------------------------------------
(* The prompts a session is given *)

\* A session no edit has overtaken has read the good prompts so far.
ReadWell(at, s, now) ==
  /\ at = "sections" => /\ "prompts" \in DOMAIN s
                        /\ now = s.good /\ DOMAIN s.prompts \subseteq Sections
                        /\ \A y \in DOMAIN s.prompts : s.prompts[y] = now[y]
  /\ at \in {"stores", "log", "older log"} => s.prompts = s.good

SectionsRead ==
  \A t \in Threads :
    <<t, "prompts">> \notin passed => ReadWell(job[t].at, job[t].seen, prompts)

SessionGotGood ==
  packet # Nothing =>
    "prompts" \in packet.passed \/ packet.seen.prompts = packet.seen.good

ShownInv == SectionsRead /\ SessionGotGood

LEMMA ShownInit == Init => ShownInv
BY NothingFields DEF Init, ShownInv, SectionsRead, ReadWell, SessionGotGood

LEMMA ShownUndisturbed ==
  ASSUME ShownInv, UNCHANGED <<prompts, packet>>,
         \A u \in Threads :
           job'[u].at \in SessionStages =>
             job'[u] = job[u] /\ (<<u, "prompts">> \in passed => <<u, "prompts">> \in passed')
  PROVE  ShownInv'
<1>1. SectionsRead'
  <2> SUFFICES ASSUME NEW u \in Threads, <<u, "prompts">> \notin passed'
               PROVE  ReadWell(job'[u].at, job'[u].seen, prompts)
    BY DEF SectionsRead
  <2>1. CASE job'[u].at \in SessionStages
    BY <2>1 DEF ShownInv, SectionsRead
  <2>2. CASE job'[u].at \notin SessionStages
    BY <2>2 DEF ReadWell, SessionStages
  <2>3. QED
    BY <2>1, <2>2
<1>2. SessionGotGood'
  BY DEF ShownInv, SessionGotGood
<1>3. QED
  BY <1>1, <1>2 DEF ShownInv

\* The step of another request that leaves the prompts.
LEMMA OtherStepsShow ==
  ASSUME ShownInv, NEW t \in Threads, NEW S, S \cap SessionStages = {}, MovesIn(S),
         job[t].at \in S \cup {"idle", "replied"},
         KeepsPassed(t), UNCHANGED <<prompts, packet>>
  PROVE  ShownInv'
<1>1. \A u \in Threads : job'[u] = job[u] \/ job'[u].at \notin SessionStages
  BY DEF MovesIn, SessionStages
<1>2. job[t].at \notin SessionStages
  BY DEF SessionStages
<1>3. QED
  BY <1>1, <1>2, ShownUndisturbed DEF KeepsPassed

LEMMA LogFrom ==
  ASSUME NEW t, LogStep(t) PROVE job[t].at \in LogStages \cup {"idle"}
BY NothingFields DEF LogStep, AskCloseout, Begin, Idle, FileCloseout, At, LogStages

\* A section is written: the sessions that are reading are overtaken.
LEMMA EditOvertakes ==
  ASSUME JobsOK, ShownInv, NEW t \in Threads, PromptStep(t)
  PROVE  ShownInv'
<1>1. /\ MovesIn(PromptStages) /\ KeepsPassed(t) /\ UNCHANGED packet
      /\ job[t].at \in PromptStages \cup {"idle"}
  BY PromptFrame, PromptFrom
<1>2. CASE UNCHANGED prompts
  BY <1>1, <1>2, OtherStepsShow DEF PromptStages, SessionStages
<1>3. CASE WriteSection(t)
  <2>1. passed' = passed \cup {<<u, "prompts">> : u \in {v \in Threads : At(v, "sections")}}
    BY <1>3 DEF WriteSection
  <2>2. \A u \in Threads : job'[u].at \in SessionStages => job'[u] = job[u]
    BY <1>1 DEF MovesIn, PromptStages, SessionStages
  <2>3. SectionsRead'
    <3> SUFFICES ASSUME NEW u \in Threads, <<u, "prompts">> \notin passed',
                        job'[u].at \in SessionStages
                 PROVE  /\ job'[u].at # "sections"
                        /\ job'[u].seen.prompts = job'[u].seen.good
      BY DEF SectionsRead, SessionStages, ReadWell
    <3>1. job'[u] = job[u] /\ <<u, "prompts">> \notin passed
      BY <2>1, <2>2
    <3>2. job[u].at # "sections"
      BY <2>1 DEF At
    <3>3. QED
      BY <3>1, <3>2 DEF ShownInv, SectionsRead, ReadWell, SessionStages
  <2>4. SessionGotGood'
    BY <1>1 DEF ShownInv, SessionGotGood
  <2>5. QED
    BY <2>3, <2>4 DEF ShownInv
<1>4. UNCHANGED prompts \/ WriteSection(t)
  BY DEF PromptStep, AskPrompts, Snapshot, promptVars
<1>5. QED
  BY <1>2, <1>3, <1>4

LEMMA SeenFields ==
  ASSUME NEW s, NEW r, NEW n, n = [s EXCEPT !.prompts = r], "prompts" \in DOMAIN s
  PROVE  n.good = s.good /\ n.prompts = r /\ DOMAIN n = DOMAIN s
OBVIOUS

LEMMA SessionReads ==
  ASSUME JobsOK, EditInv, ShownInv, NEW t \in Threads, SessionStep(t)
  PROVE  ShownInv'
<1>1. /\ Alone(t) /\ KeepsPassed(t) /\ UNCHANGED <<prompts, good, spoiled>>
  BY SessionFrame DEF promptVars
\* What is left to show, of the request itself and of its packet.
<1> DEFINE Read ==
      <<t, "prompts">> \notin passed' => ReadWell(job'[t].at, job'[t].seen, prompts)
<1>2. ASSUME Read, SessionGotGood'
      PROVE  ShownInv'
  <2>1. ASSUME NEW u \in Threads \ {t}
        PROVE  job'[u] = job[u] /\ (<<u, "prompts">> \in passed => <<u, "prompts">> \in passed')
    BY <1>1 DEF Alone, KeepsPassed
  <2>2. SectionsRead'
    BY <1>1, <1>2, <2>1 DEF ShownInv, SectionsRead
  <2>3. QED
    BY <1>2, <2>2 DEF ShownInv
<1>3. ASSUME UNCHANGED packet
      PROVE  SessionGotGood'
  BY <1>3 DEF ShownInv, SessionGotGood
<1>4. ASSUME job[t].at \in {"sections", "stores", "log"}
      PROVE  \A r \in SessionStages : Fits(r, job[t].call.tool)
  BY <1>4, StageTool DEF Fits, SessionStages, LogStages, RowStages, SheetStages, PromptStages
<1>5. ASSUME NEW n \in Nat, NEW c, Conforms(c), c.tool = "summon", AskSession(t, n, c)
      PROVE  ShownInv'
  <2> DEFINE s == [state |-> state, good |-> good, prompts |-> <<>>]
  <2>1. /\ job'[t].at = "sections" /\ job'[t].seen = s
        /\ UNCHANGED packet
        /\ Writers # {} \/ "cut" \in spoiled => <<t, "prompts">> \in passed'
    BY <1>5 DEF AskSession, JobsOK
  <2>2. /\ job'[t].seen.good = good /\ job'[t].seen.prompts = <<>>
        /\ "prompts" \in DOMAIN job'[t].seen
    BY <2>1
  <2>3. DOMAIN job'[t].seen.prompts = {}
    BY <2>2
  <2>4. <<t, "prompts">> \notin passed' => prompts = good
    BY <2>1 DEF EditInv, GoodWhenQuiet, Writers, At
  <2> HIDE DEF s
  <2>5. Read
    BY <2>1, <2>2, <2>3, <2>4 DEF ReadWell
  <2> HIDE DEF Read
  <2>6. QED
    BY <1>2, <1>3, <2>1, <2>5
<1>6. CASE ReadSection(t)
  <2> DEFINE s == job[t].seen
  <2>1. PICK x, r, n :
          /\ x \in Sections \ DOMAIN s.prompts
          /\ r = [y \in DOMAIN s.prompts \cup {x} |->
                       IF y = x THEN prompts[x] ELSE s.prompts[y]]
          /\ n = [s EXCEPT !.prompts = r]
          /\ Go(t, IF DOMAIN r = Sections THEN "stores" ELSE "sections", n)
    BY <1>6 DEF ReadSection
  <2>2. job[t].at = "sections" /\ UNCHANGED packet /\ UNCHANGED passed
    BY <1>6 DEF ReadSection, At, Keep
  <2>3. PICK w \in {"stores", "sections"} :
          w = IF DOMAIN r = Sections THEN "stores" ELSE "sections"
    OBVIOUS
  <2>4. Fits(w, job[t].call.tool) /\ job[t].at \notin {"idle", "replied"}
    BY <1>4, <2>2 DEF SessionStages
  <2>5. job'[t].at = w /\ job'[t].seen = n
    BY <2>1, <2>3, <2>4, GoMoved
  <2>7. DOMAIN r = DOMAIN s.prompts \cup {x}
    BY <2>1
  <2>8. Read
    <3> SUFFICES ASSUME <<t, "prompts">> \notin passed
                 PROVE  /\ w = "sections" => /\ "prompts" \in DOMAIN n /\ prompts = n.good
                                             /\ DOMAIN n.prompts \subseteq Sections
                                             /\ \A y \in DOMAIN n.prompts :
                                                  n.prompts[y] = prompts[y]
                        /\ w = "stores" => n.prompts = n.good
      BY <2>2, <2>5 DEF ReadWell
    <3>1. /\ "prompts" \in DOMAIN s /\ prompts = s.good /\ DOMAIN s.prompts \subseteq Sections
          /\ \A y \in DOMAIN s.prompts : s.prompts[y] = prompts[y]
      BY <2>2 DEF ShownInv, SectionsRead, ReadWell
    <3>2. DOMAIN r \subseteq Sections /\ \A y \in DOMAIN r : r[y] = prompts[y]
      BY <2>1, <3>1
    <3>3. ASSUME w = "stores" PROVE r = prompts
      <4>1. DOMAIN r = Sections
        BY <2>3, <3>3
      <4>2. r = [y \in Sections |-> prompts[y]]
        BY <2>1, <2>7, <3>2, <4>1
      <4>3. prompts = [y \in Sections |-> prompts[y]]
        BY DEF EditInv, PromptTypes, Texts
      <4>4. QED
        BY <4>2, <4>3
    <3> HIDE DEF s
    <3>4. n.good = s.good /\ n.prompts = r /\ "prompts" \in DOMAIN n
      BY <2>1, <3>1, SeenFields
    <3>5. QED
      BY <3>1, <3>2, <3>3, <3>4
  <2> HIDE DEF Read, s
  <2>9. QED
    BY <1>2, <1>3, <2>2, <2>8
<1>7. CASE InstallLane(t)
  <2>1. job[t].at = "stores" /\ UNCHANGED packet /\ UNCHANGED passed
    BY <1>7 DEF InstallLane, At, Keep
  <2>2. PICK n : n = job[t].seen /\ Go(t, "log", n)
    BY <1>7 DEF InstallLane
  <2>3. Fits("log", job[t].call.tool) /\ job[t].at \notin {"idle", "replied"}
    BY <1>4, <2>1 DEF SessionStages
  <2>4. job'[t].at = "log" /\ job'[t].seen = n
    BY <2>2, <2>3, GoMoved
  <2>5. Read
    BY <2>1, <2>2, <2>4 DEF ShownInv, SectionsRead, ReadWell
  <2> HIDE DEF Read
  <2>6. QED
    BY <1>2, <1>3, <2>1, <2>5
<1>8. CASE ReadLog(t)
  <2>1. job[t].at = "log" /\ UNCHANGED packet /\ UNCHANGED passed
    BY <1>8 DEF ReadLog, At, Keep
  <2>2. PICK n : /\ n = [state |-> job[t].seen.state, good |-> job[t].seen.good,
                         prompts |-> job[t].seen.prompts, closed |-> Statement(1),
                         past |-> Newest(closeouts \cup legacy)]
                 /\ Go(t, "older log", n)
    BY <1>8 DEF ReadLog
  <2>3. job[t].at \notin {"idle", "replied"} /\ Go(t, "older log", n)
    BY <2>1, <2>2
  <2>4. job'[t].at = "older log" /\ job'[t].seen = n
    BY <2>3, GoMoved
  <2>5. n.prompts = job[t].seen.prompts /\ n.good = job[t].seen.good
    BY <2>2
  <2>6. Read
    BY <2>1, <2>4, <2>5 DEF ShownInv, SectionsRead, ReadWell
  <2> HIDE DEF Read
  <2>7. QED
    BY <1>2, <1>3, <2>1, <2>6
<1>9. CASE ReadOlderLog(t)
  <2> DEFINE s == job[t].seen
             over == {x[2] : x \in {y \in passed : y[1] = t}}
  <2>1. /\ job[t].at = "older log" /\ Answer(t, TRUE)
        /\ packet' = [seen |-> s, old |-> Statement(2), passed |-> over]
    BY <1>9 DEF ReadOlderLog, At
  <2>2. job'[t].at \in {"idle", "replied"}
    BY <2>1, AnswerFacts
  <2>3. <<t, "prompts">> \in passed => "prompts" \in over
    <3>1. <<t, "prompts">>[1] = t /\ <<t, "prompts">>[2] = "prompts"
      OBVIOUS
    <3>2. QED
      BY <3>1
  <2> HIDE DEF over
  <2>4. packet'.seen = s /\ packet'.passed = over
    BY <2>1
  <2>5. <<t, "prompts">> \notin passed => s.prompts = s.good
    BY <2>1 DEF ShownInv, SectionsRead, ReadWell
  <2> HIDE DEF s
  <2>6. SessionGotGood'
    BY <2>3, <2>4, <2>5 DEF SessionGotGood
  <2>7. Read
    BY <2>2 DEF ReadWell
  <2> HIDE DEF Read
  <2>8. QED
    BY <1>2, <2>6, <2>7
<1>10. QED
  BY <1>5, <1>6, <1>7, <1>8, <1>9 DEF SessionStep

LEMMA ShownNext ==
  ASSUME JobsOK, CallsOK, EditInv, ShownInv, [Next]_vars
  PROVE  ShownInv'
<1>1. ASSUME NEW t \in Threads, Stepped(t)
      PROVE  ShownInv'
  <2>1. CASE LogStep(t)
    BY <2>1, LogFrame, LogFrom, OtherStepsShow DEF LogStages, SessionStages, promptVars
  <2>2. CASE SessionStep(t)
    BY <2>2, SessionReads
  <2>3. CASE NoteStep(t)
    BY <2>3, NoteFrame, NoteFrom, OtherStepsShow DEF NoteStages, SessionStages, promptVars
  <2>4. CASE RowStep(t)
    BY <2>4, RowFrame, RowFrom, OtherStepsShow DEF RowStages, SessionStages, promptVars
  <2>5. CASE SheetStep(t)
    BY <2>5, SheetFrame, SheetFrom, OtherStepsShow DEF SheetStages, SessionStages, promptVars
  <2>6. CASE PromptStep(t)
    BY <2>6, EditOvertakes
  <2>7. QED
    BY <1>1, <2>1, <2>2, <2>3, <2>4, <2>5, <2>6 DEF Stepped
<1>2. ASSUME NEW t \in Threads, Collect(t)
      PROVE  ShownInv'
  <2>1. /\ MovesIn({}) /\ UNCHANGED <<prompts, packet, passed>>
    BY <1>2, CollectFrame DEF promptVars, historyOf
  <2>2. QED
    BY <2>1, ShownUndisturbed DEF MovesIn, SessionStages
<1>3. ASSUME NEW ts \in SUBSET Threads, Interrupt(ts)
      PROVE  ShownInv'
  <2>1. InterruptFrameOf(ts) /\ UNCHANGED <<prompts, packet, passed>>
    BY <1>3, InterruptFrame DEF promptVars
  <2>2. QED
    BY <2>1, ShownUndisturbed DEF InterruptFrameOf, SessionStages
<1>4. CASE Still
  BY <1>4, ShownUndisturbed DEF Still, promptVars, historyOf
<1>5. QED
  BY <1>1, <1>2, <1>3, <1>4, NextKinds

\* What the last finished edit of the prompts left is in place or in a snapshot,
\* and a session that met no edit was given it.
THEOREM PromptsAreWholeHolds == Spec => []PromptsAreWhole
<1>1. JobsOK /\ CallsOK /\ EditInv /\ [Next]_vars => EditInv'
  BY EditNext
<1>2. JobsOK /\ CallsOK /\ EditInv /\ ShownInv /\ [Next]_vars => ShownInv'
  BY ShownNext
<1>3. EditInv /\ ShownInv => PromptsAreWhole
  BY DEF EditInv, OneEdit, ShownInv, SessionGotGood, PromptsAreWhole
<1>4. QED
  BY EditInit, ShownInit, JobsHold, <1>1, <1>2, <1>3, PTL DEF Spec

-----------------------------------------------------------------------------
(* oak-sheet.json *)

SheetTypes ==
  /\ sheet \in Patch \cup {Torn, Gone} /\ meant \in Patch \cup {Gone}
  /\ \A t \in Threads : job[t].at \in {"open", "fill"} => job[t].seen.text \in Patch

\* What a request that edits the sheet relies upon at its stage.
SheetWell(at, c, s, now, aim) ==
  /\ at # "fill removed"
  /\ at \in {"open", "unlink"} => now = aim
  /\ at = "fill" => now = Torn
  /\ at \in {"open", "fill"} /\ c.tool = "update_sheet" =>
       IsSheet(aim) /\ s.text = Merged(aim, c)

\* While nothing has spoiled the sheet one request at most is at it, and between
\* requests it is what it is meant to be.
OneAtTheSheet ==
  "sheet" \notin spoiled =>
    /\ \A t, u \in Threads :
         job[t].at \in SheetStages /\ job[u].at \in SheetStages => t = u
    /\ \A t \in Threads :
         job[t].at \in SheetStages =>
           SheetWell(job[t].at, job[t].call, job[t].seen, sheet, meant)
    /\ (\E t \in Threads : job[t].at = "fill") \/ sheet = meant

SheetInv == SheetTypes /\ OneAtTheSheet

LEMMA SheetInit == Init => SheetInv
<1> SUFFICES ASSUME Init PROVE SheetInv
  OBVIOUS
<1>1. /\ sheet = [f \in Fields |-> 0] /\ meant = sheet /\ \A t \in Threads : job[t].at = "idle"
  BY NothingFields DEF Init
<1>2. sheet \in Patch
  BY <1>1 DEF Patch
<1>3. QED
  BY <1>1, <1>2 DEF SheetInv, SheetTypes, OneAtTheSheet, SheetStages

LEMMA SheetUndisturbed ==
  ASSUME SheetInv, UNCHANGED sheetVars, spoiled \subseteq spoiled',
         \A u \in Threads : job'[u] = job[u] \/ job'[u].at \notin SheetStages,
         \/ "sheet" \in spoiled'
         \/ \A u \in Threads : job[u].at = "fill" => job'[u] = job[u]
  PROVE  SheetInv'
<1>1. SheetTypes'
  BY DEF SheetInv, SheetTypes, sheetVars, SheetStages, Patch
<1>2. OneAtTheSheet'
  <2> SUFFICES ASSUME "sheet" \notin spoiled'
               PROVE  OneAtTheSheet'
    BY DEF OneAtTheSheet
  <2>1. /\ \A t, u \in Threads :
             job[t].at \in SheetStages /\ job[u].at \in SheetStages => t = u
        /\ \A t \in Threads :
             job[t].at \in SheetStages =>
               SheetWell(job[t].at, job[t].call, job[t].seen, sheet, meant)
        /\ (\E t \in Threads : job[t].at = "fill") \/ sheet = meant
    BY DEF SheetInv, OneAtTheSheet
  <2>2. sheet' = sheet /\ meant' = meant
    BY DEF sheetVars
  <2>3. \A t, u \in Threads :
             job'[t].at \in SheetStages /\ job'[u].at \in SheetStages => t = u
    BY <2>1
  <2>4. \A t \in Threads :
          job'[t].at \in SheetStages =>
            SheetWell(job'[t].at, job'[t].call, job'[t].seen, sheet', meant')
    BY <2>1, <2>2
  <2>5. (\E t \in Threads : job'[t].at = "fill") \/ sheet' = meant'
    BY <2>1, <2>2
  <2>6. QED
    BY <2>3, <2>4, <2>5 DEF OneAtTheSheet, SheetWell, Merged, IsSheet
<1>3. QED
  BY <1>1, <1>2 DEF SheetInv

LEMMA SheetTool ==
  ASSUME JobsOK, NEW t \in Threads
  PROVE  /\ job[t].at \in SheetStages <=> Serving(t, SheetTools)
         /\ job[t].at \in SheetStages =>
              /\ job[t].at \notin {"idle", "replied"} /\ Conforms(job[t].call)
              /\ job[t].at # "unlink" => job[t].call.tool \in {"update_sheet", "write_file"}
<1>1. CASE job[t].at \in {"idle", "replied"}
  BY <1>1, IdleAt DEF JobsOK, Serving, Idle, SheetStages
<1>2. CASE job[t].at \notin {"idle", "replied"}
  <2>1. Fits(job[t].at, job[t].call.tool) /\ Conforms(job[t].call)
    BY <1>2, StageTool
  <2>2. job[t] # Nothing
    BY <1>2, NothingFields
  <2>3. /\ job[t].at \in SheetStages <=> job[t].call.tool \in SheetTools
        /\ job[t].at \in SheetStages \ {"unlink"} =>
             job[t].call.tool \in {"update_sheet", "write_file"}
    BY <2>1 DEF Fits, SheetTools, PromptStages, LogStages, SessionStages, RowStages, SheetStages
  <2>4. QED
    BY <1>2, <2>1, <2>2, <2>3 DEF Serving, Idle, SheetTools, SheetStages
<1>3. QED
  BY <1>1, <1>2

\* A request upon the sheet begins.
LEMMA SheetBegins ==
  ASSUME JobsOK, SheetInv, NEW t \in Threads, NEW n \in Nat, NEW c, NEW stage, NEW seen,
         SheetJob(t, n, c, stage, seen), Conforms(c), Fits(stage, c.tool),
         stage \in {"open", "unlink"}, UNCHANGED sheetVars,
         stage = "open" => seen.text \in Patch,
         c.tool = "update_sheet" => IsSheet(sheet) /\ seen.text = Merged(sheet, c)
  PROVE  SheetInv'
<1>1. /\ Begin(t, n, c, stage, seen)
      /\ spoiled' = IF \E u \in Threads : Serving(u, SheetTools) THEN spoiled \cup {"sheet"}
                    ELSE spoiled
      /\ sheet' = sheet /\ meant' = meant
  BY DEF SheetJob, sheetVars
<1>2. /\ Alone(t) /\ job'[t].at = stage /\ job'[t].call = c /\ job'[t].seen = seen
  BY <1>1, BeginFacts, BeginFields
<1>3. SheetTypes'
  BY <1>1, <1>2 DEF SheetInv, SheetTypes, Alone, Patch
<1>4. ASSUME "sheet" \notin spoiled'
      PROVE  OneAtTheSheet'
  <2>1. "sheet" \notin spoiled /\ \A u \in Threads : job[u].at \notin SheetStages
    BY <1>1, <1>4, SheetTool
  <2>2. sheet = meant
    BY <2>1 DEF SheetInv, OneAtTheSheet, SheetStages
  <2>3. \A u \in Threads \ {t} : job'[u].at \notin SheetStages
    BY <1>2, <2>1 DEF Alone
  <2>4. SheetWell(job'[t].at, job'[t].call, job'[t].seen, sheet', meant')
    BY <1>1, <1>2, <2>2 DEF SheetWell
  <2>5. QED
    BY <1>1, <2>2, <2>3, <2>4 DEF OneAtTheSheet
<1>5. QED
  BY <1>3, <1>4 DEF SheetInv, OneAtTheSheet

LEMMA SheetStepKeeps ==
  ASSUME JobsOK, SheetInv, NEW t \in Threads, SheetStep(t)
  PROVE  SheetInv'
<1>1. ASSUME NEW n \in Nat, NEW c, Refuse(t, n, c), Conforms(c), UNCHANGED spoiled,
             UNCHANGED sheetVars
      PROVE  SheetInv'
  <2>1. job[t].at = "idle" /\ job'[t].at = "replied" /\ Alone(t)
    BY <1>1, RefuseMoves
  <2>2. QED
    BY <1>1, <2>1, SheetUndisturbed DEF Alone, SheetStages
<1>2. ASSUME NEW n \in Nat, NEW c, Conforms(c), c.tool = "update_sheet", AskUpdateSheet(t, n, c)
      PROVE  SheetInv'
  <2>1. CASE IsSheet(sheet)
    <3>1. PICK s : s = [text |-> Merged(sheet, c)] /\ SheetJob(t, n, c, "open", s)
      BY <1>2, <2>1 DEF AskUpdateSheet
    <3>2. s.text = Merged(sheet, c)
      BY <3>1
    <3>3. Fits("open", c.tool)
      BY <1>2 DEF Fits, SheetStages
    <3>4. Merged(sheet, c) \in Patch
      <4>1. sheet \in Patch /\ c.field \in Fields /\ c.val \in Values
        BY <1>2, <2>1 DEF SheetInv, SheetTypes, IsSheet, Conforms
      <4>2. QED
        BY <4>1 DEF Merged, Patch
    <3>5. UNCHANGED sheetVars
      BY <1>2 DEF AskUpdateSheet
    <3>6. QED
      BY <1>2, <2>1, <3>1, <3>2, <3>3, <3>4, <3>5, SheetBegins
  <2>2. CASE ~IsSheet(sheet)
    BY <1>1, <1>2, <2>2 DEF AskUpdateSheet
  <2>3. QED
    BY <2>1, <2>2
<1>3. ASSUME NEW n \in Nat, NEW c, Conforms(c), c.tool = "write_file", AskWriteFile(t, n, c)
      PROVE  SheetInv'
  <2>1. PICK s : s = [text |-> [f \in Fields |-> c.val]] /\ SheetJob(t, n, c, "open", s)
    BY <1>3 DEF AskWriteFile
  <2>2. s.text \in Patch
    BY <1>3, <2>1 DEF Conforms, Patch
  <2>3. Fits("open", c.tool) /\ c.tool # "update_sheet"
    BY <1>3 DEF Fits, SheetStages
  <2>4. UNCHANGED sheetVars
    BY <1>3 DEF AskWriteFile
  <2>5. QED
    BY <1>3, <2>1, <2>2, <2>3, <2>4, SheetBegins
<1>4. ASSUME NEW n \in Nat, NEW c, Conforms(c), c.tool = "delete_file", AskDeleteFile(t, n, c)
      PROVE  SheetInv'
  <2>1. CASE sheet # Gone
    <3>1. SheetJob(t, n, c, "unlink", Blank) /\ UNCHANGED sheetVars
      BY <1>4, <2>1 DEF AskDeleteFile
    <3>2. Fits("unlink", c.tool) /\ c.tool # "update_sheet"
      BY <1>4 DEF Fits
    <3>3. QED
      BY <1>4, <3>1, <3>2, SheetBegins
  <2>2. CASE sheet = Gone
    BY <1>1, <1>4, <2>2 DEF AskDeleteFile
  <2>3. QED
    BY <2>1, <2>2
<1>5. CASE OpenFile(t)
  <2>1. /\ job[t].at = "open" /\ sheet' = Torn /\ meant' = meant /\ spoiled' = spoiled
    BY <1>5 DEF OpenFile, At
  <2>2. PICK s : s = job[t].seen /\ Go(t, "fill", s)
    BY <1>5 DEF OpenFile
  <2>3. Fits("fill", job[t].call.tool) /\ job[t].at \notin {"idle", "replied"}
    BY <2>1, SheetTool DEF Fits, SheetStages
  <2>4. /\ job'[t].at = "fill" /\ job'[t].call = job[t].call /\ job'[t].seen = job[t].seen
        /\ Alone(t)
    BY <2>2, <2>3, GoMoved, GoFacts
  <2>5. SheetTypes'
    BY <2>1, <2>4 DEF SheetInv, SheetTypes, Alone, Patch
  <2>6. ASSUME "sheet" \notin spoiled
        PROVE  OneAtTheSheet'
    <3>1. /\ \A u \in Threads \ {t} : job[u].at \notin SheetStages
          /\ SheetWell("open", job[t].call, job[t].seen, sheet, meant)
      BY <2>1, <2>6 DEF SheetInv, OneAtTheSheet, SheetStages
    <3>2. \A u \in Threads \ {t} : job'[u].at \notin SheetStages
      BY <2>4, <3>1 DEF Alone
    <3>3. SheetWell(job'[t].at, job'[t].call, job'[t].seen, sheet', meant')
      BY <2>1, <2>4, <3>1 DEF SheetWell
    <3>4. QED
      BY <2>4, <3>2, <3>3 DEF OneAtTheSheet
  <2>7. QED
    BY <2>1, <2>5, <2>6 DEF SheetInv, OneAtTheSheet
<1>6. CASE FillFile(t)
  <2> DEFINE c == job[t].call
             text == job[t].seen.text
  <2>1. /\ job[t].at = "fill" /\ Answer(t, TRUE) /\ spoiled' = spoiled
        /\ sheet' \in {text} \cup (IF sheet = Torn THEN {} ELSE {Torn})
        /\ meant' = IF c.tool = "update_sheet" /\ IsSheet(meant)
                    THEN [meant EXCEPT ![c.field] = c.val] ELSE text
    BY <1>6 DEF FillFile, At
  <2>2. /\ job[t].at \notin {"idle", "replied"} /\ Conforms(c)
        /\ c.tool \in {"update_sheet", "write_file"}
    BY <2>1, SheetTool DEF SheetStages
  <2>3. job'[t].at \in {"idle", "replied"} /\ Alone(t)
    BY <2>1, <2>2, AnswerFacts
  <2>4. text \in Patch
    BY <2>1 DEF SheetInv, SheetTypes
  <2>5. meant' \in Patch
    <3>1. CASE c.tool = "update_sheet" /\ IsSheet(meant)
      <4>1. meant \in Patch /\ c.field \in Fields /\ c.val \in Values
        BY <2>2, <3>1 DEF SheetInv, SheetTypes, IsSheet, Conforms
      <4>2. [meant EXCEPT ![c.field] = c.val] \in Patch
        BY <4>1 DEF Patch
      <4>3. QED
        BY <2>1, <3>1, <4>2
    <3>2. CASE ~(c.tool = "update_sheet" /\ IsSheet(meant))
      BY <2>1, <2>4, <3>2
    <3>3. QED
      BY <3>1, <3>2
  <2> HIDE DEF c, text
  <2>6. SheetTypes'
    <3>1. sheet' \in Patch \cup {Torn, Gone}
      BY <2>1, <2>4
    <3>2. \A u \in Threads : job'[u].at \in {"open", "fill"} => job'[u].seen.text \in Patch
      BY <2>3 DEF SheetInv, SheetTypes, Alone
    <3>3. QED
      BY <2>5, <3>1, <3>2 DEF SheetTypes, Patch
  <2>7. ASSUME "sheet" \notin spoiled
        PROVE  OneAtTheSheet'
    <3>1. /\ \A u \in Threads \ {t} : job[u].at \notin SheetStages
          /\ SheetWell("fill", job[t].call, job[t].seen, sheet, meant)
      BY <2>1, <2>7 DEF SheetInv, OneAtTheSheet, SheetStages
    <3>2. \A u \in Threads : job'[u].at \notin SheetStages
      BY <2>3, <3>1 DEF Alone, SheetStages
    <3>3. sheet' = text
      BY <2>1, <3>1 DEF SheetWell
    <3>4. meant' = text
      BY <2>1, <3>1 DEF SheetWell, Merged, c, text
    <3>5. QED
      BY <3>2, <3>3, <3>4 DEF OneAtTheSheet
  <2>8. QED
    BY <2>1, <2>6, <2>7 DEF SheetInv, OneAtTheSheet
<1>7. CASE FillRemoved(t)
  <2>1. /\ job[t].at = "fill removed" /\ UNCHANGED sheetVars /\ spoiled' = spoiled
    BY <1>7 DEF FillRemoved, At
  <2>2. PICK ok \in BOOLEAN : Answer(t, ok)
    BY <1>7 DEF FillRemoved
  <2>3. job'[t].at \in {"idle", "replied"} /\ Alone(t)
    BY <2>1, <2>2, AnswerFacts
  <2>4. QED
    BY <2>1, <2>3, SheetUndisturbed DEF Alone, SheetStages
<1>8. CASE Unlink(t)
  <2>1. /\ job[t].at = "unlink" /\ sheet' = Gone /\ meant' = Gone /\ spoiled' = spoiled
        /\ \A u \in Threads \ {t} : job[u].at # "fill" => job'[u] = job[u]
    BY <1>8 DEF Unlink, At
  <2>2. \A u \in Threads \ {t} : job[u].at = "fill" => job'[u].at = "fill removed"
    BY <1>8, UnlinkMoves
  <2>3. job'[t].at \in {"idle", "replied"}
    BY <1>8, UnlinkMoves
  <2>4. SheetTypes'
    BY <2>1, <2>2, <2>3 DEF SheetInv, SheetTypes, Patch
  <2>5. ASSUME "sheet" \notin spoiled
        PROVE  OneAtTheSheet'
    <3>1. \A u \in Threads \ {t} : job[u].at \notin SheetStages
      BY <2>1, <2>5 DEF SheetInv, OneAtTheSheet, SheetStages
    <3>2. \A u \in Threads : job'[u].at \notin SheetStages
      BY <2>1, <2>3, <3>1 DEF SheetStages
    <3>3. QED
      BY <2>1, <3>2 DEF OneAtTheSheet
  <2>6. QED
    BY <2>1, <2>4, <2>5 DEF SheetInv, OneAtTheSheet
<1>9. QED
  BY <1>2, <1>3, <1>4, <1>5, <1>6, <1>7, <1>8 DEF SheetStep

LEMMA SheetNext ==
  ASSUME JobsOK, CallsOK, SheetInv, [Next]_vars
  PROVE  SheetInv'
<1>1. ASSUME NEW S, S \cap SheetStages = {}, MovesIn(S), UNCHANGED sheetVars,
             spoiled \subseteq spoiled'
      PROVE  SheetInv'
  <2>1. \A u \in Threads : job'[u] = job[u] \/ (job[u].at \notin SheetStages
                                                /\ job'[u].at \notin SheetStages)
    BY <1>1 DEF MovesIn, SheetStages
  <2>2. QED
    BY <1>1, <2>1, SheetUndisturbed DEF SheetStages
<1>2. ASSUME NEW t \in Threads, Stepped(t)
      PROVE  SheetInv'
  <2>1. CASE LogStep(t)
    BY <1>1, <2>1, LogFrame DEF LogStages, SheetStages
  <2>2. CASE SessionStep(t)
    BY <1>1, <2>2, SessionFrame DEF SessionStages, SheetStages
  <2>3. CASE NoteStep(t)
    BY <1>1, <2>3, NoteFrame DEF NoteStages, SheetStages
  <2>4. CASE RowStep(t)
    BY <1>1, <2>4, RowFrame DEF RowStages, SheetStages
  <2>5. CASE SheetStep(t)
    BY <2>5, SheetStepKeeps
  <2>6. CASE PromptStep(t)
    BY <1>1, <2>6, PromptFrame DEF PromptStages, SheetStages
  <2>7. QED
    BY <1>2, <2>1, <2>2, <2>3, <2>4, <2>5, <2>6 DEF Stepped
<1>3. ASSUME NEW t \in Threads, Collect(t)
      PROVE  SheetInv'
  BY <1>1, <1>3, CollectFrame DEF historyOf
<1>4. ASSUME NEW ts \in SUBSET Threads, Interrupt(ts)
      PROVE  SheetInv'
  <2>1. InterruptFrameOf(ts) /\ UNCHANGED sheetVars /\ spoiled \subseteq spoiled'
    BY <1>4, InterruptFrame
  <2>2. "sheet" \in spoiled' \/ \A u \in ts : job[u].at # "fill"
    BY <1>4 DEF Interrupt, At
  <2>3. QED
    BY <2>1, <2>2, SheetUndisturbed DEF InterruptFrameOf, SheetStages
<1>5. CASE Still
  BY <1>5, SheetUndisturbed DEF Still, historyOf
<1>6. QED
  BY <1>2, <1>3, <1>4, <1>5, NextKinds

\* The sheet is what its edits one after another leave, unless two requests upon
\* it overlapped or one broke off while it filled the file.
THEOREM EditsAreKeptHolds == Spec => []EditsAreKept
<1>1. JobsOK /\ CallsOK /\ SheetInv /\ [Next]_vars => SheetInv'
  BY SheetNext
<1>2. SheetInv => EditsAreKept
  BY DEF SheetInv, OneAtTheSheet, EditsAreKept, At
<1>3. QED
  BY SheetInit, JobsHold, <1>1, <1>2, PTL DEF Spec

-----------------------------------------------------------------------------
(* Requests keep their call *)

\* Whose a request is, and what it asks, stays until it has ended.
Carried(u) ==
  \/ job'[u] = job[u]
  \/ /\ job[u].at \notin {"idle", "replied"}
     /\ \/ job'[u].at # "idle" /\ job'[u].for = job[u].for /\ job'[u].call = job[u].call
        \/ job[u].for = 0 /\ job'[u] = Nothing

LEMMA AnsweredFields ==
  ASSUME NEW t, NEW ok
  PROVE  /\ job[t].for = 0 => Answered(t, ok) = Nothing
         /\ job[t].for # 0 =>
              /\ Answered(t, ok).at = "replied" /\ Answered(t, ok).for = job[t].for
              /\ Answered(t, ok).call = job[t].call /\ Answered(t, ok).ok = ok
BY DEF Answered, Reply

LEMMA AnswerCarries ==
  ASSUME JobsOK, NEW t \in Threads, NEW ok, job'[t] = Answered(t, ok),
         job[t].at \notin {"idle", "replied"}
  PROVE  Carried(t)
BY AnsweredFields DEF Carried

\* The steps of a request's work: an answer, another stage, or the removal of the
\* sheet.
LEMMA WorkForms ==
  ASSUME JobsOK, NEW t \in Threads, Work(t)
  PROVE  /\ job[t].at \notin {"idle", "replied"}
         /\ \/ \E ok \in BOOLEAN : Answer(t, ok)
            \/ \E s, seen : Go(t, s, seen)
                              /\ s \in SessionStages \cup RowStages \cup {"fill", "write section"}
            \/ Unlink(t)
<1>1. CASE FileCloseout(t)
  BY <1>1 DEF FileCloseout, At
<1>2. CASE ReadSection(t)
  BY <1>2 DEF ReadSection, At, SessionStages
<1>3. CASE InstallLane(t) \/ ReadLog(t)
  BY <1>3 DEF InstallLane, ReadLog, At, SessionStages
<1>4. CASE ReadOlderLog(t)
  BY <1>4 DEF ReadOlderLog, At
<1>5. CASE Remember(t) \/ UpdateMemory(t) \/ Forget(t) \/ InsertCopy(t) \/ MarkLetters(t)
  BY <1>5 DEF Remember, UpdateMemory, Forget, InsertCopy, MarkLetters, At, Noted
<1>6. CASE InsertRow(t)
  BY <1>6 DEF InsertRow, At, RowStages
<1>7. CASE FindRow(t)
  BY <1>7 DEF FindRow, At, RowStages
<1>8. CASE WriteRow(t) \/ DeleteRow(t)
  BY <1>8 DEF WriteRow, DeleteRow, At
<1>9. CASE OpenFile(t)
  BY <1>9 DEF OpenFile, At
<1>10. CASE FillFile(t) \/ FillRemoved(t)
  BY <1>10 DEF FillFile, FillRemoved, At
<1>11. CASE Unlink(t)
  BY <1>11 DEF Unlink, At
<1>12. CASE Snapshot(t)
  BY <1>12 DEF Snapshot, At
<1>13. CASE WriteSection(t)
  BY <1>13 DEF WriteSection, At
<1>14. QED
  BY <1>1, <1>2, <1>3, <1>4, <1>5, <1>6, <1>7, <1>8, <1>9, <1>10, <1>11, <1>12, <1>13 DEF Work

LEMMA WorkCarries ==
  ASSUME JobsOK, NEW t \in Threads, Work(t)
  PROVE  \A u \in Threads : Carried(u)
<1>1. job[t].at \notin {"idle", "replied"}
  BY WorkForms
<1>2. ASSUME NEW ok \in BOOLEAN, Answer(t, ok)
      PROVE  \A u \in Threads : Carried(u)
  <2>1. job'[t] = Answered(t, ok) /\ Alone(t)
    BY <1>1, <1>2, AnswerFacts
  <2>2. Carried(t)
    BY <1>1, <2>1, AnswerCarries
  <2>3. QED
    BY <2>1, <2>2 DEF Alone, Carried
<1>3. ASSUME NEW s, NEW seen, Go(t, s, seen),
             s \in SessionStages \cup RowStages \cup {"fill", "write section"}
      PROVE  \A u \in Threads : Carried(u)
  <2>1. job'[t].at = s /\ job'[t].for = job[t].for /\ job'[t].call = job[t].call /\ Alone(t)
    BY <1>1, <1>3, GoMoved
  <2>2. s # "idle"
    BY <1>3 DEF SessionStages, RowStages
  <2>3. QED
    BY <1>1, <2>1, <2>2 DEF Alone, Carried
<1>4. CASE Unlink(t)
  <2>1. Carried(t)
    BY <1>1, <1>4, UnlinkMoves, AnswerCarries
  <2>2. \A u \in Threads \ {t} : Carried(u)
    BY <1>4, UnlinkMoves DEF Carried
  <2>3. QED
    BY <2>1, <2>2
<1>5. QED
  BY <1>2, <1>3, <1>4, WorkForms

LEMMA InterruptCarries ==
  ASSUME JobsOK, NEW ts \in SUBSET Threads, Interrupt(ts)
  PROVE  \A u \in Threads : Carried(u)
<1> SUFFICES ASSUME NEW u \in Threads PROVE Carried(u)
  OBVIOUS
<1>1. InterruptFrameOf(ts)
  BY InterruptFrame
<1>2. CASE u \in ts
  BY <1>1, <1>2, AnswerCarries DEF InterruptFrameOf
<1>3. CASE u \notin ts
  BY <1>1, <1>3 DEF InterruptFrameOf, Carried
<1>4. QED
  BY <1>2, <1>3

\* A request begins for its call, and a refusal is no success.
LEMMA ServeBegins ==
  ASSUME JobsOK, NEW t \in Threads, NEW n \in Nat, NEW c, Conforms(c), Serve(t, n, c)
  PROVE  /\ job[t] = Nothing /\ Alone(t)
         /\ job'[t].at # "idle" /\ job'[t].for = n /\ job'[t].call = c
         /\ job'[t].at = "replied" => job'[t].ok = FALSE
         /\ UNCHANGED <<notes, made, read, copies, row>>
<1>1. ASSUME NEW stage, NEW seen, Begin(t, n, c, stage, seen), stage \notin {"idle", "replied"}
      PROVE  /\ job[t] = Nothing /\ Alone(t)
             /\ job'[t].at # "idle" /\ job'[t].for = n /\ job'[t].call = c
             /\ job'[t].at # "replied"
  <2>1. job' = [job EXCEPT ![t] = Open(stage, n, c, seen)] /\ job[t] = Nothing
    BY <1>1 DEF Begin, Open, Idle
  <2>2. job'[t] = Open(stage, n, c, seen) /\ Alone(t)
    BY <2>1 DEF JobsOK, Alone
  <2>3. QED
    BY <1>1, <2>1, <2>2, OpenFields
<1>2. ASSUME Refuse(t, n, c)
      PROVE  /\ job[t] = Nothing /\ Alone(t)
             /\ job'[t].at # "idle" /\ job'[t].for = n /\ job'[t].call = c
             /\ job'[t].ok = FALSE
  <2>1. job[t] = Nothing /\ job'[t] = Reply(n, c, FALSE) /\ Alone(t)
    BY <1>2, RefuseFacts
  <2>2. QED
    BY <2>1 DEF Reply
<1>3. CASE c.tool = "summon" /\ AskSession(t, n, c)
  <2>1. PICK seen : job' = [job EXCEPT ![t] = Open("sections", n, c, seen)] /\ job[t] = Nothing
    BY <1>3 DEF AskSession, Open, Idle
  <2>2. PICK s : s = "sections"
    OBVIOUS
  <2>3. job'[t] = Open(s, n, c, seen) /\ Alone(t)
    BY <2>1, <2>2 DEF JobsOK, Alone
  <2>4. job'[t].at = s /\ job'[t].for = n /\ job'[t].call = c
    BY <2>3, OpenFields
  <2>5. UNCHANGED <<notes, made, read, copies, row>>
    BY <1>3 DEF AskSession, rowVars
  <2>6. QED
    BY <2>1, <2>2, <2>3, <2>4, <2>5
<1>4. \/ c.tool = "summon" /\ AskSession(t, n, c)
      \/ Refuse(t, n, c)
      \/ \E stage, seen : Begin(t, n, c, stage, seen) /\ stage \notin {"idle", "replied"}
  <2> DEFINE Begun == \E stage, seen : /\ Begin(t, n, c, stage, seen)
                                       /\ stage \notin {"idle", "replied"}
  <2>1. ASSUME AskCloseout(t, n, c) \/ AskRemember(t, n, c) \/ AskInsert(t, n, c)
                 \/ AskUpsert(t, n, c) \/ AskPrompts(t, n, c)
        PROVE  Begun
    <3>1. ASSUME NEW stage, NEW seen, Begin(t, n, c, stage, seen), stage \notin {"idle", "replied"}
          PROVE  Begun
      BY <3>1
    <3> HIDE DEF Begun
    <3>2. CASE AskCloseout(t, n, c)
      BY <3>1, <3>2 DEF AskCloseout
    <3>3. CASE AskRemember(t, n, c) \/ AskInsert(t, n, c)
      BY <3>1, <3>3 DEF AskRemember, AskInsert
    <3>4. CASE AskUpsert(t, n, c)
      <4>1. PICK stage : stage = "insert row"
        OBVIOUS
      <4>2. PICK x : x = [status |-> "active"]
        OBVIOUS
      <4>3. Begin(t, n, c, stage, x)
        BY <3>4, <4>1, <4>2 DEF AskUpsert
      <4>4. stage \notin {"idle", "replied"}
        BY <4>1
      <4>5. QED
        BY <3>1, <4>3, <4>4
    <3>5. CASE AskPrompts(t, n, c)
      <4>1. PICK stage, seen : /\ stage = "snapshot" /\ seen = [left |-> c.sections]
                               /\ Begin(t, n, c, stage, seen)
                               /\ stage \notin {"idle", "replied"}
        BY <3>5 DEF AskPrompts, FirstOfEdit
      <4>2. QED
        BY <3>1, <4>1
    <3>6. QED
      BY <2>1, <3>2, <3>3, <3>4, <3>5
  <2>2. ASSUME NEW stage \in {"revise", "forget"}, AskNote(t, n, c, stage)
        PROVE  Refuse(t, n, c) \/ Begun
    BY <2>2 DEF AskNote
  <2>3. ASSUME NEW stage \in {"write row", "drop row"}, AskRow(t, n, c, stage)
        PROVE  Refuse(t, n, c) \/ Begun
    BY <2>3 DEF AskRow
  <2>4. ASSUME AskMark(t, n, c)
        PROVE  Refuse(t, n, c) \/ Begun
    BY <2>4 DEF AskMark
  <2>5. ASSUME AskUpdateSheet(t, n, c) \/ AskWriteFile(t, n, c) \/ AskDeleteFile(t, n, c)
        PROVE  Refuse(t, n, c) \/ Begun
    BY <2>5 DEF AskUpdateSheet, AskWriteFile, AskDeleteFile, SheetJob
  <2> HIDE DEF Begun
  <2>6. (c.tool = "summon" /\ AskSession(t, n, c)) \/ Refuse(t, n, c) \/ Begun
    BY <2>1, <2>2, <2>3, <2>4, <2>5 DEF Serve
  <2>7. QED
    BY <2>6 DEF Begun
<1>5. UNCHANGED <<notes, made, read, copies, row>>
  BY DEF Serve, AskCloseout, AskSession, AskRemember, AskNote, AskInsert, AskMark, AskUpsert,
     AskRow, AskUpdateSheet, AskWriteFile, AskDeleteFile, AskPrompts, rowVars, Others,
     Elsewhere, Aside
<1>6. QED
  BY <1>1, <1>2, <1>3, <1>4, <1>5

-----------------------------------------------------------------------------
(* Memories, inbox, inserted rows *)

Notes == [id : Nat, of : Nat, text : Nat]

NoteTypes ==
  /\ notes \subseteq Notes /\ IsFiniteSet(notes) /\ made \in Nat
  /\ \A m \in notes : m.id \in 1 .. made
  /\ \A m, k \in notes : m.id = k.id => m = k
  /\ read \in [Letters -> BOOLEAN]
  /\ copies \in [0 .. MaxCalls -> Nat]

LEMMA NoteInit == Init => NoteTypes
<1> SUFFICES ASSUME Init PROVE NoteTypes
  OBVIOUS
<1>1. /\ notes = {[id |-> 1, of |-> 0, text |-> 0]} /\ made = 1
      /\ read = [l \in Letters |-> FALSE] /\ copies = [n \in 0 .. MaxCalls |-> 0]
  BY DEF Init
<1>2. notes \subseteq Notes /\ \A m \in notes : m.id = 1
  BY <1>1 DEF Notes
<1>3. IsFiniteSet(notes)
  BY <1>1, FS_Singleton
<1>4. \A m, k \in notes : m = k
  BY <1>1
<1>5. QED
  BY <1>1, <1>2, <1>3, <1>4 DEF NoteTypes

\* A new memory.
LEMMA NoteAdded ==
  ASSUME NoteTypes, NEW n \in Nat, NEW new, new = [id |-> made + 1, of |-> n, text |-> 0],
         notes' = notes \cup {new}, made' = made + 1, UNCHANGED <<read, copies>>
  PROVE  NoteTypes' /\ new \notin notes /\ new.of = n /\ new \in Notes
<1>1. new \in Notes /\ new.id = made + 1 /\ new.of = n
  BY DEF NoteTypes, Notes
<1>2. \A m \in notes : m.id \in 1 .. made
  BY DEF NoteTypes
<1>3. new \notin notes
  BY <1>1, <1>2 DEF NoteTypes
<1>4. IsFiniteSet(notes')
  BY FS_AddElement DEF NoteTypes
<1>5. \A m \in notes' : m.id \in 1 .. made'
  BY <1>1, <1>2 DEF NoteTypes
<1>6. \A m, k \in notes' : m.id = k.id => m = k
  BY <1>1, <1>2 DEF NoteTypes
<1>7. notes' \subseteq Notes /\ made' \in Nat
  BY <1>1 DEF NoteTypes
<1>8. QED
  BY <1>1, <1>3, <1>4, <1>5, <1>6, <1>7 DEF NoteTypes, Notes

\* A memory rewritten.
Revised(m, c) == IF m.id = c.id THEN [m EXCEPT !.text = c.val] ELSE m

LEMMA RevisedFields ==
  ASSUME NEW m \in Notes, NEW c, c.val \in Nat
  PROVE  /\ Revised(m, c) \in Notes
         /\ Revised(m, c).id = m.id /\ Revised(m, c).of = m.of
         /\ m.id = c.id => Revised(m, c).text = c.val
BY DEF Revised, Notes

LEMMA NotesRevised ==
  ASSUME NoteTypes, NEW c, c.val \in Nat,
         notes' = {Revised(m, c) : m \in notes}, UNCHANGED <<made, read, copies>>
  PROVE  NoteTypes'
<1>1. \A m \in notes : /\ Revised(m, c) \in Notes /\ Revised(m, c).id = m.id
  BY RevisedFields DEF NoteTypes
<1>2. \A m \in notes' : \E k \in notes : m = Revised(k, c)
  OBVIOUS
<1>3. notes' \subseteq Notes /\ \A m \in notes' : m.id \in 1 .. made'
  BY <1>1, <1>2 DEF NoteTypes
<1>4. \A m, k \in notes' : m.id = k.id => m = k
  <2> SUFFICES ASSUME NEW m \in notes', NEW k \in notes', m.id = k.id
               PROVE  m = k
    OBVIOUS
  <2>1. PICK m0 \in notes : m = Revised(m0, c)
    BY <1>2
  <2>2. PICK k0 \in notes : k = Revised(k0, c)
    BY <1>2
  <2>3. m0.id = k0.id
    BY <1>1, <2>1, <2>2
  <2>4. m0 = k0
    BY <2>3 DEF NoteTypes
  <2>5. QED
    BY <2>1, <2>2, <2>4
<1>5. IsFiniteSet(notes')
  <2> DEFINE f == [m \in notes |-> Revised(m, c)]
  <2>1. f \in Surjection(notes, notes')
    BY DEF Surjection
  <2>2. QED
    BY <2>1, FS_Surjection DEF NoteTypes
<1>6. QED
  BY <1>3, <1>4, <1>5 DEF NoteTypes

LEMMA NotesDropped ==
  ASSUME NoteTypes, notes' \subseteq notes, UNCHANGED <<made, read, copies>>
  PROVE  NoteTypes'
BY FS_Subset DEF NoteTypes

LEMMA NoteStepTypes ==
  ASSUME JobsOK, NoteTypes, NEW t \in Threads, NoteStep(t)
  PROVE  NoteTypes'
<1>1. CASE UNCHANGED <<notes, made, read, copies>>
  BY <1>1 DEF NoteTypes, Notes
<1>2. CASE Remember(t)
  <2>1. PICK new : /\ new = [id |-> made + 1, of |-> job[t].for, text |-> 0]
                   /\ notes' = notes \cup {new}
    BY <1>2 DEF Remember
  <2>2. job[t].for \in Nat
    BY <1>2, StageTool DEF Remember, At
  <2>3. made' = made + 1 /\ UNCHANGED <<read, copies>>
    BY <1>2 DEF Remember
  <2>4. QED
    BY <2>1, <2>2, <2>3, NoteAdded
<1>3. CASE UpdateMemory(t)
  <2>1. notes' = {Revised(m, job[t].call) : m \in notes} /\ UNCHANGED <<made, read, copies>>
    BY <1>3 DEF UpdateMemory, Revised
  <2>2. job[t].call.val \in Nat
    BY <1>3, StageTool DEF UpdateMemory, At, Fits, Conforms, LogStages, SessionStages,
       RowStages, SheetStages, PromptStages
  <2>3. QED
    BY <2>1, <2>2, NotesRevised
<1>4. CASE Forget(t)
  BY <1>4, NotesDropped DEF Forget
<1>5. CASE InsertCopy(t)
  <2>1. copies' = [copies EXCEPT ![job[t].for] = @ + 1] /\ UNCHANGED <<notes, made, read>>
    BY <1>5 DEF InsertCopy
  <2>2. copies' \in [0 .. MaxCalls -> Nat]
    <3>1. copies \in [0 .. MaxCalls -> Nat]
      BY DEF NoteTypes
    <3>2. CASE job[t].for \in 0 .. MaxCalls
      <4>1. copies[job[t].for] + 1 \in Nat
        BY <3>1, <3>2
      <4>2. QED
        BY <2>1, <3>1, <3>2, <4>1
    <3>3. CASE job[t].for \notin 0 .. MaxCalls
      BY <2>1, <3>1, <3>3
    <3>4. QED
      BY <3>2, <3>3
  <2>3. QED
    BY <2>1, <2>2 DEF NoteTypes, Notes
<1>6. CASE MarkLetters(t)
  <2>1. /\ read' = [l \in Letters |-> IF l \in job[t].call.ids
                                      THEN MarkAs(l, job[t].call.flag) ELSE read[l]]
        /\ UNCHANGED <<notes, made, copies>>
    BY <1>6 DEF MarkLetters
  <2>2. job[t].call.flag \in BOOLEAN
    BY <1>6, StageTool DEF MarkLetters, At, Fits, Conforms, LogStages, SessionStages,
       RowStages, SheetStages, PromptStages
  <2>3. read' \in [Letters -> BOOLEAN]
    BY <2>1, <2>2 DEF NoteTypes, MarkAs
  <2>4. QED
    BY <2>1, <2>3 DEF NoteTypes, Notes
<1>7. \/ UNCHANGED <<notes, made, read, copies>>
      \/ Remember(t) \/ UpdateMemory(t) \/ Forget(t) \/ InsertCopy(t) \/ MarkLetters(t)
  BY DEF NoteStep, AskRemember, AskNote, AskInsert, AskMark, rowVars
<1>8. QED
  BY <1>1, <1>2, <1>3, <1>4, <1>5, <1>6, <1>7

LEMMA NoteNext ==
  ASSUME JobsOK, CallsOK, NoteTypes, [Next]_vars
  PROVE  NoteTypes'
<1>1. ASSUME UNCHANGED <<notes, made, read, copies>> PROVE NoteTypes'
  BY <1>1 DEF NoteTypes, Notes
<1>2. ASSUME NEW t \in Threads, Stepped(t) PROVE NoteTypes'
  BY <1>1, <1>2, LogFrame, SessionFrame, NoteStepTypes, RowFrame, SheetFrame, PromptFrame
  DEF Stepped, rowVars
<1>3. ASSUME NEW t \in Threads, Collect(t) PROVE NoteTypes'
  BY <1>1, <1>3 DEF Collect, rowVars
<1>4. ASSUME NEW ts \in SUBSET Threads, Interrupt(ts) PROVE NoteTypes'
  BY <1>1, <1>4 DEF Interrupt, rowVars
<1>5. CASE Still
  BY <1>1, <1>5 DEF Still, rowVars
<1>6. QED
  BY <1>2, <1>3, <1>4, <1>5, NextKinds

-----------------------------------------------------------------------------
(* The row of thread_continuity *)

StatusOf(tool) == IF tool = "upsert" THEN "active" ELSE "resolved"

\* A request at the row has its store, and the status of its tool.
RowTypes ==
  /\ lane \in BOOLEAN /\ row \in {"none", "active", "resolved"} /\ (row # "none" => lane)
  /\ \A t \in Threads :
       job[t].at \in RowStages =>
         lane /\ (job[t].at # "drop row" => job[t].seen.status = StatusOf(job[t].call.tool))

LEMMA RowInit == Init => RowTypes
BY NothingFields DEF Init, RowTypes, RowStages

LEMMA RowUndisturbed ==
  ASSUME RowTypes, UNCHANGED row, lane' \in BOOLEAN, lane => lane',
         \A u \in Threads : job'[u] = job[u] \/ job'[u].at \notin RowStages
  PROVE  RowTypes'
BY DEF RowTypes, RowStages

LEMMA RowStepTypes ==
  ASSUME JobsOK, RowTypes, NEW t \in Threads, RowStep(t)
  PROVE  RowTypes'
<1> DEFINE Good == job'[t].at \in RowStages =>
                     /\ lane'
                     /\ job'[t].at # "drop row" =>
                          job'[t].seen.status = StatusOf(job'[t].call.tool)
<1>1. Alone(t)
  BY RowFrame
<1>2. ASSUME Good, lane' \in BOOLEAN, lane => lane',
             row' \in {"none", "active", "resolved"}, row' # "none" => lane'
      PROVE  RowTypes'
  BY <1>1, <1>2 DEF RowTypes, Alone
<1>3. ASSUME NEW n \in Nat, NEW c, Refuse(t, n, c), Conforms(c), UNCHANGED <<lane, row>>
      PROVE  RowTypes'
  <2>1. job'[t].at = "replied"
    BY <1>3, RefuseMoves
  <2>2. QED
    BY <1>2, <1>3, <2>1 DEF RowTypes, RowStages
<1>4. ASSUME NEW n \in Nat, NEW c, NEW stage \in RowStages, NEW s, Begin(t, n, c, stage, s),
             Conforms(c), Fits(stage, c.tool), UNCHANGED row, lane' = TRUE,
             stage # "drop row" => s.status = StatusOf(c.tool)
      PROVE  RowTypes'
  <2>1. job'[t].at = stage /\ job'[t].call = c /\ job'[t].seen = s
    BY <1>4, BeginFields
  <2>2. QED
    BY <1>2, <1>4, <2>1 DEF RowTypes
<1>5. ASSUME NEW n \in Nat, NEW c, Conforms(c), c.tool = "upsert", AskUpsert(t, n, c)
      PROVE  RowTypes'
  <2>1. PICK stage, s : stage = "insert row" /\ s = [status |-> "active"]
    OBVIOUS
  <2>2. Begin(t, n, c, stage, s) /\ lane' = TRUE /\ UNCHANGED row
    BY <1>5, <2>1 DEF AskUpsert
  <2>3. stage \in RowStages /\ Fits(stage, c.tool) /\ s.status = StatusOf(c.tool)
    BY <1>5, <2>1 DEF RowStages, Fits, StatusOf
  <2>4. QED
    BY <1>4, <1>5, <2>2, <2>3
<1>6. ASSUME NEW n \in Nat, NEW c, Conforms(c), NEW stage \in {"write row", "drop row"},
             AskRow(t, n, c, stage),
             c.tool = IF stage = "write row" THEN "resolve" ELSE "delete_record"
      PROVE  RowTypes'
  <2>1. CASE row = "none"
    BY <1>3, <1>6, <2>1 DEF AskRow
  <2>2. CASE row # "none"
    <3>1. PICK s : s = [status |-> "resolved"]
      OBVIOUS
    <3>2. Begin(t, n, c, stage, s) /\ UNCHANGED <<lane, row>>
      BY <1>6, <2>2, <3>1 DEF AskRow
    <3>3. lane = TRUE
      BY <2>2 DEF RowTypes
    <3>4. stage \in RowStages /\ Fits(stage, c.tool)
            /\ (stage # "drop row" => s.status = StatusOf(c.tool))
      BY <1>6, <3>1 DEF RowStages, Fits, StatusOf
    <3>5. QED
      BY <1>4, <1>6, <3>2, <3>3, <3>4
  <2>3. QED
    BY <2>1, <2>2
<1>7. ASSUME \E ok \in BOOLEAN : Answer(t, ok), job[t].at \in RowStages, UNCHANGED lane,
             row' \in {"none", "active", "resolved"}
      PROVE  RowTypes'
  <2>1. job'[t].at \in {"idle", "replied"}
    BY <1>7, AnswerFacts DEF RowStages
  <2>2. lane = TRUE
    BY <1>7 DEF RowTypes
  <2>3. QED
    BY <1>2, <1>7, <2>1, <2>2 DEF RowStages
<1>8. ASSUME NEW s \in RowStages \ {"drop row"}, Go(t, s, job[t].seen),
             job[t].at \in RowStages \ {"drop row"}, UNCHANGED <<lane, row>>
      PROVE  RowTypes'
  <2>1. PICK x : x = job[t].seen /\ Go(t, s, x)
    BY <1>8
  <2>2. job'[t].at = s /\ job'[t].call = job[t].call /\ job'[t].seen = job[t].seen
    BY <1>8, <2>1, GoMoved DEF RowStages
  <2>3. lane = TRUE /\ job[t].seen.status = StatusOf(job[t].call.tool)
    BY <1>8 DEF RowTypes
  <2>4. Good
    BY <1>8, <2>2, <2>3
  <2> HIDE DEF Good
  <2>5. QED
    BY <1>2, <1>8, <2>3, <2>4 DEF RowTypes
<1>9. ASSUME job[t].at \in RowStages \ {"drop row"}
      PROVE  job[t].seen.status \in {"active", "resolved"}
  BY <1>9 DEF RowTypes, StatusOf
<1>10. CASE InsertRow(t)
  <2>1. job[t].at = "insert row" /\ UNCHANGED lane
    BY <1>10 DEF InsertRow, At
  <2>2. CASE row = "none"
    BY <1>7, <1>9, <1>10, <2>1, <2>2 DEF InsertRow, RowStages
  <2>3. CASE row # "none"
    BY <1>8, <1>10, <2>1, <2>3 DEF InsertRow, RowStages
  <2>4. QED
    BY <2>2, <2>3
<1>11. CASE FindRow(t)
  <2>1. job[t].at \in {"find row", "read row"} /\ UNCHANGED <<lane, row>>
    BY <1>11 DEF FindRow, At
  <2>2. CASE row = "none"
    BY <1>7, <1>11, <2>1, <2>2 DEF FindRow, RowStages
  <2>3. CASE row # "none"
    BY <1>8, <1>11, <2>1, <2>3 DEF FindRow, RowStages
  <2>4. QED
    BY <2>2, <2>3
<1>12. CASE WriteRow(t)
  <2>1. /\ job[t].at = "write row" /\ UNCHANGED lane /\ \E ok \in BOOLEAN : Answer(t, ok)
        /\ row' = IF row = "none" THEN row ELSE job[t].seen.status
    BY <1>12 DEF WriteRow, At
  <2>2. QED
    BY <1>7, <1>9, <2>1 DEF RowStages
<1>13. CASE DeleteRow(t)
  <2>1. /\ job[t].at = "drop row" /\ UNCHANGED lane /\ row' = "none" /\ Answer(t, TRUE)
    BY <1>13 DEF DeleteRow, At
  <2>2. QED
    BY <1>7, <2>1 DEF RowStages
<1>14. QED
  BY <1>5, <1>6, <1>10, <1>11, <1>12, <1>13 DEF RowStep

LEMMA RowNext ==
  ASSUME JobsOK, CallsOK, RowTypes, [Next]_vars
  PROVE  RowTypes'
<1>1. ASSUME NEW S, S \cap RowStages = {}, MovesIn(S), UNCHANGED row,
             lane' \in BOOLEAN, lane => lane'
      PROVE  RowTypes'
  <2>1. \A u \in Threads : job'[u] = job[u] \/ job'[u].at \notin RowStages
    BY <1>1 DEF MovesIn, RowStages
  <2>2. QED
    BY <1>1, <2>1, RowUndisturbed
<1>2. lane \in BOOLEAN
  BY DEF RowTypes
<1>3. ASSUME NEW t \in Threads, Stepped(t)
      PROVE  RowTypes'
  <2>1. CASE LogStep(t)
    BY <1>1, <1>2, <2>1, LogFrame DEF LogStages, RowStages, rowVars
  <2>2. CASE SessionStep(t)
    <3>1. lane' \in BOOLEAN
      BY <1>2, <2>2 DEF SessionStep, AskSession, ReadSection, InstallLane, ReadLog,
         ReadOlderLog, rowVars
    <3>2. QED
      BY <1>1, <2>2, <3>1, SessionFrame DEF SessionStages, RowStages
  <2>3. CASE NoteStep(t)
    BY <1>1, <1>2, <2>3, NoteFrame DEF NoteStages, RowStages
  <2>4. CASE RowStep(t)
    BY <2>4, RowStepTypes
  <2>5. CASE SheetStep(t)
    BY <1>1, <1>2, <2>5, SheetFrame DEF SheetStages, RowStages, rowVars
  <2>6. CASE PromptStep(t)
    BY <1>1, <1>2, <2>6, PromptFrame DEF PromptStages, RowStages, rowVars
  <2>7. QED
    BY <1>3, <2>1, <2>2, <2>3, <2>4, <2>5, <2>6 DEF Stepped
<1>4. ASSUME NEW t \in Threads, Collect(t)
      PROVE  RowTypes'
  BY <1>1, <1>2, <1>4, CollectFrame DEF rowVars
<1>5. ASSUME NEW ts \in SUBSET Threads, Interrupt(ts)
      PROVE  RowTypes'
  <2>1. InterruptFrameOf(ts) /\ UNCHANGED <<lane, row>>
    BY <1>5, InterruptFrame DEF rowVars
  <2>2. QED
    BY <1>2, <2>1, RowUndisturbed DEF InterruptFrameOf, RowStages
<1>6. CASE Still
  BY <1>2, <1>6, RowUndisturbed DEF Still, rowVars
<1>7. QED
  BY <1>3, <1>4, <1>5, <1>6, NextKinds

-----------------------------------------------------------------------------
(* What becomes of the calls of the model *)

\* The calls but one stay what they are.
OtherCalls(n) == \A m \in 1 .. LastCall : m # n => calls'[m] = calls[m]

SameCalls == LastCall' = LastCall /\ \A m \in 1 .. LastCall : calls'[m].call = calls[m].call

LEMMA CallAdds ==
  ASSUME CallsOK, NEW t \in Threads, NEW c \in GatewayCalls, Call(t, c)
  PROVE  /\ LastCall \in Nat /\ LastCall < MaxCalls /\ LastCall' = LastCall + 1
         /\ OtherCalls(0)
         /\ calls'[LastCall + 1].call = c /\ calls'[LastCall + 1].tries = 1
         /\ calls'[LastCall + 1].said = "nothing"
         /\ calls'[LastCall + 1].alone = ~Crowded(LastCall + 1, c)
<1> DEFINE k == [call |-> c, tries |-> 1, said |-> "nothing",
                 alone |-> ~Crowded(LastCall + 1, c)]
<1>1. k \in CallRecords
  BY DEF CallRecords
<1>2. calls' = Append(calls, k) /\ LastCall < MaxCalls /\ LastCall = Len(calls)
        /\ Len(calls) \in Nat
  BY CallFields DEF Call
<1>3. /\ k.call = c /\ k.tries = 1 /\ k.said = "nothing"
      /\ k.alone = ~Crowded(LastCall + 1, c)
  OBVIOUS
<1> HIDE DEF k
<1>4. /\ Len(calls') = Len(calls) + 1 /\ calls'[Len(calls) + 1] = k
      /\ \A m \in 1 .. Len(calls) : calls'[m] = calls[m]
  BY <1>1, <1>2 DEF CallsOK
<1>5. QED
  BY <1>2, <1>3, <1>4 DEF OtherCalls, LastCall

LEMMA PutCall ==
  ASSUME CallsOK, NEW n \in 1 .. LastCall, NEW k, calls' = [calls EXCEPT ![n] = k]
  PROVE  LastCall' = LastCall /\ calls'[n] = k /\ OtherCalls(n)
<1>1. DOMAIN calls = 1 .. Len(calls) /\ LastCall = Len(calls) /\ Len(calls) \in Nat
  BY CallFields
<1>2. /\ DOMAIN calls' = 1 .. Len(calls) /\ calls'[n] = k
      /\ \A m \in 1 .. Len(calls) : m # n => calls'[m] = calls[m]
  BY <1>1 DEF CallsOK
<1>3. Len(calls') = Len(calls)
  BY <1>1 DEF CallsOK
<1>4. QED
  BY <1>1, <1>2, <1>3 DEF OtherCalls, LastCall

LEMMA RetryAgain ==
  ASSUME CallsOK, NEW t \in Threads, Retry(t)
  PROVE  /\ LastCall' = LastCall /\ LastCall \in 1 .. LastCall /\ OtherCalls(LastCall)
         /\ calls'[LastCall].call = calls[LastCall].call
         /\ calls'[LastCall].tries = calls[LastCall].tries + 1
         /\ calls'[LastCall].said = "nothing"
         /\ calls'[LastCall].alone = calls[LastCall].alone
<1>1. LastCall \in 1 .. LastCall /\ calls[LastCall] \in CallRecords
  BY CallFields DEF Retry
<1> DEFINE r == calls[LastCall]
           k == [r EXCEPT !.tries = @ + 1, !.said = "nothing"]
<1>2. calls' = [calls EXCEPT ![LastCall] = k]
  BY DEF Retry
<1>3. k.call = r.call /\ k.tries = r.tries + 1 /\ k.said = "nothing" /\ k.alone = r.alone
  <2> HIDE DEF r
  <2>1. r \in CallRecords
    BY <1>1 DEF r
  <2>2. QED
    BY <2>1 DEF CallRecords
<1> HIDE DEF k
<1>4. QED
  BY <1>1, <1>2, <1>3, PutCall

LEMMA DeliverSays ==
  ASSUME CallsOK, NEW t \in Threads, Deliver(t), job[t].for \in 1 .. LastCall
  PROVE  /\ LastCall' = LastCall /\ OtherCalls(job[t].for)
         /\ calls'[job[t].for].call = calls[job[t].for].call
         /\ calls'[job[t].for].tries = calls[job[t].for].tries
         /\ calls'[job[t].for].said = IF job[t].ok THEN "ok" ELSE "error"
         /\ calls'[job[t].for].alone = calls[job[t].for].alone
<1> DEFINE n == job[t].for
           r == calls[n]
           s == IF job[t].ok THEN "ok" ELSE "error"
           k == [r EXCEPT !.said = s]
<1>1. r \in CallRecords
  BY CallFields
<1>2. calls' = [calls EXCEPT ![n] = k]
  BY DEF Deliver
<1>3. k.call = r.call /\ k.tries = r.tries /\ k.said = s /\ k.alone = r.alone
  <2> HIDE DEF r, s
  <2>1. QED
    BY <1>1 DEF CallRecords
<1> HIDE DEF k
<1>4. LastCall' = LastCall /\ calls'[n] = k /\ OtherCalls(n)
  BY <1>2, PutCall
<1>5. QED
  BY <1>3, <1>4

LEMMA DirectMarks ==
  ASSUME CallsOK, NEW t \in Threads, NEW c \in DirectCalls, Direct(t, c)
  PROVE  /\ LastCall' = LastCall
         /\ \A m \in 1 .. LastCall :
              /\ calls'[m].call = calls[m].call /\ calls'[m].tries = calls[m].tries
              /\ calls'[m].said = calls[m].said
              /\ calls'[m].alone => calls[m].alone /\ Touches(calls[m].call) # Touches(c)
<1>1. DOMAIN calls = 1 .. Len(calls) /\ LastCall = Len(calls) /\ Len(calls) \in Nat
  BY CallFields
<1> DEFINE k(m) == [calls[m] EXCEPT !.alone = @ /\ Touches(calls[m].call) # Touches(c)]
<1>2. calls' = [m \in 1 .. Len(calls) |-> k(m)]
  BY <1>1 DEF Direct
<1>3. ASSUME NEW m \in 1 .. LastCall
      PROVE  /\ k(m).call = calls[m].call /\ k(m).tries = calls[m].tries
             /\ k(m).said = calls[m].said
             /\ k(m).alone => calls[m].alone /\ Touches(calls[m].call) # Touches(c)
  <2>1. calls[m] \in CallRecords
    BY <1>3, CallFields
  <2>2. PICK b \in BOOLEAN : b = (calls[m].alone /\ Touches(calls[m].call) # Touches(c))
    OBVIOUS
  <2>3. k(m) = [calls[m] EXCEPT !.alone = b]
    BY <2>2
  <2>4. QED
    BY <2>1, <2>2, <2>3 DEF CallRecords
<1> HIDE DEF k
<1>4. Len(calls') = Len(calls) /\ \A m \in 1 .. Len(calls) : calls'[m] = k(m)
  BY <1>1, <1>2
<1>5. QED
  BY <1>1, <1>3, <1>4 DEF LastCall

-----------------------------------------------------------------------------
(* Whose request is under way *)

CallInv ==
  /\ LastCall <= MaxCalls
  /\ \A t \in Threads :
       job[t].at # "idle" /\ job[t].for # 0 =>
         job[t].for \in 1 .. LastCall /\ job[t].call = calls[job[t].for].call
  /\ waiting # Nobody =>
       /\ waiting \in Threads /\ LastCall > 0
       /\ job[waiting].at # "idle" /\ job[waiting].for = LastCall

LEMMA CallInit == Init => CallInv
BY NothingFields DEF Init, CallInv, LastCall

LEMMA CarriedCalls ==
  ASSUME JobsOK, CallsOK, CallInv, SameCalls, waiting' \in {waiting, Nobody},
         \A u \in Threads : Carried(u)
  PROVE  CallInv'
<1>1. ASSUME NEW u \in Threads, job'[u].at # "idle"
      PROVE  /\ job[u].at # "idle" /\ job'[u].for = job[u].for /\ job'[u].call = job[u].call
  BY <1>1, NothingFields DEF Carried
<1>2. ASSUME NEW u \in Threads, job[u].at # "idle", job[u].for # 0
      PROVE  job'[u].at # "idle"
  BY <1>2 DEF Carried
<1>3. LastCall \in Nat
  BY CallFields
<1>4. QED
  BY <1>1, <1>2, <1>3 DEF CallInv, SameCalls

\* One thread takes up a request, or puts one down.
LEMMA TakenCalls ==
  ASSUME JobsOK, CallsOK, CallInv, NEW t \in Threads, Alone(t), LastCall' \in Nat,
         LastCall <= LastCall', LastCall' <= MaxCalls,
         \A m \in 1 .. LastCall : calls'[m].call = calls[m].call,
         job'[t].at # "idle" /\ job'[t].for # 0 =>
           job'[t].for \in 1 .. LastCall' /\ job'[t].call = calls'[job'[t].for].call,
         \/ waiting' = waiting /\ waiting # t /\ LastCall' = LastCall
         \/ waiting' = Nobody
         \/ /\ waiting' = t /\ LastCall' > 0
            /\ job'[t].at # "idle" /\ job'[t].for = LastCall'
  PROVE  CallInv'
<1>1. LastCall \in Nat
  BY CallFields
<1>2. QED
  BY <1>1 DEF CallInv, Alone

LEMMA CallNext ==
  ASSUME JobsOK, CallsOK, CallInv, [Next]_vars
  PROVE  CallInv'
<1>1. LastCall \in Nat
  BY CallFields
<1>2. ASSUME NEW t \in Threads, NEW c \in GatewayCalls, Call(t, c)
      PROVE  CallInv'
  <2>1. /\ LastCall < MaxCalls /\ LastCall' = LastCall + 1 /\ OtherCalls(0)
        /\ calls'[LastCall + 1].call = c
    BY <1>2, CallAdds
  <2>0. PICK n \in Nat : n = LastCall + 1 /\ Serve(t, n, c)
    BY <1>1, <1>2 DEF Call
  <2>2. Alone(t) /\ job'[t].at # "idle" /\ job'[t].for = LastCall + 1 /\ job'[t].call = c
    BY <2>0, ServeBegins
  <2>3. waiting' = t
    BY <1>2 DEF Call
  <2>4. QED
    BY <1>1, <2>1, <2>2, <2>3, TakenCalls DEF OtherCalls
<1>3. ASSUME NEW t \in Threads, Retry(t)
      PROVE  CallInv'
  <2>1. /\ LastCall' = LastCall /\ LastCall \in 1 .. LastCall /\ OtherCalls(LastCall)
        /\ calls'[LastCall].call = calls[LastCall].call
    BY <1>3, RetryAgain
  <2>2. Conforms(calls[LastCall].call)
    BY <2>1, CallFields
  <2>3. /\ Alone(t) /\ job'[t].at # "idle" /\ job'[t].for = LastCall
        /\ job'[t].call = calls[LastCall].call
    <3>1. PICK n \in Nat : n = LastCall
      BY <1>1
    <3>2. PICK c : c = calls[LastCall].call
      OBVIOUS
    <3>3. Serve(t, n, c)
      BY <1>3, <3>1, <3>2 DEF Retry
    <3>4. Conforms(c)
      BY <2>2, <3>2
    <3>5. Alone(t) /\ job'[t].at # "idle" /\ job'[t].for = n /\ job'[t].call = c
      BY <3>3, <3>4, ServeBegins
    <3>6. QED
      BY <3>1, <3>2, <3>5
  <2>4. waiting' = t
    BY <1>3 DEF Retry
  <2>5. QED
    BY <1>1, <2>1, <2>3, <2>4, TakenCalls DEF OtherCalls, CallInv
<1>4. ASSUME NEW t \in Threads, NEW c \in DirectCalls, Direct(t, c)
      PROVE  CallInv'
  <2>1. /\ LastCall' = LastCall
        /\ \A m \in 1 .. LastCall : calls'[m].call = calls[m].call
    BY <1>4, DirectMarks
  <2>2. job[t] = Nothing /\ Alone(t) /\ job'[t].for = 0
    BY <1>4, ServeBegins DEF Direct
  <2>3. \/ waiting' = waiting /\ waiting # t
        \/ waiting' = Nobody
    BY <1>4, <2>2, NothingFields DEF Direct, CallInv
  <2>4. QED
    BY <1>1, <2>1, <2>2, <2>3, TakenCalls DEF CallInv
<1>5. ASSUME NEW t \in Threads, Collect(t), SameCalls,
             \/ waiting' = Nobody
             \/ waiting' = waiting /\ t # waiting
      PROVE  CallInv'
  <2>1. job'[t].at = "idle" /\ Alone(t)
    BY <1>5, CollectFrame
  <2>2. QED
    BY <1>1, <1>5, <2>1, TakenCalls DEF CallInv, SameCalls
<1>6. UNCHANGED calls => SameCalls
  BY DEF SameCalls, LastCall
<1>7. ASSUME NEW t \in Threads, Deliver(t)
      PROVE  CallInv'
  <2>1. job[t].for \in 1 .. LastCall
    BY <1>1, <1>7 DEF Deliver, CallInv
  <2>2. SameCalls
    BY <1>7, <2>1, DeliverSays DEF OtherCalls, SameCalls
  <2>3. QED
    BY <1>5, <1>7, <2>2 DEF Deliver
<1>8. ASSUME NEW t \in Threads, LoseAnswer(t) \/ DropAnswer(t)
      PROVE  CallInv'
  BY <1>5, <1>6, <1>8 DEF LoseAnswer, DropAnswer
<1>9. ASSUME NEW t \in Threads, Work(t), UNCHANGED <<calls, waiting>>
      PROVE  CallInv'
  BY <1>6, <1>9, WorkCarries, CarriedCalls
<1>10. ASSUME NEW ts \in SUBSET Threads, Interrupt(ts), UNCHANGED <<calls, waiting>>
      PROVE  CallInv'
  BY <1>6, <1>10, InterruptCarries, CarriedCalls
<1>11. ASSUME GiveUp \/ UNCHANGED vars
       PROVE  CallInv'
  <2>1. UNCHANGED <<job, calls>> /\ waiting' \in {waiting, Nobody}
    BY <1>11 DEF GiveUp, vars, storeVars
  <2>2. QED
    BY <1>6, <2>1, CarriedCalls DEF Carried
<1>12. QED
  BY <1>2, <1>3, <1>4, <1>7, <1>8, <1>9, <1>10, <1>11 DEF Next

\* Tables, files, requests and calls hold what the code can put there.
THEOREM TypeCorrect == Spec => []TypeOK
<1>1. JobsOK /\ CallsOK /\ LogInv /\ SheetInv /\ EditInv /\ NoteTypes /\ RowTypes /\ CallInv =>
        TypeOK
  BY DEF LogInv, LogTypes, SheetInv, SheetTypes, EditInv, PromptTypes, NoteTypes, RowTypes,
     CallInv, TypeOK
<1>2. JobsOK /\ CallsOK /\ LogInv /\ [Next]_vars => LogInv'
  BY LogNext
<1>3. JobsOK /\ CallsOK /\ SheetInv /\ [Next]_vars => SheetInv'
  BY SheetNext
<1>4. JobsOK /\ CallsOK /\ EditInv /\ [Next]_vars => EditInv'
  BY EditNext
<1>5. JobsOK /\ CallsOK /\ NoteTypes /\ [Next]_vars => NoteTypes'
  BY NoteNext
<1>6. JobsOK /\ CallsOK /\ RowTypes /\ [Next]_vars => RowTypes'
  BY RowNext
<1>7. JobsOK /\ CallsOK /\ CallInv /\ [Next]_vars => CallInv'
  BY CallNext
<1>8. QED
  BY LogInit, SheetInit, EditInit, NoteInit, RowInit, CallInit, JobsHold,
     <1>1, <1>2, <1>3, <1>4, <1>5, <1>6, <1>7, PTL DEF Spec

-----------------------------------------------------------------------------
(* What the tries of a call insert *)

\* The stages a request is in only before its first statement.
Openings == {"insert", "remember", "mark", "forget"}

LEMMA WorkPasses ==
  ASSUME JobsOK, NEW t \in Threads, Work(t)
  PROVE  /\ \A u \in Threads : job'[u] = job[u] \/ job'[u].at \notin Openings
         /\ job[t].at \notin {"idle", "replied"} /\ job'[t].at \notin Openings
         /\ \A u \in Threads \ {t} : job'[u] = job[u] \/ job'[u].at # "replied"
<1>1. job[t].at \notin {"idle", "replied"}
  BY WorkForms
<1>2. ASSUME NEW ok \in BOOLEAN, Answer(t, ok)
      PROVE  Alone(t) /\ job'[t].at \notin Openings
  BY <1>1, <1>2, AnswerFacts DEF Openings
<1>3. ASSUME NEW s, NEW seen, Go(t, s, seen),
             s \in SessionStages \cup RowStages \cup {"fill", "write section"}
      PROVE  Alone(t) /\ job'[t].at \notin Openings
  <2>1. job'[t].at = s /\ Alone(t)
    BY <1>1, <1>3, GoMoved
  <2>2. QED
    BY <1>3, <2>1 DEF SessionStages, RowStages, Openings
<1>4. CASE Unlink(t)
  <2>1. job'[t].at \in {"idle", "replied"}
    BY <1>4, UnlinkMoves
  <2>2. \A u \in Threads \ {t} : job'[u] = job[u] \/ job'[u].at = "fill removed"
    BY <1>4, UnlinkMoves
  <2>3. QED
    BY <1>1, <2>1, <2>2 DEF Openings
<1>5. ASSUME Alone(t), job'[t].at \notin Openings
      PROVE  /\ \A u \in Threads : job'[u] = job[u] \/ job'[u].at \notin Openings
             /\ \A u \in Threads \ {t} : job'[u] = job[u] \/ job'[u].at # "replied"
  BY <1>5 DEF Alone
<1>6. QED
  BY <1>1, <1>2, <1>3, <1>4, <1>5, WorkForms

\* Tries about to insert, and the memories of a call.
Pending(n) == {t \in Threads : job[t].at \in {"insert", "remember"} /\ job[t].for = n}
NotesOf(n) == {m \in notes : m.of = n}

Tally(n) == copies[n] + Cardinality(NotesOf(n)) + Cardinality(Pending(n))
Tries(n) == IF n <= LastCall THEN calls[n].tries ELSE 0

\* Rows of a call, and tries that may still insert one, are no more than its
\* tries.
BudgetInv ==
  \A n \in 1 .. MaxCalls : IsFiniteSet(Pending(n)) /\ Tally(n) <= Tries(n)

LEMMA Counts ==
  ASSUME NoteTypes, NEW n \in 1 .. MaxCalls, IsFiniteSet(Pending(n))
  PROVE  /\ IsFiniteSet(NotesOf(n)) /\ copies[n] \in Nat
         /\ Cardinality(NotesOf(n)) \in Nat /\ Cardinality(Pending(n)) \in Nat
<1>1. copies[n] \in Nat
  BY DEF NoteTypes
<1>2. IsFiniteSet(NotesOf(n))
  <2>1. NotesOf(n) \in SUBSET notes
    BY DEF NotesOf
  <2>2. QED
    BY <2>1, FS_Subset DEF NoteTypes
<1>3. QED
  BY <1>1, <1>2, FS_CardinalityType

LEMMA BudgetInit == Init => BudgetInv
<1> SUFFICES ASSUME Init, NEW n \in 1 .. MaxCalls
             PROVE  IsFiniteSet(Pending(n)) /\ Tally(n) <= Tries(n)
  BY DEF BudgetInv
<1>1. Pending(n) = {}
  BY NothingFields DEF Init, Pending
<1>2. NotesOf(n) = {}
  BY DEF Init, NotesOf
<1>3. copies[n] = 0 /\ Tries(n) = 0
  BY DEF Init, Tries, LastCall
<1>4. QED
  BY <1>1, <1>2, <1>3, FS_EmptySet DEF Tally

\* What is about to insert dwindles.
LEMMA PendingDwindles ==
  ASSUME NEW n, IsFiniteSet(Pending(n)),
         \A u \in Threads : job'[u] = job[u] \/ job'[u].at \notin Openings
  PROVE  /\ Pending(n)' \subseteq Pending(n) /\ IsFiniteSet(Pending(n)')
         /\ Cardinality(Pending(n)') <= Cardinality(Pending(n))
<1>1. Pending(n)' \subseteq Pending(n)
  BY DEF Pending, Openings
<1>2. QED
  BY <1>1, FS_Subset

\* One that inserts is done with it.
LEMMA PendingServed ==
  ASSUME NEW n, IsFiniteSet(Pending(n)), NEW t \in Pending(n), job'[t].at \notin Openings,
         \A u \in Threads : job'[u] = job[u] \/ job'[u].at \notin Openings
  PROVE  /\ IsFiniteSet(Pending(n)')
         /\ Cardinality(Pending(n)') + 1 <= Cardinality(Pending(n))
<1>1. Pending(n)' \subseteq Pending(n) \ {t}
  BY DEF Pending, Openings
<1>2. /\ IsFiniteSet(Pending(n) \ {t})
      /\ Cardinality(Pending(n) \ {t}) = Cardinality(Pending(n)) - 1
  BY FS_RemoveElement
<1>3. IsFiniteSet(Pending(n)') /\ Cardinality(Pending(n)') <= Cardinality(Pending(n) \ {t})
  BY <1>1, <1>2, FS_Subset
<1>4. Cardinality(Pending(n)) \in Nat /\ Cardinality(Pending(n)') \in Nat
  BY <1>3, FS_CardinalityType
<1>5. QED
  BY <1>2, <1>3, <1>4

LEMMA WorkTallies ==
  ASSUME JobsOK, NoteTypes, NEW t \in Threads, Work(t), NEW n \in 1 .. MaxCalls,
         IsFiniteSet(Pending(n)), NoteTypes'
  PROVE  IsFiniteSet(Pending(n)') /\ Tally(n)' <= Tally(n)
<1>1. /\ \A u \in Threads : job'[u] = job[u] \/ job'[u].at \notin Openings
      /\ job'[t].at \notin Openings
  BY WorkPasses
<1>2. /\ IsFiniteSet(Pending(n)') /\ Pending(n)' \subseteq Pending(n)
      /\ Cardinality(Pending(n)') <= Cardinality(Pending(n))
  BY <1>1, PendingDwindles
<1>3. /\ copies[n] \in Nat /\ copies'[n] \in Nat
      /\ IsFiniteSet(NotesOf(n))
      /\ Cardinality(NotesOf(n)) \in Nat /\ Cardinality(NotesOf(n)') \in Nat
      /\ Cardinality(Pending(n)) \in Nat /\ Cardinality(Pending(n)') \in Nat
  <2>1. copies'[n] \in Nat
    BY DEF NoteTypes
  <2>2. IsFiniteSet(NotesOf(n)')
    <3>1. IsFiniteSet(notes')
      BY DEF NoteTypes
    <3>2. NotesOf(n)' \in SUBSET notes'
      BY DEF NotesOf
    <3>3. QED
      BY <3>1, <3>2, FS_Subset
  <2>3. Cardinality(NotesOf(n)') \in Nat /\ Cardinality(Pending(n)') \in Nat
    BY <1>2, <2>2, FS_CardinalityType
  <2>4. QED
    BY <2>1, <2>3, Counts
<1>4. ASSUME copies'[n] = copies[n], Cardinality(NotesOf(n)') <= Cardinality(NotesOf(n))
      PROVE  Tally(n)' <= Tally(n)
  BY <1>2, <1>3, <1>4 DEF Tally
<1>5. CASE UNCHANGED <<notes, copies>>
  BY <1>2, <1>3, <1>4, <1>5 DEF NotesOf
<1>6. CASE InsertCopy(t)
  <2>1. /\ copies' = [copies EXCEPT ![job[t].for] = @ + 1] /\ notes' = notes
        /\ job[t].at = "insert"
    BY <1>6 DEF InsertCopy, At
  <2>2. NotesOf(n)' = NotesOf(n)
    BY <2>1 DEF NotesOf
  <2>3. CASE job[t].for = n
    <3>1. t \in Pending(n)
      BY <2>1, <2>3 DEF Pending
    <3>2. Cardinality(Pending(n)') + 1 <= Cardinality(Pending(n))
      BY <1>1, <3>1, PendingServed
    <3>3. copies'[n] = copies[n] + 1
      BY <2>1, <2>3 DEF NoteTypes
    <3>4. QED
      BY <1>2, <1>3, <2>2, <3>2, <3>3 DEF Tally
  <2>4. CASE job[t].for # n
    <3>1. copies'[n] = copies[n]
      BY <2>1, <2>4 DEF NoteTypes
    <3>2. QED
      BY <1>2, <1>3, <1>4, <2>2, <3>1
  <2>5. QED
    BY <2>3, <2>4
<1>7. CASE Remember(t)
  <2>1. PICK new : /\ new = [id |-> made + 1, of |-> job[t].for, text |-> 0]
                   /\ notes' = notes \cup {new}
    BY <1>7 DEF Remember
  <2>2. copies' = copies /\ job[t].at = "remember" /\ new.of = job[t].for
    BY <1>7, <2>1 DEF Remember, At
  <2>3. CASE job[t].for = n
    <3>1. t \in Pending(n)
      BY <2>2, <2>3 DEF Pending
    <3>2. Cardinality(Pending(n)') + 1 <= Cardinality(Pending(n))
      BY <1>1, <3>1, PendingServed
    <3>3. NotesOf(n)' = NotesOf(n) \cup {new}
      BY <2>1, <2>2, <2>3 DEF NotesOf
    <3>4. Cardinality(NotesOf(n)') <= Cardinality(NotesOf(n)) + 1
      <4>1. Cardinality(NotesOf(n) \cup {new}) \in
              {Cardinality(NotesOf(n)), Cardinality(NotesOf(n)) + 1}
        BY <1>3, FS_AddElement
      <4>2. QED
        BY <1>3, <3>3, <4>1
    <3>5. QED
      BY <1>2, <1>3, <2>2, <3>2, <3>4 DEF Tally
  <2>4. CASE job[t].for # n
    <3>1. NotesOf(n)' = NotesOf(n)
      BY <2>1, <2>2, <2>4 DEF NotesOf
    <3>2. QED
      BY <1>2, <1>3, <1>4, <2>2, <3>1
  <2>5. QED
    BY <2>3, <2>4
<1>8. CASE UpdateMemory(t)
  <2>1. notes' = {Revised(m, job[t].call) : m \in notes} /\ copies' = copies
    BY <1>8 DEF UpdateMemory, Revised
  <2>2. job[t].call.val \in Nat
    BY <1>8, StageTool DEF UpdateMemory, At, Fits, Conforms, LogStages, SessionStages,
       RowStages, SheetStages, PromptStages
  <2>3. \A m \in notes : Revised(m, job[t].call).of = m.of
    BY <2>2, RevisedFields DEF NoteTypes
  <2> DEFINE f == [m \in NotesOf(n) |-> Revised(m, job[t].call)]
  <2>4. f \in Surjection(NotesOf(n), NotesOf(n)')
    BY <2>1, <2>3 DEF NotesOf, Surjection
  <2> HIDE DEF f
  <2>5. Cardinality(NotesOf(n)') <= Cardinality(NotesOf(n))
    BY <1>3, <2>4, FS_Surjection
  <2>6. QED
    BY <1>2, <1>4, <2>1, <2>5
<1>9. CASE Forget(t)
  <2>1. notes' \subseteq notes /\ copies' = copies
    BY <1>9 DEF Forget
  <2>2. NotesOf(n)' \in SUBSET NotesOf(n)
    BY <2>1 DEF NotesOf
  <2>3. Cardinality(NotesOf(n)') <= Cardinality(NotesOf(n))
    BY <1>3, <2>2, FS_Subset
  <2>4. QED
    BY <1>2, <1>4, <2>1, <2>3
<1>10. \/ UNCHANGED <<notes, copies>>
       \/ InsertCopy(t) \/ Remember(t) \/ UpdateMemory(t) \/ Forget(t)
  BY DEF Work, FileCloseout, ReadSection, InstallLane, ReadLog, ReadOlderLog, MarkLetters,
     InsertRow, FindRow, WriteRow, DeleteRow, OpenFile, FillFile, FillRemoved, Unlink,
     Snapshot, WriteSection, rowVars, Others, Elsewhere, Aside
<1>11. QED
  BY <1>2, <1>5, <1>6, <1>7, <1>8, <1>9, <1>10

\* A request that begins for a call may add one.
LEMMA ServeTallies ==
  ASSUME JobsOK, NoteTypes, NEW t \in Threads, NEW c, Conforms(c), NEW m \in Nat,
         Serve(t, m, c), NEW n \in 1 .. MaxCalls, IsFiniteSet(Pending(n))
  PROVE  /\ IsFiniteSet(Pending(n)') /\ Tally(n) \in Nat /\ Tally(n)' \in Nat
         /\ Tally(n)' <= Tally(n) + 1
         /\ m # n => Tally(n)' <= Tally(n)
<1>1. /\ Alone(t) /\ job'[t].for = m /\ UNCHANGED <<notes, copies>>
      /\ job[t] = Nothing
  BY ServeBegins
<1>2. /\ copies[n] \in Nat /\ Cardinality(NotesOf(n)) \in Nat
      /\ Cardinality(Pending(n)) \in Nat
  BY Counts
<1>3. NotesOf(n)' = NotesOf(n) /\ copies'[n] = copies[n]
  BY <1>1 DEF NotesOf
<1>4. Pending(n)' \subseteq Pending(n) \cup {t} /\ (m # n => Pending(n)' \subseteq Pending(n))
  BY <1>1 DEF Alone, Pending
<1>5. /\ IsFiniteSet(Pending(n) \cup {t})
      /\ Cardinality(Pending(n) \cup {t}) \in
           {Cardinality(Pending(n)), Cardinality(Pending(n)) + 1}
  BY FS_AddElement
<1>6. /\ IsFiniteSet(Pending(n)')
      /\ Cardinality(Pending(n)') <= Cardinality(Pending(n) \cup {t})
  BY <1>4, <1>5, FS_Subset
<1>7. m # n => Cardinality(Pending(n)') <= Cardinality(Pending(n))
  BY <1>4, FS_Subset
<1>8. Cardinality(Pending(n)') \in Nat
  BY <1>6, FS_CardinalityType
<1>9. QED
  BY <1>2, <1>3, <1>5, <1>6, <1>7, <1>8 DEF Tally

LEMMA BudgetNext ==
  ASSUME JobsOK, CallsOK, NoteTypes, CallInv, BudgetInv, [Next]_vars
  PROVE  BudgetInv'
<1>1. LastCall \in Nat /\ \A n \in 1 .. LastCall : calls[n].tries \in Nat
  BY CallFields
<1>2. NoteTypes'
  BY NoteNext
<1>3. \A n \in 1 .. MaxCalls : IsFiniteSet(Pending(n)) /\ Tally(n) <= Tries(n)
  BY DEF BudgetInv
<1>4. ASSUME NEW n \in 1 .. MaxCalls, NEW t \in Threads, NEW c \in GatewayCalls, Call(t, c)
      PROVE  IsFiniteSet(Pending(n)') /\ Tally(n)' <= Tries(n)'
  <2>1. /\ LastCall' = LastCall + 1 /\ OtherCalls(0)
        /\ calls'[LastCall + 1].tries = 1
    BY <1>4, CallAdds
  <2>2. PICK m \in Nat : m = LastCall + 1 /\ Serve(t, m, c)
    BY <1>1, <1>4 DEF Call
  <2>3. /\ IsFiniteSet(Pending(n)') /\ Tally(n) \in Nat /\ Tally(n)' \in Nat
        /\ Tally(n)' <= Tally(n) + 1
        /\ m # n => Tally(n)' <= Tally(n)
    BY <1>3, <2>2, ServeTallies
  <2>4. Tally(n) <= Tries(n)
    BY <1>3
  <2>5. CASE m = n
    <3>1. Tries(n) = 0 /\ Tries(n)' = 1
      BY <1>1, <2>1, <2>2, <2>5 DEF Tries
    <3>2. QED
      BY <2>3, <2>4, <3>1
  <2>6. CASE m # n
    <3>1. Tries(n)' = Tries(n) /\ Tries(n) \in Nat
      BY <1>1, <2>1, <2>2, <2>6 DEF Tries, OtherCalls
    <3>2. QED
      BY <2>3, <2>4, <2>6, <3>1
  <2>7. QED
    BY <2>5, <2>6
<1>5. ASSUME NEW n \in 1 .. MaxCalls, NEW t \in Threads, Retry(t)
      PROVE  IsFiniteSet(Pending(n)') /\ Tally(n)' <= Tries(n)'
  <2>1. /\ LastCall' = LastCall /\ LastCall \in 1 .. LastCall /\ OtherCalls(LastCall)
        /\ calls'[LastCall].tries = calls[LastCall].tries + 1
    BY <1>5, RetryAgain
  <2>2. PICK m \in Nat : m = LastCall
    BY <1>1
  <2>3. PICK c : c = calls[LastCall].call
    OBVIOUS
  <2>4. Serve(t, m, c) /\ Conforms(c)
    BY <1>5, <2>1, <2>2, <2>3, CallFields DEF Retry
  <2>5. /\ IsFiniteSet(Pending(n)') /\ Tally(n) \in Nat /\ Tally(n)' \in Nat
        /\ Tally(n)' <= Tally(n) + 1
        /\ m # n => Tally(n)' <= Tally(n)
    BY <1>3, <2>4, ServeTallies
  <2>6. Tally(n) <= Tries(n)
    BY <1>3
  <2>7. CASE m = n
    <3>1. Tries(n) \in Nat /\ Tries(n)' = Tries(n) + 1
      BY <1>1, <2>1, <2>2, <2>7 DEF Tries
    <3>2. QED
      BY <2>5, <2>6, <3>1
  <2>8. CASE m # n
    <3>1. Tries(n)' = Tries(n) /\ Tries(n) \in Nat
      BY <1>1, <2>1, <2>2, <2>8 DEF Tries, OtherCalls
    <3>2. QED
      BY <2>5, <2>6, <2>8, <3>1
  <2>9. QED
    BY <2>7, <2>8
<1>6. ASSUME NEW n \in 1 .. MaxCalls, LastCall' = LastCall,
             \A m \in 1 .. LastCall : calls'[m].tries = calls[m].tries
      PROVE  Tries(n)' = Tries(n) /\ Tries(n) \in Nat
  BY <1>1, <1>6 DEF Tries
<1>7. ASSUME NEW n \in 1 .. MaxCalls, NEW t \in Threads, NEW c \in DirectCalls, Direct(t, c)
      PROVE  IsFiniteSet(Pending(n)') /\ Tally(n)' <= Tries(n)'
  <2>1. Tries(n)' = Tries(n) /\ Tries(n) \in Nat
    BY <1>6, <1>7, DirectMarks
  <2>2. PICK m \in Nat : m = 0
    OBVIOUS
  <2>3. Serve(t, m, c)
    BY <1>7, <2>2 DEF Direct
  <2>4. IsFiniteSet(Pending(n)') /\ Tally(n) \in Nat /\ Tally(n)' \in Nat
          /\ Tally(n)' <= Tally(n)
    BY <1>3, <2>2, <2>3, ServeTallies
  <2>5. Tally(n) <= Tries(n)
    BY <1>3
  <2>6. QED
    BY <2>1, <2>4, <2>5
<1>8. ASSUME NEW n \in 1 .. MaxCalls, UNCHANGED <<notes, copies>>,
             \A u \in Threads : job'[u] = job[u] \/ job'[u].at \notin Openings,
             LastCall' = LastCall,
             \A m \in 1 .. LastCall : calls'[m].tries = calls[m].tries
      PROVE  IsFiniteSet(Pending(n)') /\ Tally(n)' <= Tries(n)'
  <2>1. Tries(n)' = Tries(n) /\ Tries(n) \in Nat /\ Tally(n) <= Tries(n)
    BY <1>3, <1>6, <1>8
  <2>2. IsFiniteSet(Pending(n)') /\ Cardinality(Pending(n)') <= Cardinality(Pending(n))
    BY <1>3, <1>8, PendingDwindles
  <2>3. /\ copies[n] \in Nat /\ Cardinality(NotesOf(n)) \in Nat
        /\ Cardinality(Pending(n)) \in Nat
    BY <1>3, Counts
  <2>4. Cardinality(Pending(n)') \in Nat
    BY <2>2, FS_CardinalityType
  <2>5. NotesOf(n)' = NotesOf(n) /\ copies'[n] = copies[n]
    BY <1>8 DEF NotesOf
  <2>6. QED
    BY <2>1, <2>2, <2>3, <2>4, <2>5 DEF Tally
<1>9. ASSUME NEW n \in 1 .. MaxCalls, NEW t \in Threads, Collect(t), LastCall' = LastCall,
             \A m \in 1 .. LastCall : calls'[m].tries = calls[m].tries
      PROVE  IsFiniteSet(Pending(n)') /\ Tally(n)' <= Tries(n)'
  <2>1. job'[t].at = "idle" /\ Alone(t) /\ UNCHANGED <<notes, copies>>
    BY <1>9, CollectFrame DEF rowVars
  <2>2. \A u \in Threads : job'[u] = job[u] \/ job'[u].at \notin Openings
    BY <2>1 DEF Alone, Openings
  <2>3. QED
    BY <1>8, <1>9, <2>1, <2>2
<1>10. ASSUME UNCHANGED calls
       PROVE  LastCall' = LastCall /\ \A m \in 1 .. LastCall : calls'[m].tries = calls[m].tries
  BY <1>10 DEF LastCall
<1>11. ASSUME NEW n \in 1 .. MaxCalls, NEW t \in Threads,
              Deliver(t) \/ LoseAnswer(t) \/ DropAnswer(t)
       PROVE  IsFiniteSet(Pending(n)') /\ Tally(n)' <= Tries(n)'
  <2>1. CASE Deliver(t)
    <3>1. job[t].for \in 1 .. LastCall
      BY <1>1, <2>1 DEF Deliver, CallInv
    <3>2. LastCall' = LastCall /\ \A m \in 1 .. LastCall : calls'[m].tries = calls[m].tries
      BY <2>1, <3>1, DeliverSays DEF OtherCalls
    <3>3. Collect(t)
      BY <2>1 DEF Deliver
    <3>4. QED
      BY <1>9, <3>2, <3>3
  <2>2. CASE LoseAnswer(t) \/ DropAnswer(t)
    <3>1. Collect(t) /\ UNCHANGED calls
      BY <2>2 DEF LoseAnswer, DropAnswer
    <3>2. QED
      BY <1>9, <1>10, <3>1
  <2>3. QED
    BY <1>11, <2>1, <2>2
<1>12. ASSUME NEW n \in 1 .. MaxCalls, NEW t \in Threads, Work(t), UNCHANGED calls
       PROVE  IsFiniteSet(Pending(n)') /\ Tally(n)' <= Tries(n)'
  <2>1. IsFiniteSet(Pending(n)') /\ Tally(n)' <= Tally(n)
    BY <1>2, <1>3, <1>12, WorkTallies
  <2>2. Tries(n)' = Tries(n) /\ Tries(n) \in Nat /\ Tally(n) <= Tries(n)
    BY <1>3, <1>6, <1>10, <1>12
  <2>3. Tally(n) \in Nat /\ Tally(n)' \in Nat
    <3>1. Tally(n) \in Nat
      BY <1>3, Counts DEF Tally
    <3>2. Cardinality(Pending(n)') \in Nat
      BY <2>1, FS_CardinalityType
    <3>3. IsFiniteSet(notes') /\ copies'[n] \in Nat
      BY <1>2 DEF NoteTypes
    <3>4. NotesOf(n)' \in SUBSET notes'
      BY DEF NotesOf
    <3>5. Cardinality(NotesOf(n)') \in Nat
      BY <3>3, <3>4, FS_Subset, FS_CardinalityType
    <3>6. QED
      BY <3>1, <3>2, <3>3, <3>5 DEF Tally
  <2>4. QED
    BY <2>1, <2>2, <2>3
<1>13. ASSUME NEW n \in 1 .. MaxCalls, NEW ts \in SUBSET Threads, Interrupt(ts),
              UNCHANGED calls
       PROVE  IsFiniteSet(Pending(n)') /\ Tally(n)' <= Tries(n)'
  <2>1. InterruptFrameOf(ts) /\ UNCHANGED <<notes, copies>>
    BY <1>13, InterruptFrame DEF rowVars
  <2>2. \A u \in Threads : job'[u] = job[u] \/ job'[u].at \notin Openings
    BY <2>1 DEF InterruptFrameOf, Openings
  <2>3. QED
    BY <1>8, <1>10, <1>13, <2>1, <2>2
<1>14. ASSUME NEW n \in 1 .. MaxCalls, GiveUp \/ UNCHANGED vars
       PROVE  IsFiniteSet(Pending(n)') /\ Tally(n)' <= Tries(n)'
  <2>1. UNCHANGED <<notes, copies, job, calls>>
    BY <1>14 DEF GiveUp, vars, storeVars, rowVars
  <2>2. \A u \in Threads : job'[u] = job[u] \/ job'[u].at \notin Openings
    BY <2>1
  <2>3. QED
    BY <1>8, <1>10, <2>1, <2>2
<1>15. ASSUME NEW n \in 1 .. MaxCalls
       PROVE  IsFiniteSet(Pending(n)') /\ Tally(n)' <= Tries(n)'
  BY <1>4, <1>5, <1>7, <1>11, <1>12, <1>13, <1>14, <1>15 DEF Next
<1>16. QED
  BY <1>15 DEF BudgetInv

-----------------------------------------------------------------------------
(* What an answered call has left *)

\* The effect of a call that sets a state; a memory that was forgotten had an id
\* that no new one gets.
Done(c) ==
  /\ c.tool = "mark" => \A l \in c.ids : read[l] = c.flag
  /\ c.tool = "upsert" => row = "active"
  /\ c.tool = "resolve" => row = "resolved"
  /\ c.tool = "delete_record" => row = "none"
  /\ c.tool = "update_memory" => \E m \in notes : m.id = c.id /\ m.text = c.val
  /\ c.tool = "forget" => ~Noted(c.id) /\ c.id \in 1 .. made

LEMMA DoneEffect ==
  ASSUME NEW c, Done(c)
  PROVE  Effect(c)
BY DEF Done, Effect

\* What has been checked when a request is about to write.
Checked ==
  \A t \in Threads :
    /\ job[t].at = "mark" => job[t].call.ids \subseteq Letters
    /\ job[t].at = "forget" => job[t].call.id \in 1 .. made

LEMMA CheckedInit == Init => Checked
BY NothingFields DEF Init, Checked

LEMMA Touching ==
  ASSUME NEW c
  PROVE  /\ c.tool = "send_message" => Touches(c) = "insert"
         /\ c.tool = "remember" => Touches(c) = "insert"
         /\ c.tool = "update_memory" => Touches(c) = "note"
         /\ c.tool = "forget" => Touches(c) = "note"
         /\ c.tool = "mark" => Touches(c) = "inbox"
         /\ c.tool = "upsert" => Touches(c) = "row"
         /\ c.tool = "resolve" => Touches(c) = "row"
         /\ c.tool = "delete_record" => Touches(c) = "row"
BY DEF Touches, SheetTools

LEMMA SameTool ==
  ASSUME JobsOK, NEW t \in Threads
  PROVE  /\ job[t].at = "insert" => job[t].call.tool = "send_message"
         /\ job[t].at = "remember" => job[t].call.tool = "remember"
         /\ job[t].at = "revise" => job[t].call.tool = "update_memory"
         /\ job[t].at = "forget" => job[t].call.tool = "forget"
         /\ job[t].at = "mark" => job[t].call.tool = "mark"
         /\ job[t].at \in {"insert row", "find row", "read row"} =>
              job[t].call.tool = "upsert"
         /\ job[t].at = "write row" => job[t].call.tool \in {"upsert", "resolve"}
         /\ job[t].at = "drop row" => job[t].call.tool = "delete_record"
<1>1. job[t].at \notin {"idle", "replied"} => Fits(job[t].at, job[t].call.tool)
  BY StageTool
<1>2. QED
  BY <1>1 DEF Fits, LogStages, SessionStages, RowStages, SheetStages, PromptStages

\* The steps that write what Done is about.
LEMMA WorkWrites ==
  ASSUME NEW t \in Threads, Work(t)
  PROVE  \/ UNCHANGED <<notes, made, read, row>>
         \/ Remember(t) \/ UpdateMemory(t) \/ Forget(t) \/ MarkLetters(t)
         \/ InsertRow(t) \/ WriteRow(t) \/ DeleteRow(t)
BY DEF Work, FileCloseout, ReadSection, InstallLane, ReadLog, ReadOlderLog, InsertCopy,
   FindRow, OpenFile, FillFile, FillRemoved, Unlink, Snapshot, WriteSection, rowVars, Others,
   Elsewhere, Aside

\* A request for the same call, or upon another thing, keeps what a call has
\* left.
LEMMA DoneKept ==
  ASSUME JobsOK, NoteTypes, RowTypes, Checked, NEW t \in Threads, Work(t), NEW c, Done(c),
         \/ job[t].call = c
         \/ Touches(job[t].call) # Touches(c)
  PROVE  Done(c)'
<1>1. CASE UNCHANGED <<notes, made, read, row>>
  BY <1>1 DEF Done, Noted
<1>2. CASE Remember(t)
  <2>1. PICK new : /\ new = [id |-> made + 1, of |-> job[t].for, text |-> 0]
                   /\ notes' = notes \cup {new}
    BY <1>2 DEF Remember
  <2>2. new.id = made + 1 /\ made' = made + 1 /\ UNCHANGED <<read, row>> /\ made \in Nat
    BY <1>2, <2>1 DEF Remember, NoteTypes
  <2>3. QED
    BY <2>1, <2>2 DEF Done, Noted
<1>3. CASE UpdateMemory(t)
  <2>1. /\ notes' = {Revised(m, job[t].call) : m \in notes} /\ UNCHANGED <<made, read, row>>
        /\ job[t].call.tool = "update_memory"
    BY <1>3, SameTool DEF UpdateMemory, Revised, At
  <2>2. job[t].call.val \in Nat
    BY <1>3, <2>1, StageTool DEF UpdateMemory, At, Conforms
  <2>3. ASSUME c.tool = "update_memory"
        PROVE  \E m \in notes' : m.id = c.id /\ m.text = c.val
    <3>1. job[t].call = c
      BY <2>1, <2>3, Touching
    <3>2. PICK m \in notes : m.id = c.id
      BY <2>3 DEF Done
    <3>3. Revised(m, c) \in notes' /\ Revised(m, c).id = c.id /\ Revised(m, c).text = c.val
      BY <2>1, <2>2, <3>1, <3>2, RevisedFields DEF NoteTypes
    <3>4. QED
      BY <3>3
  <2>4. ASSUME c.tool = "forget"
        PROVE  FALSE
    <3>1. job[t].call # c
      BY <2>1, <2>4
    <3>2. QED
      BY <2>1, <2>4, <3>1, Touching
  <2>5. QED
    BY <2>1, <2>3, <2>4 DEF Done
<1>4. CASE Forget(t)
  <2>1. /\ notes' = {m \in notes : m.id # job[t].call.id} /\ UNCHANGED <<made, read, row>>
        /\ job[t].call.tool = "forget"
    BY <1>4, SameTool DEF Forget, At
  <2>2. c.tool # "update_memory"
    <3> SUFFICES ASSUME c.tool = "update_memory" PROVE FALSE
      OBVIOUS
    <3>1. job[t].call # c
      BY <2>1
    <3>2. QED
      BY <2>1, <3>1, Touching
  <2>3. QED
    BY <2>1, <2>2 DEF Done, Noted
<1>5. CASE MarkLetters(t)
  <2>1. /\ read' = [l \in Letters |-> IF l \in job[t].call.ids
                                      THEN job[t].call.flag ELSE read[l]]
        /\ UNCHANGED <<notes, made, row>> /\ job[t].call.tool = "mark"
        /\ job[t].call.ids \subseteq Letters
    BY <1>5, SameTool DEF MarkLetters, MarkAs, At, Checked
  <2>2. c.tool = "mark" => job[t].call = c
    BY <2>1, Touching
  <2>3. QED
    BY <2>1, <2>2 DEF Done, Noted
<1>6. ASSUME UNCHANGED <<notes, made, read>>, Touches(job[t].call) = "row",
             job[t].call = c => Done(c)'
      PROVE  Done(c)'
  <2>1. CASE job[t].call = c
    BY <1>6, <2>1
  <2>2. CASE job[t].call # c
    <3>1. c.tool \notin {"upsert", "resolve", "delete_record"}
      BY <1>6, <2>2, Touching
    <3>2. QED
      BY <1>6, <3>1 DEF Done, Noted
  <2>3. QED
    BY <2>1, <2>2
<1>7. CASE InsertRow(t)
  <2>1. /\ UNCHANGED <<notes, made, read>> /\ job[t].call.tool = "upsert"
        /\ (row # "none" => row' = row)
    BY <1>7, SameTool DEF InsertRow, Others, At
  <2>2. Touches(job[t].call) = "row"
    BY <2>1, Touching
  <2>3. job[t].call = c => Done(c)'
    BY <2>1 DEF Done, Noted
  <2>4. QED
    BY <1>6, <2>1, <2>2, <2>3
<1>8. CASE WriteRow(t)
  <2>1. /\ UNCHANGED <<notes, made, read>> /\ job[t].call.tool \in {"upsert", "resolve"}
        /\ row' = IF row = "none" THEN row ELSE job[t].seen.status
        /\ job[t].seen.status = StatusOf(job[t].call.tool)
    BY <1>8, SameTool DEF WriteRow, Others, At, RowTypes, RowStages
  <2>2. Touches(job[t].call) = "row"
    BY <2>1, Touching
  <2>3. job[t].call = c => Done(c)'
    BY <2>1 DEF Done, Noted, StatusOf
  <2>4. QED
    BY <1>6, <2>1, <2>2, <2>3
<1>9. CASE DeleteRow(t)
  <2>1. /\ UNCHANGED <<notes, made, read>> /\ job[t].call.tool = "delete_record"
        /\ row' = "none"
    BY <1>9, SameTool DEF DeleteRow, Others, At
  <2>2. Touches(job[t].call) = "row"
    BY <2>1, Touching
  <2>3. job[t].call = c => Done(c)'
    BY <2>1 DEF Done, Noted
  <2>4. QED
    BY <1>6, <2>1, <2>2, <2>3
<1>10. QED
  BY <1>1, <1>2, <1>3, <1>4, <1>5, <1>7, <1>8, <1>9, WorkWrites

LEMMA EndedWell ==
  ASSUME JobsOK, NEW t \in Threads, NEW ok \in BOOLEAN, Answer(t, ok),
         job[t].at \notin {"idle", "replied"}, job'[t].at = "replied", job'[t].ok = TRUE
  PROVE  ok = TRUE
<1>1. job'[t] = Answered(t, ok)
  BY AnswerFacts
<1>2. QED
  BY <1>1, AnsweredFields, NothingFields

\* A request that ends well has done what its call asks.
LEMMA DoneMade ==
  ASSUME JobsOK, NoteTypes, RowTypes, Checked, NEW t \in Threads, Work(t),
         job'[t].at = "replied", job'[t].ok = TRUE, NEW c, c = job[t].call
  PROVE  /\ Done(c)'
         /\ c.tool = "send_message" => InsertCopy(t)
<1>1. ASSUME NEW s, NEW seen, Go(t, s, seen), s # "replied",
             job[t].at \notin {"idle", "replied"}
      PROVE  FALSE
  BY <1>1, GoMoved
<1>2. job[t].at \notin {"idle", "replied"}
  BY WorkForms
<1>3. ASSUME c.tool \notin {"mark", "upsert", "resolve", "delete_record", "update_memory",
                           "forget"}
      PROVE  Done(c)'
  BY <1>3 DEF Done
<1>4. Fits(job[t].at, c.tool)
  BY <1>2, StageTool
<1>5. CASE InsertCopy(t)
  <2>1. c.tool = "send_message"
    BY <1>5, SameTool DEF InsertCopy, At
  <2>2. QED
    BY <1>3, <1>5, <2>1
<1>6. CASE Remember(t)
  <2>1. c.tool = "remember"
    BY <1>6, SameTool DEF Remember, At
  <2>2. QED
    BY <1>3, <2>1
<1>7. CASE UpdateMemory(t)
  <2>1. /\ notes' = {Revised(m, c) : m \in notes} /\ c.tool = "update_memory"
        /\ Answer(t, Noted(c.id))
    BY <1>7, SameTool DEF UpdateMemory, Revised, At
  <2>2. c.val \in Nat
    BY <1>7, <2>1, StageTool DEF UpdateMemory, At, Conforms
  <2>3. Noted(c.id)
    <3>1. PICK ok \in BOOLEAN : ok = Noted(c.id)
      BY DEF Noted
    <3>2. Answer(t, ok)
      BY <2>1, <3>1
    <3>3. QED
      BY <1>2, <3>1, <3>2, EndedWell
  <2>4. PICK m \in notes : m.id = c.id
    BY <2>3 DEF Noted
  <2>5. Revised(m, c) \in notes' /\ Revised(m, c).id = c.id /\ Revised(m, c).text = c.val
    BY <2>1, <2>2, <2>4, RevisedFields DEF NoteTypes
  <2>6. QED
    BY <2>1, <2>5 DEF Done
<1>8. CASE Forget(t)
  <2>1. /\ notes' = {m \in notes : m.id # c.id} /\ made' = made
        /\ c.tool = "forget" /\ c.id \in 1 .. made
    BY <1>8, SameTool DEF Forget, At, Checked
  <2>2. QED
    BY <2>1 DEF Done, Noted
<1>9. CASE MarkLetters(t)
  <2>1. /\ read' = [l \in Letters |-> IF l \in c.ids THEN c.flag ELSE read[l]]
        /\ c.tool = "mark" /\ c.ids \subseteq Letters
    BY <1>9, SameTool DEF MarkLetters, MarkAs, At, Checked
  <2>2. QED
    BY <2>1 DEF Done
<1>10. CASE InsertRow(t)
  <2>1. c.tool = "upsert" /\ job[t].at = "insert row"
    BY <1>10, SameTool DEF InsertRow, At
  <2>2. CASE row = "none"
    <3>1. row' = job[t].seen.status /\ job[t].seen.status = "active"
      BY <1>10, <2>1, <2>2 DEF InsertRow, RowTypes, RowStages, StatusOf
    <3>2. QED
      BY <2>1, <3>1 DEF Done
  <2>3. CASE row # "none"
    BY <1>1, <1>2, <1>10, <2>3 DEF InsertRow
  <2>4. QED
    BY <2>2, <2>3
<1>11. CASE FindRow(t)
  <2>1. CASE row = "none"
    <3>1. PICK ok \in BOOLEAN : ok = FALSE
      OBVIOUS
    <3>2. Answer(t, ok)
      BY <1>11, <2>1, <3>1 DEF FindRow
    <3>3. QED
      BY <1>2, <3>1, <3>2, EndedWell
  <2>2. CASE row # "none"
    BY <1>1, <1>2, <1>11, <2>2 DEF FindRow
  <2>3. QED
    BY <2>1, <2>2
<1>12. CASE WriteRow(t)
  <2>1. /\ c.tool \in {"upsert", "resolve"} /\ Answer(t, row # "none")
        /\ row' = IF row = "none" THEN row ELSE job[t].seen.status
        /\ job[t].seen.status = StatusOf(c.tool)
    BY <1>12, SameTool DEF WriteRow, At, RowTypes, RowStages
  <2>2. row # "none"
    <3>1. PICK ok \in BOOLEAN : ok = (row # "none")
      OBVIOUS
    <3>2. Answer(t, ok)
      BY <2>1, <3>1
    <3>3. QED
      BY <1>2, <3>1, <3>2, EndedWell
  <2>3. QED
    BY <2>1, <2>2 DEF Done, StatusOf
<1>13. CASE DeleteRow(t)
  <2>1. c.tool = "delete_record" /\ row' = "none"
    BY <1>13, SameTool DEF DeleteRow, At
  <2>2. QED
    BY <2>1 DEF Done
<1>14. CASE job[t].at \in LogStages \cup SessionStages \cup SheetStages \cup PromptStages
  <2>1. c.tool \notin {"mark", "upsert", "resolve", "delete_record", "update_memory",
                       "forget", "send_message"}
    BY <1>4, <1>14 DEF Fits, LogStages, SessionStages, RowStages, SheetStages, PromptStages
  <2>2. QED
    BY <1>3, <2>1
<1>15. \/ job[t].at \in LogStages \cup SessionStages \cup SheetStages \cup PromptStages
       \/ Remember(t) \/ UpdateMemory(t) \/ Forget(t) \/ InsertCopy(t) \/ MarkLetters(t)
       \/ InsertRow(t) \/ FindRow(t) \/ WriteRow(t) \/ DeleteRow(t)
  BY DEF Work, FileCloseout, ReadSection, InstallLane, ReadLog, ReadOlderLog, OpenFile,
     FillFile, FillRemoved, Unlink, Snapshot, WriteSection, At, LogStages, SessionStages,
     SheetStages, PromptStages
<1>16. ASSUME job[t].at \in {"remember", "revise", "forget", "mark"} \cup RowStages
       PROVE  c.tool # "send_message"
  BY <1>4, <1>16 DEF Fits, LogStages, SessionStages, RowStages, SheetStages, PromptStages
<1>17. Remember(t) \/ UpdateMemory(t) \/ Forget(t) \/ MarkLetters(t) \/ InsertRow(t)
         \/ FindRow(t) \/ WriteRow(t) \/ DeleteRow(t) => c.tool # "send_message"
  BY <1>16 DEF Remember, UpdateMemory, Forget, MarkLetters, InsertRow, FindRow, WriteRow,
     DeleteRow, At, RowStages
<1>18. QED
  BY <1>5, <1>6, <1>7, <1>8, <1>9, <1>10, <1>11, <1>12, <1>13, <1>14, <1>15, <1>17

-----------------------------------------------------------------------------
(* Retries *)

LEMMA MadeGrows ==
  ASSUME NoteTypes, NEW t \in Threads, Work(t)
  PROVE  made' \in Nat /\ made <= made'
<1>1. made' = made \/ made' = made + 1
  BY DEF Work, FileCloseout, ReadSection, InstallLane, ReadLog, ReadOlderLog, Remember,
     UpdateMemory, Forget, InsertCopy, MarkLetters, InsertRow, FindRow, WriteRow, DeleteRow,
     OpenFile, FillFile, FillRemoved, Unlink, Snapshot, WriteSection, rowVars, Others,
     Elsewhere, Aside
<1>2. QED
  BY <1>1 DEF NoteTypes

\* A request that begins has been checked.
LEMMA ServeChecks ==
  ASSUME JobsOK, NoteTypes, NEW t \in Threads, NEW n \in Nat, NEW c, Conforms(c),
         Serve(t, n, c), JobsOK'
  PROVE  /\ job'[t].at = "mark" => job'[t].call.ids \subseteq Letters
         /\ job'[t].at = "forget" => job'[t].call.id \in 1 .. made
<1>1. job'[t].call = c /\ job'[t].for = n
  BY ServeBegins
<1>2. job'[t].at \notin {"idle", "replied"} => Fits(job'[t].at, job'[t].call.tool)
  <2>1. JobOK(job'[t])
    BY DEF JobsOK, JobOK, Open, Reply, Nothing, Conforms
  <2>2. QED
    BY <2>1, IdleAt
<1>3. ASSUME job'[t].at = "mark"
      PROVE  c.ids \subseteq Letters
  <2>1. c.tool = "mark"
    BY <1>1, <1>2, <1>3
    DEF Fits, LogStages, SessionStages, RowStages, SheetStages, PromptStages
  <2>2. AskMark(t, n, c)
    BY <2>1 DEF Serve
  <2>3. ~Refuse(t, n, c)
    BY <1>3, RefuseMoves
  <2>4. QED
    BY <2>2, <2>3 DEF AskMark
<1>4. ASSUME job'[t].at = "forget"
      PROVE  c.id \in 1 .. made
  <2>1. c.tool = "forget"
    BY <1>1, <1>2, <1>4
    DEF Fits, LogStages, SessionStages, RowStages, SheetStages, PromptStages
  <2>2. PICK s : s = "forget" /\ AskNote(t, n, c, s)
    BY <2>1 DEF Serve
  <2>3. ~Refuse(t, n, c)
    BY <1>4, RefuseMoves
  <2>4. Noted(c.id)
    BY <2>2, <2>3 DEF AskNote
  <2>5. QED
    BY <2>4 DEF Noted, NoteTypes
<1>5. QED
  BY <1>1, <1>3, <1>4

LEMMA CheckedNext ==
  ASSUME JobsOK, CallsOK, NoteTypes, Checked, [Next]_vars
  PROVE  Checked'
<1>1. JobsOK' /\ LastCall \in Nat
  BY JobsStep, CallFields
<1>2. made \in Nat
  BY DEF NoteTypes
<1>3. ASSUME NEW t \in Threads, NEW n \in Nat, NEW c, Conforms(c), Serve(t, n, c)
      PROVE  Checked'
  <2>1. Alone(t) /\ made' = made
    BY <1>3, ServeBegins
  <2>2. /\ job'[t].at = "mark" => job'[t].call.ids \subseteq Letters
        /\ job'[t].at = "forget" => job'[t].call.id \in 1 .. made
    BY <1>1, <1>3, ServeChecks
  <2>3. QED
    BY <2>1, <2>2 DEF Alone, Checked
<1>4. ASSUME \A u \in Threads : job'[u] = job[u] \/ job'[u].at \notin Openings,
             made' \in Nat, made <= made'
      PROVE  Checked'
  BY <1>2, <1>4 DEF Checked, Openings
<1>5. ASSUME NEW t \in Threads, NEW c \in GatewayCalls, Call(t, c)
      PROVE  Checked'
  <2>1. PICK n \in Nat : n = LastCall + 1 /\ Serve(t, n, c)
    BY <1>1, <1>5 DEF Call
  <2>2. QED
    BY <1>3, <2>1
<1>6. ASSUME NEW t \in Threads, Retry(t)
      PROVE  Checked'
  <2>1. PICK n \in Nat : n = LastCall
    BY <1>1
  <2>2. PICK c : c = calls[LastCall].call
    OBVIOUS
  <2>3. Serve(t, n, c) /\ Conforms(c)
    BY <1>6, <2>1, <2>2, CallFields DEF Retry
  <2>4. QED
    BY <1>3, <2>3
<1>7. ASSUME NEW t \in Threads, NEW c \in DirectCalls, Direct(t, c)
      PROVE  Checked'
  <2>1. PICK n \in Nat : n = 0
    OBVIOUS
  <2>2. Serve(t, n, c)
    BY <1>7, <2>1 DEF Direct
  <2>3. QED
    BY <1>3, <2>2
<1>8. ASSUME NEW t \in Threads, Work(t)
      PROVE  Checked'
  BY <1>4, <1>8, WorkPasses, MadeGrows
<1>9. ASSUME NEW t \in Threads, Deliver(t) \/ LoseAnswer(t) \/ DropAnswer(t)
      PROVE  Checked'
  <2>1. Collect(t)
    BY <1>9 DEF Deliver, LoseAnswer, DropAnswer
  <2>2. job'[t].at = "idle" /\ Alone(t) /\ made' = made
    BY <2>1, CollectFrame DEF rowVars
  <2>3. QED
    BY <1>2, <1>4, <2>2 DEF Alone, Openings
<1>10. ASSUME NEW ts \in SUBSET Threads, Interrupt(ts)
       PROVE  Checked'
  <2>1. InterruptFrameOf(ts) /\ made' = made
    BY <1>10, InterruptFrame DEF rowVars
  <2>2. \A u \in Threads : job'[u] = job[u] \/ job'[u].at \notin Openings
    BY <2>1 DEF InterruptFrameOf, Openings
  <2>3. QED
    BY <1>2, <1>4, <2>1, <2>2
<1>11. ASSUME GiveUp \/ UNCHANGED vars
       PROVE  Checked'
  <2>1. job' = job /\ made' = made
    BY <1>11 DEF GiveUp, vars, storeVars, rowVars
  <2>2. QED
    BY <2>1 DEF Checked
<1>12. QED
  BY <1>5, <1>6, <1>7, <1>8, <1>9, <1>10, <1>11 DEF Next

\* A call was answered without an error, or the answer is on its way.
Well(n) ==
  \/ calls[n].said = "ok"
  \/ \E t \in Threads : job[t].at = "replied" /\ job[t].for = n /\ job[t].ok

SentOnce ==
  \A n \in 1 .. LastCall :
    Well(n) /\ calls[n].call.tool = "send_message" => copies[n] > 0

\* While nobody else has called upon the same thing, the requests upon it are
\* tries of the last call, and its effect is there once it was answered.
LastAlone ==
  LastCall > 0 /\ calls[LastCall].alone =>
    /\ \A t \in Threads :
         job[t].at # "idle" /\ Touches(job[t].call) = Touches(calls[LastCall].call) =>
           job[t].for = LastCall
    /\ Well(LastCall) => Done(calls[LastCall].call)

RetryInv == SentOnce /\ LastAlone

LEMMA RetryInit == Init => RetryInv
BY DEF Init, RetryInv, SentOnce, LastAlone, LastCall

\* Steps that write nothing and answer nothing well.
LEMMA RetryQuiet ==
  ASSUME RetryInv, LastCall \in Nat, LastCall' = LastCall,
         UNCHANGED <<notes, made, read, copies, row>>,
         \A m \in 1 .. LastCall : /\ calls'[m].call = calls[m].call
                                  /\ calls'[m].alone => calls[m].alone
                                  /\ Well(m)' => Well(m),
         \A u \in Threads :
           job'[u].at # "idle" =>
             \/ job[u].at # "idle" /\ job'[u].for = job[u].for /\ job'[u].call = job[u].call
             \/ job'[u].for = LastCall
             \/ LastCall > 0 /\ calls'[LastCall].alone =>
                  Touches(job'[u].call) # Touches(calls[LastCall].call)
  PROVE  RetryInv'
<1>1. SentOnce'
  BY DEF RetryInv, SentOnce
<1>2. ASSUME LastCall > 0, calls'[LastCall].alone
      PROVE  /\ \A t \in Threads :
                  job'[t].at # "idle" /\ Touches(job'[t].call) = Touches(calls'[LastCall].call)
                    => job'[t].for = LastCall
             /\ Well(LastCall)' => Done(calls[LastCall].call)'
  <2>1. /\ calls[LastCall].alone /\ calls'[LastCall].call = calls[LastCall].call
        /\ Well(LastCall)' => Well(LastCall)
    BY <1>2
  <2>2. PICK c : c = calls[LastCall].call
    OBVIOUS
  <2>3. Well(LastCall) => Done(c)
    BY <1>2, <2>1, <2>2 DEF RetryInv, LastAlone
  <2>4. Done(c) => Done(c)'
    BY DEF Done, Noted
  <2>5. Done(c)' => Done(calls[LastCall].call)'
    BY <2>1, <2>2 DEF Done, Noted
  <2>6. \A t \in Threads :
          job'[t].at # "idle" /\ Touches(job'[t].call) = Touches(c) => job'[t].for = LastCall
    BY <1>2, <2>1, <2>2 DEF RetryInv, LastAlone
  <2>7. QED
    BY <2>1, <2>2, <2>3, <2>4, <2>5, <2>6
<1>3. QED
  BY <1>1, <1>2 DEF RetryInv, LastAlone

LEMMA ServeQuiet ==
  ASSUME JobsOK, NEW t \in Threads, NEW n \in Nat, NEW c, Conforms(c), Serve(t, n, c)
  PROVE  /\ Alone(t) /\ job'[t].for = n /\ job'[t].call = c
         /\ job'[t].at = "replied" => job'[t].ok = FALSE
         /\ UNCHANGED <<notes, made, read, copies, row>>
BY ServeBegins

LEMMA RetryServe ==
  ASSUME JobsOK, CallsOK, CallInv, RetryInv, NEW t \in Threads, NEW n \in Nat, NEW c,
         Conforms(c), Serve(t, n, c), LastCall' = LastCall,
         \A m \in 1 .. LastCall : /\ calls'[m].call = calls[m].call
                                  /\ calls'[m].said \in {calls[m].said, "nothing"}
                                  /\ calls'[m].alone => calls[m].alone,
         \/ n = LastCall
         \/ LastCall > 0 /\ calls'[LastCall].alone => Touches(c) # Touches(calls[LastCall].call)
  PROVE  RetryInv'
<1>0. LastCall \in Nat
  BY CallFields
<1>1. /\ Alone(t) /\ job'[t].for = n /\ job'[t].call = c
      /\ job'[t].at = "replied" => job'[t].ok = FALSE
      /\ UNCHANGED <<notes, made, read, copies, row>>
  BY ServeQuiet, Zenon
<1>2. ASSUME NEW m \in 1 .. LastCall, Well(m)'
      PROVE  Well(m)
  BY <1>1, <1>2 DEF Alone, Well
<1>3. ASSUME NEW u \in Threads, job'[u].at # "idle"
      PROVE  \/ job[u].at # "idle" /\ job'[u].for = job[u].for /\ job'[u].call = job[u].call
             \/ job'[u].for = LastCall
             \/ LastCall > 0 /\ calls'[LastCall].alone =>
                  Touches(job'[u].call) # Touches(calls[LastCall].call)
  <2>1. CASE u = t
    BY <1>1, <2>1
  <2>2. CASE u # t
    BY <1>1, <1>3, <2>2 DEF Alone
  <2>3. QED
    BY <2>1, <2>2
<1>4. QED
  BY <1>0, <1>1, <1>2, <1>3, RetryQuiet

LEMMA RetryCall ==
  ASSUME JobsOK, CallsOK, CallInv, RetryInv, NEW t \in Threads, NEW c \in GatewayCalls,
         Call(t, c)
  PROVE  RetryInv'
<1>1. /\ LastCall \in Nat /\ LastCall' = LastCall + 1 /\ OtherCalls(0)
      /\ calls'[LastCall + 1].call = c /\ calls'[LastCall + 1].said = "nothing"
      /\ calls'[LastCall + 1].alone = ~Crowded(LastCall + 1, c)
  BY CallAdds
<1>2. PICK n \in Nat : n = LastCall + 1 /\ Serve(t, n, c)
  BY <1>1 DEF Call
<1>3. /\ Alone(t) /\ job'[t].for = n /\ job'[t].call = c
      /\ job'[t].at = "replied" => job'[t].ok = FALSE
      /\ UNCHANGED <<notes, made, read, copies, row>>
  BY <1>2, ServeBegins
<1>4. \A m \in 1 .. LastCall : Well(m)' => Well(m)
  BY <1>1, <1>2, <1>3 DEF Alone, Well, OtherCalls
<1>5. ~Well(n)'
  <2> SUFFICES ASSUME Well(n)' PROVE FALSE
    OBVIOUS
  <2>1. PICK u \in Threads : job'[u].at = "replied" /\ job'[u].for = n /\ job'[u].ok
    BY <1>1, <1>2 DEF Well
  <2>2. u # t /\ job'[u] = job[u]
    BY <1>3, <2>1 DEF Alone
  <2>3. job[u].for \in 1 .. LastCall
    BY <1>1, <1>2, <2>1, <2>2 DEF CallInv
  <2>4. QED
    BY <1>1, <1>2, <2>1, <2>2, <2>3
<1>6. SentOnce'
  BY <1>1, <1>2, <1>3, <1>4, <1>5 DEF RetryInv, SentOnce, OtherCalls
<1>7. ASSUME calls'[n].alone, NEW u \in Threads, job'[u].at # "idle",
             Touches(job'[u].call) = Touches(c)
      PROVE  job'[u].for = n
  <2>1. CASE u = t
    BY <1>3, <2>1
  <2>2. CASE u # t
    <3>1. job'[u] = job[u] /\ job[u] # Nothing
      BY <1>3, <1>7, <2>2, NothingFields DEF Alone
    <3>2. ~Crowded(n, c)
      BY <1>1, <1>2, <1>7
    <3>3. QED
      BY <1>7, <3>1, <3>2 DEF Crowded, Idle
  <2>3. QED
    BY <2>1, <2>2
<1>8. LastAlone'
  BY <1>1, <1>2, <1>5, <1>7 DEF LastAlone
<1>9. QED
  BY <1>6, <1>8 DEF RetryInv

LEMMA RetryWork ==
  ASSUME JobsOK, CallsOK, NoteTypes, NoteTypes', RowTypes, Checked, CallInv, RetryInv,
         NEW t \in Threads, Work(t), UNCHANGED calls
  PROVE  RetryInv'
<1>1. /\ \A u \in Threads \ {t} : job'[u] = job[u] \/ job'[u].at # "replied"
      /\ job[t].at \notin {"idle", "replied"}
  BY WorkPasses
<1>2. LastCall \in Nat /\ LastCall' = LastCall /\ LastCall <= MaxCalls
  BY CallFields DEF LastCall, CallInv
<1>3. \A u \in Threads : Carried(u)
  BY WorkCarries
<1>4. ASSUME NEW u \in Threads, job'[u].at # "idle"
      PROVE  job[u].at # "idle" /\ job'[u].for = job[u].for /\ job'[u].call = job[u].call
  BY <1>3, <1>4, NothingFields DEF Carried
\* Either it was answered before, or this step answers it.
<1>5. ASSUME NEW n \in 1 .. LastCall, Well(n)', ~Well(n)
      PROVE  /\ job[t].for = n /\ job[t].call = calls[n].call
             /\ job'[t].at = "replied" /\ job'[t].ok
  <2>1. PICK u \in Threads : job'[u].at = "replied" /\ job'[u].for = n /\ job'[u].ok
    BY <1>5 DEF Well
  <2>2. u = t
    BY <1>1, <1>5, <2>1 DEF Well
  <2>3. job[t].for = n
    BY <1>4, <2>1, <2>2
  <2>4. job[t].call = calls[n].call
    BY <1>1, <2>3 DEF CallInv
  <2>5. QED
    BY <2>1, <2>2, <2>3, <2>4
<1>6. JobOK(job'[t]) /\ (job'[t].at = "replied" => job'[t].ok \in BOOLEAN)
  <2>1. JobsOK'
    BY WorkSteps, LogFrame, SessionFrame, NoteFrame, RowFrame, SheetFrame, PromptFrame
  <2>2. JobOK(job'[t])
    BY <2>1 DEF JobsOK, JobOK, Open, Reply, Nothing, Conforms
  <2>3. QED
    BY <2>2, IdleAt
<1>7. ASSUME NEW n \in 1 .. LastCall, Well(n)', calls[n].call.tool = "send_message"
      PROVE  copies'[n] > 0
  <2>1. n \in 0 .. MaxCalls
    BY <1>2
  <2>2. copies[n] \in Nat
    BY <2>1 DEF NoteTypes
  <2>3. \/ copies' = copies
        \/ InsertCopy(t)
    BY DEF Work, FileCloseout, ReadSection, InstallLane, ReadLog, ReadOlderLog, Remember,
       UpdateMemory, Forget, MarkLetters, InsertRow, FindRow, WriteRow, DeleteRow,
       OpenFile, FillFile, FillRemoved, Unlink, Snapshot, WriteSection, rowVars, Others,
       Elsewhere, Aside
  <2>4. CASE Well(n)
    <3>1. copies[n] > 0
      BY <1>7, <2>4 DEF RetryInv, SentOnce
    <3>2. CASE InsertCopy(t)
      BY <2>1, <2>2, <3>1, <3>2 DEF InsertCopy, NoteTypes
    <3>3. QED
      BY <2>3, <3>1, <3>2
  <2>5. CASE ~Well(n)
    <3>1. /\ job[t].for = n /\ job[t].call = calls[n].call
          /\ job'[t].at = "replied" /\ job'[t].ok = TRUE
      BY <1>5, <1>6, <1>7, <2>5
    <3>2. PICK c : c = job[t].call
      OBVIOUS
    <3>3. c.tool = "send_message" => InsertCopy(t)
      BY <3>1, <3>2, DoneMade
    <3>4. InsertCopy(t)
      BY <1>7, <3>1, <3>2, <3>3
    <3>5. copies'[n] = copies[n] + 1
      BY <2>1, <3>1, <3>4 DEF InsertCopy, NoteTypes
    <3>6. QED
      BY <2>2, <3>5
  <2>6. QED
    BY <2>4, <2>5
<1>8. SentOnce'
  BY <1>2, <1>7 DEF SentOnce
<1>9. ASSUME LastCall > 0, calls[LastCall].alone
      PROVE  /\ \A u \in Threads :
                  job'[u].at # "idle" /\ Touches(job'[u].call) = Touches(calls[LastCall].call)
                    => job'[u].for = LastCall
             /\ Well(LastCall)' => Done(calls[LastCall].call)'
  <2>1. /\ \A u \in Threads :
             job[u].at # "idle" /\ Touches(job[u].call) = Touches(calls[LastCall].call)
               => job[u].for = LastCall
        /\ Well(LastCall) => Done(calls[LastCall].call)
    BY <1>9 DEF RetryInv, LastAlone
  <2>2. PICK c : c = calls[LastCall].call
    OBVIOUS
  <2>3. \/ job[t].call = c
        \/ Touches(job[t].call) # Touches(c)
    BY <1>1, <1>2, <1>9, <2>1, <2>2 DEF CallInv
  <2>4. ASSUME Well(LastCall)' PROVE Done(c)'
    <3>1. CASE Well(LastCall)
      <4>1. Done(c)
        BY <2>1, <2>2, <3>1
      <4>2. QED
        BY <2>3, <4>1, DoneKept
    <3>2. CASE ~Well(LastCall)
      <4>1. LastCall \in 1 .. LastCall
        BY <1>2, <1>9
      <4>2. PICK n \in 1 .. LastCall : n = LastCall
        BY <4>1
      <4>3. Well(n)' /\ ~Well(n)
        BY <1>2, <2>4, <3>2, <4>2 DEF Well
      <4>4. job[t].call = c /\ job'[t].at = "replied" /\ job'[t].ok = TRUE
        BY <1>5, <1>6, <2>2, <4>2, <4>3
      <4>5. QED
        BY <4>4, DoneMade
    <3>3. QED
      BY <3>1, <3>2
  <2>5. Done(c)' => Done(calls[LastCall].call)'
    BY <1>2, <2>2 DEF Done, Noted
  <2>6. QED
    BY <1>4, <2>1, <2>4, <2>5
<1>10. LastAlone'
  BY <1>2, <1>9 DEF LastAlone
<1>11. QED
  BY <1>8, <1>10 DEF RetryInv

LEMMA RetryNext ==
  ASSUME JobsOK, CallsOK, NoteTypes, RowTypes, Checked, CallInv, RetryInv, [Next]_vars
  PROVE  RetryInv'
<1>1. LastCall \in Nat /\ NoteTypes'
  BY CallFields, NoteNext
<1>2. ASSUME NEW t \in Threads, NEW c \in GatewayCalls, Call(t, c)
      PROVE  RetryInv'
  BY <1>2, RetryCall
<1>3. ASSUME NEW t \in Threads, Retry(t)
      PROVE  RetryInv'
  <2>1. /\ LastCall' = LastCall /\ LastCall \in 1 .. LastCall /\ OtherCalls(LastCall)
        /\ calls'[LastCall].call = calls[LastCall].call
        /\ calls'[LastCall].said = "nothing"
        /\ calls'[LastCall].alone = calls[LastCall].alone
    BY <1>3, RetryAgain
  <2>2. PICK n \in Nat : n = LastCall
    BY <1>1
  <2>3. PICK c : c = calls[LastCall].call
    OBVIOUS
  <2>4. Serve(t, n, c) /\ Conforms(c)
    BY <1>3, <2>1, <2>2, <2>3, CallFields DEF Retry
  <2>5. \A m \in 1 .. LastCall : /\ calls'[m].call = calls[m].call
                                 /\ calls'[m].said \in {calls[m].said, "nothing"}
                                 /\ calls'[m].alone => calls[m].alone
    BY <2>1 DEF OtherCalls
  <2>6. QED
    BY <2>1, <2>2, <2>4, <2>5, RetryServe
<1>4. ASSUME NEW t \in Threads, NEW c \in DirectCalls, Direct(t, c)
      PROVE  RetryInv'
  <2>1. /\ LastCall' = LastCall
        /\ \A m \in 1 .. LastCall :
             /\ calls'[m].call = calls[m].call /\ calls'[m].said = calls[m].said
             /\ calls'[m].alone => calls[m].alone /\ Touches(calls[m].call) # Touches(c)
    BY <1>4, DirectMarks
  <2>2. PICK n \in Nat : n = 0
    OBVIOUS
  <2>3. Serve(t, n, c) /\ Conforms(c)
    BY <1>4, <2>2 DEF Direct
  <2>4. LastCall > 0 /\ calls'[LastCall].alone => Touches(c) # Touches(calls[LastCall].call)
    BY <1>1, <2>1
  <2>5. \A m \in 1 .. LastCall : /\ calls'[m].call = calls[m].call
                                 /\ calls'[m].said \in {calls[m].said, "nothing"}
                                 /\ calls'[m].alone => calls[m].alone
    BY <2>1
  <2>6. QED
    BY <2>1, <2>3, <2>4, <2>5, RetryServe
<1>5. ASSUME NEW t \in Threads, Collect(t), LastCall' = LastCall,
             \A m \in 1 .. LastCall : /\ calls'[m].call = calls[m].call
                                      /\ calls'[m].alone => calls[m].alone
                                      /\ calls'[m].said = "ok" => Well(m)
      PROVE  RetryInv'
  <2>1. job'[t].at = "idle" /\ Alone(t) /\ UNCHANGED <<notes, made, read, copies, row>>
    BY <1>5, CollectFrame DEF rowVars
  <2>2. \A m \in 1 .. LastCall : Well(m)' => Well(m)
    BY <1>5, <2>1 DEF Alone, Well
  <2>3. \A u \in Threads :
          job'[u].at # "idle" =>
            job[u].at # "idle" /\ job'[u].for = job[u].for /\ job'[u].call = job[u].call
    BY <2>1 DEF Alone
  <2>4. QED
    BY <1>1, <1>5, <2>1, <2>2, <2>3, RetryQuiet
<1>6. ASSUME NEW t \in Threads, Deliver(t)
      PROVE  RetryInv'
  <2>1. job[t].for \in 1 .. LastCall
    BY <1>1, <1>6 DEF Deliver, CallInv
  <2>2. Collect(t) /\ job[t].at = "replied"
    BY <1>6 DEF Deliver, Collect, At
  <2>3. /\ LastCall' = LastCall /\ OtherCalls(job[t].for)
        /\ calls'[job[t].for].call = calls[job[t].for].call
        /\ calls'[job[t].for].said = IF job[t].ok THEN "ok" ELSE "error"
        /\ calls'[job[t].for].alone = calls[job[t].for].alone
    BY <1>6, <2>1, DeliverSays
  <2>4. \A m \in 1 .. LastCall : /\ calls'[m].call = calls[m].call
                                 /\ calls'[m].alone => calls[m].alone
                                 /\ calls'[m].said = "ok" => Well(m)
    <3> SUFFICES ASSUME NEW m \in 1 .. LastCall
                 PROVE  /\ calls'[m].call = calls[m].call
                        /\ calls'[m].alone => calls[m].alone
                        /\ calls'[m].said = "ok" => Well(m)
      OBVIOUS
    <3>1. CASE m = job[t].for
      BY <2>2, <2>3, <3>1 DEF Well
    <3>2. CASE m # job[t].for
      BY <2>3, <3>2 DEF OtherCalls, Well
    <3>3. QED
      BY <3>1, <3>2
  <2>5. QED
    BY <1>5, <2>2, <2>3, <2>4
<1>7. ASSUME UNCHANGED calls
      PROVE  /\ LastCall' = LastCall
             /\ \A m \in 1 .. LastCall : /\ calls'[m].call = calls[m].call
                                         /\ calls'[m].alone => calls[m].alone
                                         /\ calls'[m].said = "ok" => Well(m)
  BY <1>7 DEF LastCall, Well
<1>8. ASSUME NEW t \in Threads, LoseAnswer(t) \/ DropAnswer(t)
      PROVE  RetryInv'
  <2>1. Collect(t) /\ UNCHANGED calls
    BY <1>8 DEF LoseAnswer, DropAnswer
  <2>2. QED
    BY <1>5, <1>7, <2>1
<1>9. ASSUME NEW t \in Threads, Work(t), UNCHANGED calls
      PROVE  RetryInv'
  BY <1>1, <1>9, RetryWork
<1>10. ASSUME NEW ts \in SUBSET Threads, Interrupt(ts), UNCHANGED calls
       PROVE  RetryInv'
  <2>1. InterruptFrameOf(ts) /\ UNCHANGED <<notes, made, read, copies, row>>
    BY <1>10, InterruptFrame DEF rowVars
  <2>2. \A u \in Threads :
          job'[u].at # "idle" =>
            job[u].at # "idle" /\ job'[u].for = job[u].for /\ job'[u].call = job[u].call
    BY <1>10, InterruptCarries, NothingFields DEF Carried
  <2>3. ASSUME NEW u \in Threads, job'[u].at = "replied", job'[u].ok
        PROVE  job'[u] = job[u]
    <3>1. CASE u \in ts
      <4>1. job'[u] = Answered(u, FALSE)
        BY <2>1, <3>1 DEF InterruptFrameOf
      <4>2. QED
        BY <2>3, <4>1, AnsweredFields, NothingFields
    <3>2. CASE u \notin ts
      BY <2>1, <3>2 DEF InterruptFrameOf
    <3>3. QED
      BY <3>1, <3>2
  <2>4. \A m \in 1 .. LastCall : Well(m)' => Well(m)
    BY <1>10, <2>3 DEF Well
  <2>5. QED
    BY <1>1, <1>7, <1>10, <2>1, <2>2, <2>4, RetryQuiet
<1>11. ASSUME GiveUp \/ UNCHANGED vars
       PROVE  RetryInv'
  <2>1. UNCHANGED <<notes, made, read, copies, row, job, calls>>
    BY <1>11 DEF GiveUp, vars, storeVars, rowVars
  <2>2. \A m \in 1 .. LastCall : Well(m)' => Well(m)
    BY <2>1 DEF Well
  <2>3. QED
    BY <1>1, <1>7, <2>1, <2>2, RetryQuiet
<1>12. QED
  BY <1>2, <1>3, <1>4, <1>6, <1>8, <1>9, <1>10, <1>11 DEF Next

\* A call that inserts leaves at most one row per try, and one at least when it
\* was answered; the last call that sets a state and was answered has that
\* state, when nobody else called upon the same thing.
THEOREM RetriesAreSafeHolds == Spec => []RetriesAreSafe
<1>1. ASSUME CallsOK, NoteTypes, CallInv, BudgetInv, RetryInv
      PROVE  RetriesAreSafe
  <2> SUFFICES ASSUME NEW n \in DOMAIN calls
               PROVE  /\ Inserted(n) <= calls[n].tries
                      /\ calls[n].said = "ok" /\ calls[n].call.tool = "send_message" =>
                           copies[n] > 0
                      /\ n = LastCall /\ calls[n].said = "ok" /\ calls[n].alone =>
                           Effect(calls[n].call)
    BY DEF RetriesAreSafe
  <2>1. n \in 1 .. LastCall /\ LastCall \in Nat /\ calls[n].tries \in Nat
    BY <1>1, CallFields
  <2>2. n \in 1 .. MaxCalls
    BY <1>1, <2>1 DEF CallInv
  <2>3. IsFiniteSet(Pending(n)) /\ Tally(n) <= calls[n].tries
    BY <1>1, <2>1, <2>2 DEF BudgetInv, Tries
  <2>4. /\ copies[n] \in Nat /\ Cardinality(NotesOf(n)) \in Nat
        /\ Cardinality(Pending(n)) \in Nat
    BY <1>1, <2>2, <2>3, Counts
  <2>5. Inserted(n) = copies[n] + Cardinality(NotesOf(n))
    BY DEF Inserted, NotesOf
  <2>6. Inserted(n) <= calls[n].tries
    BY <2>1, <2>3, <2>4, <2>5 DEF Tally
  <2>7. calls[n].said = "ok" => Well(n)
    BY DEF Well
  <2>8. calls[n].said = "ok" /\ calls[n].call.tool = "send_message" => copies[n] > 0
    BY <1>1, <2>1, <2>7 DEF RetryInv, SentOnce
  <2>9. n = LastCall /\ calls[n].said = "ok" /\ calls[n].alone => Effect(calls[n].call)
    BY <1>1, <2>1, <2>7, DoneEffect DEF RetryInv, LastAlone
  <2>10. QED
    BY <2>6, <2>8, <2>9
<1>2. JobsOK /\ CallsOK /\ NoteTypes /\ [Next]_vars => NoteTypes'
  BY NoteNext
<1>3. JobsOK /\ CallsOK /\ RowTypes /\ [Next]_vars => RowTypes'
  BY RowNext
<1>4. JobsOK /\ CallsOK /\ CallInv /\ [Next]_vars => CallInv'
  BY CallNext
<1>5. JobsOK /\ CallsOK /\ NoteTypes /\ CallInv /\ BudgetInv /\ [Next]_vars => BudgetInv'
  BY BudgetNext
<1>6. JobsOK /\ CallsOK /\ NoteTypes /\ Checked /\ [Next]_vars => Checked'
  BY CheckedNext
<1>7. JobsOK /\ CallsOK /\ NoteTypes /\ RowTypes /\ Checked /\ CallInv /\ RetryInv
        /\ [Next]_vars => RetryInv'
  BY RetryNext
<1>8. CallsOK /\ NoteTypes /\ CallInv /\ BudgetInv /\ RetryInv => RetriesAreSafe
  BY <1>1
<1>9. QED
  BY NoteInit, RowInit, CallInit, BudgetInit, CheckedInit, RetryInit, JobsHold,
     <1>2, <1>3, <1>4, <1>5, <1>6, <1>7, <1>8, PTL DEF Spec

=============================================================================
