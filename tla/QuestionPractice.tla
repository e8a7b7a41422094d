--------------------------- MODULE QuestionPractice ---------------------------
(***************************************************************************)
(* Exam-question practice (profile_os/questions.py) over the records of a  *)
(* dynamic store (profile_os/dynstores.py).                                *)
(*                                                                         *)
(* A record holds a question's answer key, its text and its learning       *)
(* statistics in one JSON value.  Every handler reads the value, changes   *)
(* it in memory and writes all of it back, on a thread of the backend with *)
(* a SQLite connection of its own.  An UPDATE outside a "with self.db"     *)
(* block leaves a transaction open on that connection: only its thread     *)
(* sees the new value, and only its thread can write, until that thread    *)
(* commits something else.  Records can also be edited by hand, one field  *)
(* or all: nothing audits such an edit, clamps it or recomputes anything.   *)
(***************************************************************************)
EXTENDS Integers, Sequences, FiniteSets

CONSTANTS
  Threads,       \* threads, each with a connection
  NoThread,
  Questions,     \* records of exam_questions, by id
  Extracted,     \* Extracted[q][x]: extracted_correct_option_ids of q in text x
  Keys,          \* sets of options that can be a key or a selection
  NoKey,         \* the empty key of a nullified question
  Texts,         \* versions of the source text
  Patches,       \* fields that a hand-made edit sets, with their values
  Attempts,      \* attempt codes
  NoAttempt,
  InitialWeight, MinWeight, MaxWeight,   \* of a question, as powers of two
  Weightless,    \* a weight that is not positive
  MaxDraw,       \* bound: questions of one attempt
  MaxReqs,       \* bound: requests that change a record
  MaxOverdue,    \* bound: attempts that get older than 24 hours
  MaxCrashes     \* bound: kills of the backend

Scorable       == {"active", "overridden"}
AnswerStatuses == Scorable \cup {"nullified", "conflict"}

\* What each field of a record may hold; "conflict" stands for every
\* answer_status that is neither scored nor the work of a revision.
Values == [status |-> AnswerStatuses, key |-> Keys \cup {NoKey}, text |-> Texts,
           weight |-> Int, right |-> Int, wrong |-> Int]

ASSUME PracticeAssumption ==
  /\ NoThread \notin Threads /\ NoKey \notin Keys /\ NoAttempt \notin Attempts
  /\ Extracted \in [Questions -> [Texts -> Keys]] /\ Questions # {} /\ Texts # {}
  /\ {InitialWeight, MinWeight, MaxWeight, Weightless} \subseteq Int
  /\ Weightless < MinWeight /\ MinWeight <= InitialWeight /\ InitialWeight <= MaxWeight
  /\ {MaxDraw, MaxReqs, MaxOverdue, MaxCrashes} \subseteq Nat

ASSUME PatchesAssumption ==
  \A p \in Patches :
    /\ DOMAIN p \subseteq DOMAIN Values
    /\ \A f \in DOMAIN p : p[f] \in Values[f]
    /\ "weight" \in DOMAIN p => p.weight >= Weightless

VARIABLES
  \* committed rows
  rec,           \* dynamic_records
  audit,         \* the last row of question_answer_audit for each question
  att,           \* question_attempts
  order,         \* attempts by graded_at
  overdue,       \* attempts whose expires_at has passed
  \* connections and requests
  open,          \* the transaction somebody's UPDATE left open
  pc, op, on,    \* of each thread: where it stands, the request, its attempt
  todo,          \* questions it has not read
  seen,          \* the records it read
  picked,        \* the selections, or the key, it was sent
  sent,          \* the fields of a record it was sent
  read,          \* the answers _recompute_stats read
  \* history and budgets
  wanted,        \* what was last written to each field of a question
  unaudited,     \* questions whose status or key was last set without an audit row
  disturbed,     \* questions whose statistics were spoiled
  clobbered,     \* fields that a stale write set back
  reqs, crashes

tables  == <<rec, audit, att, order, overdue>>
request == <<op, on, todo, seen, picked, sent, read>>
entries == <<wanted, unaudited>>
history == <<entries, disturbed, clobbered>>
vars == <<tables, open, pc, request, history, reqs, crashes>>

-----------------------------------------------------------------------------
(* Records and statistics *)

Start     == [weight |-> InitialWeight, right |-> 0, wrong |-> 0]
FirstText == CHOOSE x \in Texts : TRUE

Unborn == [status |-> "unborn", key |-> NoKey, text |-> FirstText,
           stats |-> Start]
Gone   == [Unborn EXCEPT !.status = "deleted"]

NothingSeen   == [q \in Questions |-> Unborn]
NothingPicked == [q \in Questions |-> NoKey]
NothingSent   == [text |-> FirstText]

Statuses == {"unborn", "deleted"} \cup AnswerStatuses
Present(r) == r.status \notin {"unborn", "deleted"}

\* A weight set by hand may lie outside of the bounds: halving brings it to the
\* lower one, doubling to the upper one, and doubling nothing gives nothing.
Halved(w)  == IF w > MinWeight THEN w - 1 ELSE MinWeight
Doubled(w) == IF w = Weightless THEN w ELSE IF w < MaxWeight THEN w + 1 ELSE MaxWeight

\* Mutant: a correct answer is counted, its weight left alone.
ScoredWithoutWeight(s, isRight) ==
  [weight |-> IF isRight THEN s.weight ELSE Doubled(s.weight),
   right  |-> s.right + (IF isRight THEN 1 ELSE 0),
   wrong  |-> s.wrong + (IF isRight THEN 0 ELSE 1)]

\* One answer, as _apply_grade counts it.
Scored(s, isRight) ==
  [weight |-> IF isRight THEN Halved(s.weight) ELSE Doubled(s.weight),
   right  |-> s.right + (IF isRight THEN 1 ELSE 0),
   wrong  |-> s.wrong + (IF isRight THEN 0 ELSE 1)]

\* The elements of s that are in S, in their order (SelectSeq, whose test the
\* prover cannot see into).
Kept(s, S) ==
  LET kept[i \in 0 .. Len(s)] ==
        IF i = 0 THEN <<>>
        ELSE IF s[i] \in S THEN Append(kept[i - 1], s[i]) ELSE kept[i - 1]
  IN  kept[Len(s)]

\* Attempts whose answers count for q.
Counting(q, at) == {a \in Attempts : at[a].status = "graded" /\ q \in at[a].qs}

\* The answers to q of the graded attempts at, in the order of graded_at.
AnswersTo(q, at) ==
  LET graded == Kept(order, Counting(q, at))
  IN  [i \in DOMAIN graded |-> at[graded[i]].answers[q]]

\* Statistics after replaying answers against a key, as _recompute_stats does.
Replay(answers, k) ==
  LET after[i \in 0 .. Len(answers)] ==
        IF i = 0 THEN Start
        ELSE LET s == after[i - 1] IN
             IF answers[i] = k
             THEN [s EXCEPT !.right = @ + 1, !.weight = Halved(@)]
             ELSE [s EXCEPT !.wrong = @ + 1, !.weight = Doubled(@)]
  IN  after[Len(answers)]

Recomputed(r, answers) ==
  [r EXCEPT !.stats = IF r.status \in Scorable THEN Replay(answers, r.key) ELSE Start]

-----------------------------------------------------------------------------
(* Connections *)

Closed == [by |-> NoThread, q |-> CHOOSE q \in Questions : TRUE, data |-> Unborn,
           fresh |-> TRUE, parts |-> {}]

\* SQLite has one writer.
CanWrite(t) == open.by \in {NoThread, t}

\* What thread t reads, and what a commit of t builds on.
View(t) == IF open.by = t THEN [rec EXCEPT ![open.q] = open.data] ELSE rec

\* History of the open transaction, applied when t commits.
Disturbed(t) == IF open.by # t THEN disturbed
                ELSE IF open.fresh THEN disturbed \ {open.q} ELSE disturbed \cup {open.q}
Clobbered(t) == IF open.by = t THEN clobbered \cup open.parts ELSE clobbered

\* What counts for the statistics, and the other fields a write can set back.
Scoring(r) == <<r.status, r.key, r.stats>>
Fields     == {"status", "key", "text"}

\* What t read of q is no longer what t would read.
StaleStats(t, qs) ==
  {q \in qs : Present(View(t)[q]) /\ Scoring(seen[t][q]) # Scoring(View(t)[q])}
Stale(t, qs) ==
  {p \in qs \X Fields :
     Present(View(t)[p[1]]) /\ seen[t][p[1]][p[2]] # View(t)[p[1]][p[2]]}

Idle(t)  == pc[t] = "idle"
To(t, l) == pc' = [pc EXCEPT ![t] = l]

\* A request ends; what it read is forgotten.
Finish(t) ==
  /\ To(t, "idle")
  /\ op' = [op EXCEPT ![t] = "none"]
  /\ on' = [on EXCEPT ![t] = NoAttempt]
  /\ todo' = [todo EXCEPT ![t] = {}]
  /\ seen' = [seen EXCEPT ![t] = NothingSeen]
  /\ picked' = [picked EXCEPT ![t] = NothingPicked]
  /\ sent' = [sent EXCEPT ![t] = NothingSent]
  /\ read' = [read EXCEPT ![t] = <<>>]

\* A commit of t that sets the records to r, over what its connection had open.
\* It spoils the statistics of some questions, and of fields sets some back and
\* others anew.
Commit(t, r, spoilt, setBack, setAnew) ==
  /\ CanWrite(t)
  /\ rec' = r
  /\ open' = Closed
  /\ disturbed' = Disturbed(t) \cup spoilt
  /\ clobbered' = (Clobbered(t) \cup setBack) \ setAnew

\* The connection of t rolls back what it had open.
Rollback(t) ==
  /\ open' = IF open.by = t THEN Closed ELSE open
  /\ disturbed' = IF open.by = t THEN disturbed \cup {open.q} ELSE disturbed

\* An UPDATE by id: a record deleted meanwhile stays deleted.
Updated(t, qs, data(_)) ==
  [q \in Questions |-> IF q \in qs /\ Present(View(t)[q]) THEN data(q) ELSE View(t)[q]]

\* A write that recomputes nothing spoils the statistics unless it leaves what
\* counts for them, or they are those of a question nobody answered.
Spoils(old, new) ==
  IF Present(old) THEN Scoring(new) # Scoring(old) ELSE new.stats # Start

\* A commit of t that writes the records qs with data, of whose fields it means
\* set (all of them if the record is new).
Store(t, qs, set, data(_)) ==
  /\ Commit(t, [q \in Questions |-> IF q \in qs THEN data(q) ELSE View(t)[q]],
            {q \in qs : Spoils(View(t)[q], data(q))},
            Stale(t, qs), qs \X set)
  /\ wanted' = [q \in Questions |-> [f \in Fields |->
                  IF q \in qs /\ (f \in set \/ ~Present(View(t)[q]))
                  THEN data(q)[f] ELSE wanted[q][f]]]

-----------------------------------------------------------------------------
(* Attempts *)

\* draw: weighted, so any drawable questions; a failed insert leaves nothing.
Draw(t, a, qs) ==
  /\ Idle(t) /\ CanWrite(t)
  /\ att[a].status = "none"
  /\ qs # {} /\ Cardinality(qs) <= MaxDraw
  /\ \A q \in qs : /\ View(t)[q].status \in Scorable
                   /\ View(t)[q].stats.weight # Weightless
  /\ att' = [att EXCEPT ![a].status = "pending", ![a].qs = qs]
  /\ Commit(t, View(t), {}, {}, {})
  /\ UNCHANGED <<audit, order, overdue, pc, request, entries, reqs, crashes>>

\* Time passes: an attempt gets older than 24 hours.
Age(a) ==
  /\ att[a].status = "pending" /\ a \notin overdue
  /\ Cardinality(overdue) < MaxOverdue
  /\ overdue' = overdue \cup {a}
  /\ UNCHANGED <<rec, audit, att, order, open, pc, request, history, reqs, crashes>>

\* A request about attempt a: _attempt reads its row and may refuse it.
Lookup(t, o, a, qs, p) ==
  /\ Idle(t) /\ reqs < MaxReqs
  /\ att[a].status # "none"
  /\ reqs' = reqs + 1
  /\ op' = [op EXCEPT ![t] = o]
  /\ on' = [on EXCEPT ![t] = a]
  /\ IF att[a].status = "pending" /\ a \in overdue
     THEN To(t, "expire") /\ UNCHANGED <<todo, picked>>
     ELSE /\ o = "grade"   => att[a].status = "pending"
          /\ o = "regrade" => att[a].status = "graded"
          /\ To(t, "prepare")
          /\ todo' = [todo EXCEPT ![t] = qs]
          /\ picked' = [picked EXCEPT ![t] = p]
  /\ UNCHANGED <<tables, open, seen, sent, read, history, crashes>>

Revisions == {"override", "nullify", "restore"}

Answers(a) == {s \in [Questions -> Keys \cup {NoKey}] :
                 \A q \in Questions : s[q] = NoKey <=> q \notin att[a].qs}

Grade(t, a)   == \E s \in Answers(a) : Lookup(t, "grade", a, att[a].qs, s)
Regrade(t, a) == \E s \in Answers(a) : Lookup(t, "regrade", a, att[a].qs, s)

\* revise_answer: override with a key, nullify, or restore the extracted key.
Revise(t, a) ==
  \E q \in att[a].qs, o \in Revisions, k \in Keys \cup {NoKey} :
    /\ o = "override" <=> k # NoKey
    /\ Lookup(t, o, a, {q}, [NothingPicked EXCEPT ![q] = k])

\* The expiry is written by code alone, whatever the row has become.
Expire(t) ==
  /\ pc[t] = "expire"
  /\ Commit(t, View(t), IF att[on[t]].status = "graded" THEN att[on[t]].qs ELSE {}, {}, {})
  /\ att' = [att EXCEPT ![on[t]].status = "expired"]
  /\ Finish(t)
  /\ UNCHANGED <<audit, order, overdue, entries, reqs, crashes>>

\* _prepare_answers and revise_answer read one record of the attempt.
Prepare(t, q) ==
  /\ pc[t] = "prepare" /\ q \in todo[t]
  /\ Present(View(t)[q])
  /\ seen' = [seen EXCEPT ![t][q] = View(t)[q]]
  /\ todo' = [todo EXCEPT ![t] = @ \ {q}]
  /\ To(t, IF todo[t] = {q} THEN "write" ELSE "prepare")
  /\ UNCHANGED <<tables, open, op, on, picked, sent, read, history, reqs, crashes>>

\* The drawn question no longer exists.
PrepareFails(t) ==
  /\ pc[t] = "prepare"
  /\ \E q \in todo[t] : ~Present(View(t)[q])
  /\ Finish(t)
  /\ UNCHANGED <<tables, open, history, reqs, crashes>>

\* _apply_grade: nullified questions are left alone; the status of the attempt
\* is not tested again.
WriteGrade(t) ==
  LET a       == on[t]
      scored  == {q \in att[a].qs : seen[t][q].status \in Scorable}
      data(q) == [seen[t][q] EXCEPT !.stats = Scored(@, picked[t][q] = seen[t][q].key)]
  IN
  /\ pc[t] = "write" /\ op[t] = "grade"
  /\ Commit(t, Updated(t, scored, data),
            StaleStats(t, att[a].qs) \cup (IF att[a].status = "graded" THEN att[a].qs ELSE {}),
            Stale(t, scored), {})
  /\ att' = [att EXCEPT ![a].status = "graded", ![a].answers = picked[t]]
  /\ order' = Append(Kept(order, Attempts \ {a}), a)
  /\ Finish(t)
  /\ UNCHANGED <<audit, overdue, entries, reqs, crashes>>

\* _grade_result: the key names an option that the question does not have, or
\* no longer has the one that was selected; the whole grading is rolled back.
\* The options are part of the text, so any wrong answer may meet this.
GradeFails(t) ==
  /\ pc[t] = "write" /\ op[t] = "grade"
  /\ CanWrite(t)
  /\ \E q \in att[on[t]].qs :
       seen[t][q].status \in Scorable /\ picked[t][q] # seen[t][q].key
  /\ Rollback(t)
  /\ Finish(t)
  /\ UNCHANGED <<tables, entries, clobbered, reqs, crashes>>

\* regrade: new answers at the old place, and _recompute_stats of each
\* question in the same transaction.
WriteRegrade(t) ==
  LET a  == on[t]
      at == [att EXCEPT ![a].answers = picked[t]]
      data(q) == Recomputed(View(t)[q], AnswersTo(q, at))
  IN
  /\ pc[t] = "write" /\ op[t] = "regrade"
  /\ CanWrite(t)
  /\ \A q \in att[a].qs : Present(View(t)[q])
  /\ att' = at
  /\ rec' = Updated(t, att[a].qs, data)
  /\ open' = Closed
  /\ disturbed' = Disturbed(t) \ att[a].qs
  /\ clobbered' = Clobbered(t)
  /\ Finish(t)
  /\ UNCHANGED <<audit, order, overdue, entries, reqs, crashes>>

\* A record was deleted meanwhile: _recompute_stats raises, all is rolled back.
RegradeFails(t) ==
  /\ pc[t] = "write" /\ op[t] = "regrade"
  /\ CanWrite(t)
  /\ \E q \in att[on[t]].qs : ~Present(View(t)[q])
  /\ Rollback(t)
  /\ Finish(t)
  /\ UNCHANGED <<tables, entries, clobbered, reqs, crashes>>

-----------------------------------------------------------------------------
(* Revision of an answer key *)

\* Mutant: the action's own name is stored as the status.
NamedAfterAction(action) == action

\* The answer_status an action leads to.
After(action) ==
  [override |-> "overridden", nullify |-> "nullified", restore |-> "active"][action]

\* Restoring takes the key extracted from the text as it was read.
NewKey(t, q) ==
  IF op[t] = "restore" THEN Extracted[q][seen[t][q].text] ELSE picked[t][q]

\* Mutant: restoring the extracted key leaves the question overridden.
RevisedStatus(t, q) ==
  [seen[t][q] EXCEPT !.key = NewKey(t, q),
                     !.status = IF op[t] = "nullify" THEN "nullified" ELSE "overridden"]

Revised(t, q) ==
  [seen[t][q] EXCEPT
     !.key    = NewKey(t, q),
     !.status = After(op[t])]

\* The key and its audit row; the statistics are those of the old key.
WriteRevision(t, q) ==
  LET data(p) == Revised(t, p)
      qs      == IF Present(View(t)[q]) THEN {q} ELSE {}
  IN
  /\ pc[t] = "write" /\ op[t] \in Revisions /\ Present(seen[t][q])
  /\ Store(t, qs, {"status", "key"}, data)
  /\ audit' = [audit EXCEPT ![q] = <<After(op[t]), NewKey(t, q)>>]
  /\ unaudited' = unaudited \ {q}
  /\ To(t, "row")
  /\ UNCHANGED <<att, order, overdue, request, reqs, crashes>>

\* _recompute_stats, outside of any transaction: the row ...
RecomputeRow(t, q) ==
  /\ pc[t] = "row" /\ Present(seen[t][q])
  /\ IF Present(View(t)[q])
     THEN /\ seen' = [seen EXCEPT ![t][q] = View(t)[q]]
          /\ To(t, IF View(t)[q].status \in Scorable THEN "attempts" ELSE "update")
          /\ UNCHANGED <<op, on, todo, picked, sent, read>>
     ELSE Finish(t)
  /\ UNCHANGED <<tables, open, history, reqs, crashes>>

\* ... the graded attempts ...
RecomputeAttempts(t, q) ==
  /\ pc[t] = "attempts" /\ Present(seen[t][q])
  /\ read' = [read EXCEPT ![t] = AnswersTo(q, att)]
  /\ To(t, "update")
  /\ UNCHANGED <<tables, open, op, on, todo, seen, picked, sent, history, reqs, crashes>>

\* ... and an UPDATE nobody commits; then revise_answer returns.
RecomputeUpdate(t, q) ==
  LET answersNow == IF seen[t][q].status \in Scorable THEN AnswersTo(q, att) ELSE <<>> IN
  /\ pc[t] = "update" /\ Present(seen[t][q])
  /\ open.by = NoThread
  /\ open' = [by |-> t, q |-> q,
              data  |-> IF Present(rec[q]) THEN Recomputed(seen[t][q], read[t]) ELSE rec[q],
              fresh |-> Scoring(seen[t][q]) = Scoring(rec[q]) /\ read[t] = answersNow,
              parts |-> Stale(t, {q})]
  /\ Finish(t)
  /\ UNCHANGED <<tables, history, reqs, crashes>>

-----------------------------------------------------------------------------
(* Records: import, add_records, update_record, delete_record *)

\* A request that has read the records qs and will write the fields of p.
ReadFor(t, o, qs, p) ==
  /\ Idle(t) /\ reqs < MaxReqs
  /\ reqs' = reqs + 1
  /\ op' = [op EXCEPT ![t] = o]
  /\ seen' = [seen EXCEPT ![t] = [q \in Questions |-> IF q \in qs THEN View(t)[q] ELSE Unborn]]
  /\ sent' = [sent EXCEPT ![t] = p]
  /\ To(t, "write")
  /\ UNCHANGED <<tables, open, on, todo, picked, read, history, crashes>>

\* update_record: any fields of one record.
Patch(t) ==
  \E q \in Questions, p \in Patches : Present(View(t)[q]) /\ ReadFor(t, "patch", {q}, p)

\* import_records finds a question by its question_key: any of the records,
\* since a file may leave some out and a patch may have changed the key of others.
Import(t) ==
  \E qs \in SUBSET {q \in Questions : Present(View(t)[q])}, x \in Texts :
    ReadFor(t, "import", qs, [text |-> x])

\* {**previous, **patch}: the fields of p over those of r.
Merged(r, p) ==
  LET field(f, old) == IF f \in DOMAIN p THEN p[f] ELSE old IN
  [status |-> field("status", r.status),
   key    |-> field("key", r.key),
   text   |-> field("text", r.text),
   stats  |-> [weight |-> field("weight", r.stats.weight),
               right  |-> field("right", r.stats.right),
               wrong  |-> field("wrong", r.stats.wrong)]]

\* A question as extracted; two files may disagree on its key.
Fresh(q, x, status) ==
  [status |-> status, key |-> Extracted[q][x], text |-> x, stats |-> Start]

\* The whole JSON value as it was read, with the fields that were sent;
\* import_records also inserts what it did not find.
WriteRecords(t) ==
  \E new \in SUBSET {q \in Questions : op[t] = "import" /\ View(t)[q].status = "unborn"} :
  \E doubtful \in SUBSET new :
    LET old == {q \in Questions : Present(seen[t][q]) /\ Present(View(t)[q])}
        set == DOMAIN sent[t] \cap Fields
        data(q) == IF q \in new
                   THEN Fresh(q, sent[t].text, IF q \in doubtful THEN "conflict" ELSE "active")
                   ELSE Merged(seen[t][q], sent[t])
    IN
    /\ pc[t] = "write" /\ op[t] \in {"patch", "import"}
    /\ Store(t, old \cup new, set, data)
    /\ unaudited' = unaudited \cup new \cup (IF set \subseteq {"text"} THEN {} ELSE old)
    /\ Finish(t)
    /\ UNCHANGED <<audit, att, order, overdue, reqs, crashes>>

\* add_record and add_records: new records with any fields.
Insert(t) ==
  \E qs \in SUBSET {q \in Questions : View(t)[q].status = "unborn"} :
  \E x \in [qs -> Texts], p \in [qs -> Patches] :
    LET data(q) == Merged(Fresh(q, x[q], "active"), p[q]) IN
    /\ Idle(t) /\ reqs < MaxReqs
    /\ qs # {}
    /\ Store(t, qs, Fields, data)
    /\ unaudited' = unaudited \cup qs
    /\ reqs' = reqs + 1
    /\ UNCHANGED <<audit, att, order, overdue, pc, request, crashes>>

Delete(t, q) ==
  /\ Idle(t) /\ reqs < MaxReqs
  /\ Present(View(t)[q])
  /\ Commit(t, [View(t) EXCEPT ![q] = Gone], {}, {}, {})
  /\ reqs' = reqs + 1
  /\ UNCHANGED <<audit, att, order, overdue, pc, request, entries, crashes>>

-----------------------------------------------------------------------------
(* Failures *)

\* "database is locked": a writer waited five seconds for another's lock.
Busy(t) ==
  /\ pc[t] \in {"expire", "write", "update"}
  /\ ~CanWrite(t)
  /\ Finish(t)
  /\ UNCHANGED <<tables, open, history, reqs, crashes>>

\* The pool drops an idle thread, and SQLite its open transaction.
ThreadEnds(t) ==
  /\ Idle(t) /\ open.by = t
  /\ Rollback(t)
  /\ UNCHANGED <<tables, pc, request, entries, clobbered, reqs, crashes>>

Crash ==
  /\ crashes < MaxCrashes
  /\ crashes' = crashes + 1
  /\ pc' = [t \in Threads |-> "idle"]
  /\ op' = [t \in Threads |-> "none"]
  /\ on' = [t \in Threads |-> NoAttempt]
  /\ todo' = [t \in Threads |-> {}]
  /\ seen' = [t \in Threads |-> NothingSeen]
  /\ picked' = [t \in Threads |-> NothingPicked]
  /\ sent' = [t \in Threads |-> NothingSent]
  /\ read' = [t \in Threads |-> <<>>]
  /\ open' = Closed
  /\ disturbed' = disturbed \cup (IF open.by = NoThread THEN {} ELSE {open.q})
  /\ UNCHANGED <<tables, entries, clobbered, reqs>>

-----------------------------------------------------------------------------
Init ==
  /\ rec = [q \in Questions |-> Unborn]
  /\ audit = [q \in Questions |-> <<"unborn", NoKey>>]
  /\ att = [a \in Attempts |-> [status |-> "none", qs |-> {}, answers |-> NothingPicked]]
  /\ order = <<>> /\ overdue = {}
  /\ open = Closed
  /\ pc = [t \in Threads |-> "idle"]
  /\ op = [t \in Threads |-> "none"]
  /\ on = [t \in Threads |-> NoAttempt]
  /\ todo = [t \in Threads |-> {}]
  /\ seen = [t \in Threads |-> NothingSeen]
  /\ picked = [t \in Threads |-> NothingPicked]
  /\ sent = [t \in Threads |-> NothingSent]
  /\ read = [t \in Threads |-> <<>>]
  /\ wanted = [q \in Questions |-> [f \in Fields |-> Unborn[f]]]
  /\ unaudited = {} /\ disturbed = {} /\ clobbered = {}
  /\ reqs = 0 /\ crashes = 0

AttemptStep(t) ==
  \/ \E a \in Attempts :
       \/ \E qs \in SUBSET Questions : Draw(t, a, qs)
       \/ Grade(t, a)
       \/ Regrade(t, a)
       \/ Revise(t, a)
  \/ Expire(t)
  \/ \E q \in Questions : Prepare(t, q)
  \/ PrepareFails(t)
  \/ WriteGrade(t)
  \/ GradeFails(t)
  \/ WriteRegrade(t)
  \/ RegradeFails(t)

RevisionStep(t) ==
  \E q \in Questions :
    \/ WriteRevision(t, q)
    \/ RecomputeRow(t, q)
    \/ RecomputeAttempts(t, q)
    \/ RecomputeUpdate(t, q)

RecordStep(t) ==
  \/ Patch(t)
  \/ Import(t)
  \/ WriteRecords(t)
  \/ Insert(t)
  \/ \E q \in Questions : Delete(t, q)

Next ==
  \/ \E t \in Threads : AttemptStep(t) \/ RevisionStep(t) \/ RecordStep(t)
                        \/ Busy(t) \/ ThreadEnds(t)
  \/ \E a \in Attempts : Age(a)
  \/ Crash

Spec == Init /\ [][Next]_vars

-----------------------------------------------------------------------------
(* Properties *)

Stats   == [weight : Int, right : Int, wrong : Int]
Records == [status : Statuses, key : Keys \cup {NoKey}, text : Texts, stats : Stats]
Sent    == Patches \cup {[text |-> x] : x \in Texts}

\* Rows, connections and requests hold what the code can put there.
TypeOK ==
  /\ rec \in [Questions -> Records]
  /\ audit \in [Questions -> Statuses \X (Keys \cup {NoKey})]
  /\ att \in [Attempts -> [status : {"none", "pending", "graded", "expired"},
                           qs : SUBSET Questions,
                           answers : [Questions -> Keys \cup {NoKey}]]]
  /\ order \in Seq(Attempts) /\ overdue \subseteq Attempts
  /\ open \in [by : Threads \cup {NoThread}, q : Questions, data : Records,
               fresh : BOOLEAN, parts : SUBSET (Questions \X Fields)]
  /\ pc \in [Threads -> {"idle", "expire", "prepare", "write", "row", "attempts", "update"}]
  /\ op \in [Threads -> {"none", "grade", "regrade", "patch", "import"} \cup Revisions]
  /\ on \in [Threads -> Attempts \cup {NoAttempt}]
  /\ todo \in [Threads -> SUBSET Questions]
  /\ seen \in [Threads -> [Questions -> Records]]
  /\ picked \in [Threads -> [Questions -> Keys \cup {NoKey}]]
  /\ sent \in [Threads -> Sent]
  /\ read \in [Threads -> Seq(Keys \cup {NoKey})]
  /\ wanted \in [Questions -> [Fields -> Statuses \cup Keys \cup {NoKey} \cup Texts]]
  /\ unaudited \subseteq Questions /\ disturbed \subseteq Questions
  /\ clobbered \subseteq Questions \X Fields
  /\ reqs \in Nat /\ crashes \in Nat

\* The statistics that gradings add up one by one are those of a replay of the
\* graded attempts, unless they were spoiled: by a write based on an outdated
\* read, a late expiry, an interrupted revision, or a patch or insertion that
\* sets key, status or statistics by hand, which recomputes nothing.  A regrade,
\* and a revision that is committed undisturbed, make them right again.
StatsReplayHistory ==
  \A q \in Questions :
    Present(rec[q]) /\ q \notin disturbed =>
      rec[q].stats = Recomputed(rec[q], AnswersTo(q, att)).stats

\* Each field of a question is as last written, by revision, patch, import or
\* insertion, unless a handler wrote back a record it had read before that; and
\* key and status are those of the last audited revision, unless a patch set one
\* of them since, which leaves no audit row.
LastWriteIsKept ==
  \A q \in Questions : Present(rec[q]) =>
    /\ \A f \in Fields : <<q, f>> \notin clobbered => rec[q][f] = wanted[q][f]
    /\ q \notin unaudited /\ {<<q, "status">>, <<q, "key">>} \cap clobbered = {} =>
         audit[q] = <<rec[q].status, rec[q].key>>

\* As long as no handler wrote back an outdated record, two idle threads read
\* the same questions: a revision that one companion was told of is what the
\* other sees.
RevisionsAreShared ==
  \A t, u \in Threads :
    Idle(t) /\ Idle(u) /\ clobbered = {} => View(t) = View(u)

=============================================================================
