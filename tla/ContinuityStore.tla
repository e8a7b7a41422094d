---------------------------- MODULE ContinuityStore ----------------------------
(***************************************************************************)
(* What one companion keeps between its sessions (profile_os/storage.py    *)
(* and the routes over it in profile_os/api.py): closeouts and the handoff *)
(* text derived from them, the older session log, memories, the inbox, a   *)
(* file, the prompt sections, and the row of the thread_continuity store   *)
(* (profile_os/dynstores.py).                                              *)
(*                                                                         *)
(* job[t] is the request thread t serves: the call, the stage it is at,    *)
(* what it has read (seen), and for whom: the number of a call of the MCP  *)
(* gateway, or 0 for any other client.  Every SQL statement outside a      *)
(* transaction, every transaction and every file operation is a step.      *)
(***************************************************************************)
EXTENDS Integers, FiniteSets

CONSTANTS
  Threads,       \* threads of the backend
  Fields,        \* fields of oak-sheet.json
  Sections,      \* prompt sections
  Letters,       \* messages in the inbox
  Values,        \* what a client writes
  OldEntries,    \* rows of <profile>_session_log at the start
  LogLimit,      \* entries a session is given
  Torn, Gone,    \* a file that was truncated, or filled by two at a time; no file
  MaxReqs,       \* bound: requests
  MaxFaults      \* bound: interruptions, lost answers and timeouts

ASSUME StoreAssumption ==
  /\ Torn # Gone /\ {Torn, Gone} \cap [Fields -> Nat] = {}
  /\ Values \subseteq Nat \ {0}
  /\ OldEntries \in Nat /\ LogLimit \in Nat \ {0}
  /\ MaxReqs \in Nat /\ MaxFaults \in Nat

VARIABLES
  closeouts,     \* closeouts, by created_at
  legacy,        \* rows of <profile>_session_log, by created_at
  state,         \* the closeout compact_state was written by, 0 for none
  clock,         \* time.time() of the last closeout that began
  notes,         \* memory_events
  made,          \* ids given to memories so far
  read,          \* messages.read_at is set
  copies,        \* rows other tools inserted, by gateway call
  lane, row,     \* the thread_continuity store, and its row of one source
  sheet,         \* oak-sheet.json
  prompts,       \* the files of the prompt sections
  snapshots,     \* .prompt_versions
  packet,        \* the last session answered
  job,           \* what each thread is doing
  met,           \* history: closeouts that overlapped another
  meant,         \* history: the sheet, had the edits come one after another
  good,          \* history: the prompts the last finished edit left
  spoiled,       \* history: sheet edits that overlapped or broke off ("sheet"),
                 \* prompt edits likewise ("prompts", "cut")
  passed,        \* history: sessions under way that a writer has overtaken
  reqs, faults   \* budgets

logVars    == <<closeouts, legacy, state, clock, met>>
rowVars    == <<notes, made, read, copies, lane, row>>
sheetVars  == <<sheet, meant>>
promptVars == <<prompts, snapshots, good>>
historyOf  == <<spoiled, passed>>
storeVars  == <<logVars, rowVars, sheetVars, promptVars, historyOf, packet, job,
                reqs, faults>>

-----------------------------------------------------------------------------
(* Requests *)

Nothing == [at |-> "idle"]
Idle(t) == job[t] = Nothing
At(t, s) == job[t].at = s
Serving(t, tools) == ~Idle(t) /\ job[t].at # "replied" /\ job[t].call.tool \in tools

Go(t, stage, seen) ==
  job' = [job EXCEPT ![t] = [@ EXCEPT !.at = stage, !.seen = seen]]

Replied(t, ok) ==
  [at |-> "replied", for |-> job[t].for, call |-> job[t].call, ok |-> ok]

Blank == [nothing |-> TRUE]

\* An answer to the gateway is kept until the gateway takes it.
Answer(t, ok) ==
  job' = [job EXCEPT ![t] = IF job[t].for = 0 THEN Nothing ELSE Replied(t, ok)]

Begin(t, n, call, stage, seen) ==
  /\ Idle(t) /\ reqs < MaxReqs
  /\ reqs' = reqs + 1
  /\ job' = [job EXCEPT ![t] = [at |-> stage, for |-> n, call |-> call, seen |-> seen]]
  /\ passed' = {x \in passed : x[1] # t}
  /\ UNCHANGED faults

\* A check at the beginning fails: 404 or 503.
Refuse(t, n, call) ==
  /\ n # 0 /\ Idle(t) /\ reqs < MaxReqs
  /\ reqs' = reqs + 1
  /\ job' = [job EXCEPT ![t] = [at |-> "replied", for |-> n, call |-> call, ok |-> FALSE]]
  /\ UNCHANGED <<passed, faults>>

Keep == UNCHANGED <<reqs, faults, passed>>

-----------------------------------------------------------------------------
(* closeout *)

\* created_at is taken before the transaction.
AskCloseout(t, n, c) ==
  LET others == {u \in Threads : At(u, "file")} IN
  /\ Begin(t, n, c, "file", [stamp |-> clock + 1])
  /\ clock' = clock + 1
  /\ met' = IF others = {} THEN met
            ELSE met \cup {clock + 1} \cup {job[u].seen.stamp : u \in others}
  /\ UNCHANGED <<closeouts, legacy, state, rowVars, sheetVars, promptVars, spoiled, packet>>

\* Mutant: compact_state is left to the next closeout.
OlderHandoff(now) == state

\* The text this closeout hands to the next session.
Handoff(now) == now

\* Mutant: the rows are copied.
Copied == legacy

\* Rows of the older log that a closeout leaves where they are.
LeftOver == {}

\* One transaction: the older log is absorbed (its dates are older than any
\* closeout), the closeout inserted, the handoff replaced.  The mirror in
\* closeouts.jsonl cannot fail the request.
FileCloseout(t) ==
  /\ At(t, "file")
  /\ closeouts' = closeouts \cup legacy \cup {job[t].seen.stamp}
  /\ legacy' = LeftOver
  /\ state' = Handoff(job[t].seen.stamp)
  /\ passed' = IF legacy = {} THEN passed
               ELSE passed \cup {<<u, "log">> : u \in {v \in Threads : At(v, "older log")}}
  /\ Answer(t, TRUE)
  /\ UNCHANGED <<clock, met, rowVars, sheetVars, promptVars, spoiled, packet, reqs, faults>>

-----------------------------------------------------------------------------
(* POST /profiles/{id}/session *)

Writers == {t \in Threads : At(t, "write section")}

\* boot: the handoff; the profile row and the memories are left out.
AskSession(t, n, c) ==
  /\ Idle(t) /\ reqs < MaxReqs
  /\ reqs' = reqs + 1
  /\ job' = [job EXCEPT ![t] = [at |-> "sections", for |-> n, call |-> c,
               seen |-> [state |-> state, good |-> good, prompts |-> <<>>]]]
  /\ passed' = {x \in passed : x[1] # t} \cup
               (IF Writers # {} \/ "cut" \in spoiled THEN {<<t, "prompts">>} ELSE {})
  /\ UNCHANGED <<logVars, rowVars, sheetVars, promptVars, spoiled, packet, faults>>

\* One file after the other.
ReadSection(t) ==
  LET s == job[t].seen IN
  /\ At(t, "sections")
  /\ \E x \in Sections \ DOMAIN s.prompts :
       LET read2 == [y \in DOMAIN s.prompts \cup {x} |->
                       IF y = x THEN prompts[x] ELSE s.prompts[y]]
       IN Go(t, IF DOMAIN read2 = Sections THEN "stores" ELSE "sections",
             [s EXCEPT !.prompts = read2])
  /\ UNCHANGED <<logVars, rowVars, sheetVars, promptVars, spoiled, packet>> /\ Keep

\* The list of stores installs thread_continuity.
InstallLane(t) ==
  /\ At(t, "stores")
  /\ lane' = TRUE
  /\ Go(t, "log", job[t].seen)
  /\ UNCHANGED <<logVars, notes, made, read, copies, row, sheetVars, promptVars, spoiled,
                 packet>>
  /\ Keep

Newest(entries) ==
  {e \in entries : Cardinality({f \in entries : f > e}) < LogLimit}

\* Mutant: the older log is read first.
OlderFirst(k) == Newest(IF k = 1 THEN legacy ELSE closeouts)

\* The two statements of recent_session_log.
Statement(k) == Newest(IF k = 1 THEN closeouts ELSE legacy)

\* recent_session_log reads the closeouts ...
ReadLog(t) ==
  LET s == job[t].seen IN
  /\ At(t, "log")
  /\ Go(t, "older log", [state |-> s.state, good |-> s.good, prompts |-> s.prompts,
                         closed |-> Statement(1),
                         past |-> Newest(closeouts \cup legacy)])
  /\ UNCHANGED <<logVars, rowVars, sheetVars, promptVars, spoiled, packet>> /\ Keep

\* ... and, in a second statement, the rows of the older log.
ReadOlderLog(t) ==
  /\ At(t, "older log")
  /\ packet' = [seen |-> job[t].seen, old |-> Statement(2),
                passed |-> {x[2] : x \in {y \in passed : y[1] = t}}]
  /\ passed' = {x \in passed : x[1] # t}
  /\ Answer(t, TRUE)
  /\ UNCHANGED <<logVars, rowVars, sheetVars, promptVars, spoiled, reqs, faults>>

-----------------------------------------------------------------------------
(* Memories, inbox, inserts *)

AskRemember(t, n, c) ==
  /\ Begin(t, n, c, "remember", Blank)
  /\ UNCHANGED <<logVars, rowVars, sheetVars, promptVars, spoiled, packet>>

Remember(t) ==
  /\ At(t, "remember")
  /\ notes' = notes \cup {[id |-> made + 1, of |-> job[t].for, text |-> 0]}
  /\ made' = made + 1
  /\ Answer(t, TRUE)
  /\ UNCHANGED <<logVars, read, copies, lane, row, sheetVars, promptVars, spoiled, packet>>
  /\ Keep

Noted(id) == \E m \in notes : m.id = id

\* update_memory and forget look for the memory first.
AskNote(t, n, c, stage) ==
  /\ IF Noted(c.id) THEN Begin(t, n, c, stage, Blank) ELSE Refuse(t, n, c)
  /\ UNCHANGED <<logVars, rowVars, sheetVars, promptVars, spoiled, packet>>

\* The answer is read again: a memory that is gone by then fails the request.
UpdateMemory(t) ==
  LET c == job[t].call IN
  /\ At(t, "revise")
  /\ notes' = {IF m.id = c.id THEN [m EXCEPT !.text = c.val] ELSE m : m \in notes}
  /\ Answer(t, Noted(c.id))
  /\ UNCHANGED <<logVars, made, read, copies, lane, row, sheetVars, promptVars, spoiled,
                 packet>>
  /\ Keep

Forget(t) ==
  /\ At(t, "forget")
  /\ notes' = {m \in notes : m.id # job[t].call.id}
  /\ Answer(t, TRUE)
  /\ UNCHANGED <<logVars, made, read, copies, lane, row, sheetVars, promptVars, spoiled,
                 packet>>
  /\ Keep

\* send_message and add_records: a row with an id of its own each time.
AskInsert(t, n, c) ==
  /\ Begin(t, n, c, "insert", Blank)
  /\ UNCHANGED <<logVars, rowVars, sheetVars, promptVars, spoiled, packet>>

InsertCopy(t) ==
  /\ At(t, "insert")
  /\ copies' = [copies EXCEPT ![job[t].for] = @ + 1]
  /\ Answer(t, TRUE)
  /\ UNCHANGED <<logVars, notes, made, read, lane, row, sheetVars, promptVars, spoiled,
                 packet>>
  /\ Keep

\* The whole batch is validated, then written in one transaction.
AskMark(t, n, c) ==
  /\ IF c.ids \subseteq Letters THEN Begin(t, n, c, "mark", Blank) ELSE Refuse(t, n, c)
  /\ UNCHANGED <<logVars, rowVars, sheetVars, promptVars, spoiled, packet>>

\* Mutant: the state of a message is toggled.
Toggled(l, flag) == ~read[l]

MarkAs(l, flag) == flag

MarkLetters(t) ==
  LET c == job[t].call IN
  /\ At(t, "mark")
  /\ read' = [l \in Letters |-> IF l \in c.ids THEN MarkAs(l, c.flag) ELSE read[l]]
  /\ Answer(t, TRUE)
  /\ UNCHANGED <<logVars, notes, made, copies, lane, row, sheetVars, promptVars, spoiled,
                 packet>>
  /\ Keep

-----------------------------------------------------------------------------
(* The row of thread_continuity that belongs to one source of The Thread *)

Others == UNCHANGED <<logVars, notes, made, read, copies, sheetVars, promptVars, spoiled,
                      packet>>

\* add_records installs the store when it is missing.
AskUpsert(t, n, c) ==
  /\ Begin(t, n, c, "insert row", [status |-> "active"])
  /\ lane' = TRUE
  /\ UNCHANGED row /\ Others

\* The unique index refuses a second row of the source.
InsertRow(t) ==
  /\ At(t, "insert row")
  /\ IF row = "none"
     THEN row' = job[t].seen.status /\ Answer(t, TRUE)
     ELSE UNCHANGED row /\ Go(t, "find row", job[t].seen)
  /\ UNCHANGED lane /\ Others /\ Keep

\* The row is looked up again, once for its id and once to be merged.
FindRow(t) ==
  /\ At(t, "find row") \/ At(t, "read row")
  /\ IF row = "none" THEN Answer(t, FALSE)
     ELSE Go(t, IF At(t, "find row") THEN "read row" ELSE "write row", job[t].seen)
  /\ UNCHANGED <<lane, row>> /\ Others /\ Keep

WriteRow(t) ==
  /\ At(t, "write row")
  /\ row' = IF row = "none" THEN row ELSE job[t].seen.status
  /\ Answer(t, row # "none")
  /\ UNCHANGED lane /\ Others /\ Keep

\* update_record with a new status, and delete_record.
AskRow(t, n, c, stage) ==
  /\ IF row # "none" THEN Begin(t, n, c, stage, [status |-> "resolved"]) ELSE Refuse(t, n, c)
  /\ UNCHANGED <<lane, row>> /\ Others

DeleteRow(t) ==
  /\ At(t, "drop row")
  /\ row' = "none"
  /\ Answer(t, TRUE)
  /\ UNCHANGED lane /\ Others /\ Keep

-----------------------------------------------------------------------------
(* oak-sheet.json, a file of the companion *)

IsSheet(x) == x # Torn /\ x # Gone

SheetTools == {"update_sheet", "write_file", "delete_file"}

SheetJob(t, n, c, stage, seen) ==
  /\ Begin(t, n, c, stage, seen)
  /\ spoiled' = IF \E u \in Threads : Serving(u, SheetTools) THEN spoiled \cup {"sheet"}
                ELSE spoiled

Elsewhere == UNCHANGED <<logVars, rowVars, promptVars, packet>>

Merged(old, c) == [old EXCEPT ![c.field] = c.val]

\* The sheet is read and merged with the patch; a sheet that is no JSON: 503.
AskUpdateSheet(t, n, c) ==
  /\ IF IsSheet(sheet) THEN SheetJob(t, n, c, "open", [text |-> Merged(sheet, c)])
     ELSE Refuse(t, n, c) /\ UNCHANGED spoiled
  /\ UNCHANGED sheetVars /\ Elsewhere

AskWriteFile(t, n, c) ==
  /\ SheetJob(t, n, c, "open", [text |-> [f \in Fields |-> c.val]])
  /\ UNCHANGED sheetVars /\ Elsewhere

\* write_bytes opens the file, which empties it, ...
OpenFile(t) ==
  /\ At(t, "open")
  /\ sheet' = Torn
  /\ Go(t, "fill", job[t].seen)
  /\ UNCHANGED <<meant, spoiled>> /\ Elsewhere /\ Keep

\* ... and fills it.  After another writer's text that is longer, a tail of it
\* is left behind the new one.
FillFile(t) ==
  LET c == job[t].call IN
  /\ At(t, "fill")
  /\ sheet' \in {job[t].seen.text} \cup (IF sheet = Torn THEN {} ELSE {Torn})
  /\ meant' = IF c.tool = "update_sheet" /\ IsSheet(meant)
              THEN [meant EXCEPT ![c.field] = c.val] ELSE job[t].seen.text
  /\ Answer(t, TRUE)
  /\ UNCHANGED spoiled /\ Elsewhere /\ Keep

\* The file was removed while it was open; its metadata are read afterwards.
FillRemoved(t) ==
  /\ At(t, "fill removed")
  /\ Answer(t, sheet # Gone)
  /\ UNCHANGED <<sheetVars, spoiled>> /\ Elsewhere /\ Keep

AskDeleteFile(t, n, c) ==
  /\ IF sheet # Gone THEN SheetJob(t, n, c, "unlink", Blank)
     ELSE Refuse(t, n, c) /\ UNCHANGED spoiled
  /\ UNCHANGED sheetVars /\ Elsewhere

Unlink(t) ==
  /\ At(t, "unlink")
  /\ sheet' = Gone /\ meant' = Gone
  /\ job' = [u \in Threads |->
               IF u = t THEN IF job[t].for = 0 THEN Nothing ELSE Replied(t, sheet # Gone)
               ELSE IF At(u, "fill") THEN [job[u] EXCEPT !.at = "fill removed"]
               ELSE job[u]]
  /\ UNCHANGED spoiled /\ Elsewhere /\ Keep

-----------------------------------------------------------------------------
(* update_prompts, when an approved edit takes effect *)

Aside == UNCHANGED <<logVars, rowVars, sheetVars, packet>>

PromptTools == {"update_prompts"}

\* Mutant: the sections are overwritten at once.
WithoutSnapshot == "write section"

FirstOfEdit == "snapshot"

AskPrompts(t, n, c) ==
  /\ Begin(t, n, c, FirstOfEdit, [left |-> c.sections])
  /\ spoiled' = IF \E u \in Threads : Serving(u, PromptTools)
                THEN spoiled \cup {"prompts"} ELSE spoiled
  /\ UNCHANGED promptVars /\ Aside

\* "the exact prior file version"
Snapshot(t) ==
  /\ At(t, "snapshot")
  /\ snapshots' = snapshots \cup {prompts}
  /\ Go(t, "write section", job[t].seen)
  /\ UNCHANGED <<prompts, good, spoiled>> /\ Aside /\ Keep

WriteSection(t) ==
  /\ At(t, "write section")
  /\ \E x \in job[t].seen.left :
       /\ prompts' = [prompts EXCEPT ![x] = job[t].call.val]
       /\ IF job[t].seen.left = {x}
          THEN good' = prompts' /\ Answer(t, TRUE)
          ELSE UNCHANGED good /\ Go(t, "write section", [left |-> job[t].seen.left \ {x}])
  /\ passed' = passed \cup {<<u, "prompts">> : u \in {v \in Threads : At(v, "sections")}}
  /\ UNCHANGED <<snapshots, spoiled, reqs, faults>> /\ Aside

-----------------------------------------------------------------------------
(* Interruptions: "database is locked", a kill *)

Interrupt(ts) ==
  /\ faults < MaxFaults
  /\ ts # {} /\ \A t \in ts : ~Idle(t) /\ ~At(t, "replied")
  /\ faults' = faults + 1
  /\ job' = [t \in Threads |-> IF t \notin ts THEN job[t]
                               ELSE IF job[t].for = 0 THEN Nothing ELSE Replied(t, FALSE)]
  /\ spoiled' = spoiled
       \cup {x \in {"sheet"} : \E t \in ts : At(t, "fill")}
       \cup {x \in {"cut"} : \E t \in ts : At(t, "write section")}
  /\ UNCHANGED <<logVars, rowVars, sheetVars, promptVars, passed, packet, reqs>>

\* The request for a call, by tool; tools that read one table are left out.
Serve(t, n, c) ==
  \/ c.tool = "closeout"       /\ AskCloseout(t, n, c)
  \/ c.tool = "summon"         /\ AskSession(t, n, c)
  \/ c.tool = "remember"       /\ AskRemember(t, n, c)
  \/ c.tool = "update_memory"  /\ AskNote(t, n, c, "revise")
  \/ c.tool = "forget"         /\ AskNote(t, n, c, "forget")
  \/ c.tool = "send_message"   /\ AskInsert(t, n, c)
  \/ c.tool = "mark"           /\ AskMark(t, n, c)
  \/ c.tool = "upsert"         /\ AskUpsert(t, n, c)
  \/ c.tool = "resolve"        /\ AskRow(t, n, c, "write row")
  \/ c.tool = "delete_record"  /\ AskRow(t, n, c, "drop row")
  \/ c.tool = "update_sheet"   /\ AskUpdateSheet(t, n, c)
  \/ c.tool = "write_file"     /\ AskWriteFile(t, n, c)
  \/ c.tool = "delete_file"    /\ AskDeleteFile(t, n, c)
  \/ c.tool = "update_prompts" /\ AskPrompts(t, n, c)

Work(t) ==
  \/ FileCloseout(t)
  \/ ReadSection(t) \/ InstallLane(t) \/ ReadLog(t) \/ ReadOlderLog(t)
  \/ Remember(t) \/ UpdateMemory(t) \/ Forget(t) \/ InsertCopy(t) \/ MarkLetters(t)
  \/ InsertRow(t) \/ FindRow(t) \/ WriteRow(t) \/ DeleteRow(t)
  \/ OpenFile(t) \/ FillFile(t) \/ FillRemoved(t) \/ Unlink(t)
  \/ Snapshot(t) \/ WriteSection(t)

=============================================================================
