------------------------------ MODULE ToolCalls ------------------------------
(***************************************************************************)
(* Tool calls of a model through the MCP service                           *)
(* (profile_os/mcp_server.py, profile_os/bridge.py) upon the store of a    *)
(* companion, next to other clients of the same backend.                   *)
(*                                                                         *)
(* The MCP endpoint runs one tool call at a time: the bridge waits for the *)
(* backend, with a timeout, and an answer may be lost on its way back.     *)
(* A request whose bridge has given up goes on.  The model then repeats    *)
(* the call, or does something else.                                       *)
(***************************************************************************)
EXTENDS ContinuityStore, Sequences

CONSTANTS
  GatewayCalls,  \* calls a model makes
  DirectCalls,   \* calls of other clients: agents, wake workers, approvals
  Nobody,        \* no request
  MaxCalls,      \* bound: calls of the model
  MaxTries       \* bound: tries of a call

\* What the body of a request is checked to hold.
Conforms(c) ==
  /\ c.tool = "mark" => c.flag \in BOOLEAN
  /\ c.tool \in {"update_memory", "update_sheet", "write_file", "update_prompts"} =>
       c.val \in Values
  /\ c.tool = "update_sheet" => c.field \in Fields
  /\ c.tool = "update_prompts" => c.sections \subseteq Sections

ASSUME CallsAssumption ==
  /\ Nobody \notin Threads
  /\ MaxCalls \in Nat /\ MaxTries \in Nat
  /\ \A c \in GatewayCalls \cup DirectCalls : Conforms(c)

VARIABLES
  calls,         \* history: calls of the model, with their tries and answers
  waiting        \* the thread whose answer the gateway waits for

vars == <<storeVars, calls, waiting>>

-----------------------------------------------------------------------------
(* What a call touches *)

Touches(c) ==
  CASE c.tool \in {"send_message", "remember"}                 -> "insert"
    [] c.tool \in {"update_memory", "forget"}                  -> "note"
    [] c.tool = "mark"                                         -> "inbox"
    [] c.tool \in {"upsert", "resolve", "delete_record"}       -> "row"
    [] c.tool \in SheetTools                                   -> "sheet"
    [] c.tool = "update_prompts"                               -> "prompts"
    [] c.tool \in {"closeout", "summon"}                       -> "session"

\* Another request upon the same thing is being served.
Crowded(n, c) ==
  \E t \in Threads : ~Idle(t) /\ job[t].for # n /\ Touches(job[t].call) = Touches(c)

-----------------------------------------------------------------------------
(* The gateway *)

LastCall == Len(calls)
Free(t) == waiting = Nobody /\ Idle(t)

\* tools/call: the runner calls the bridge, the bridge the backend.
Call(t, c) ==
  /\ Free(t) /\ LastCall < MaxCalls
  /\ Serve(t, LastCall + 1, c)
  /\ calls' = Append(calls, [call |-> c, tries |-> 1, said |-> "nothing",
                             alone |-> ~Crowded(LastCall + 1, c)])
  /\ waiting' = t

\* The same call again, after an error or without an answer.
Retry(t) ==
  LET n == LastCall IN
  /\ Free(t) /\ n > 0
  /\ calls[n].said # "ok" /\ calls[n].tries < MaxTries
  /\ Serve(t, n, calls[n].call)
  /\ calls' = [calls EXCEPT ![n].tries = @ + 1, ![n].said = "nothing"]
  /\ waiting' = t

Collect(t) ==
  /\ At(t, "replied")
  /\ job' = [job EXCEPT ![t] = Nothing]
  /\ UNCHANGED <<logVars, rowVars, sheetVars, promptVars, historyOf, packet, reqs>>

\* A result, or the error of the backend as an error of the tool.
Deliver(t) ==
  /\ t = waiting /\ Collect(t)
  /\ calls' = [calls EXCEPT ![job[t].for].said = IF job[t].ok THEN "ok" ELSE "error"]
  /\ waiting' = Nobody
  /\ UNCHANGED faults

\* The answer does not reach the model.
LoseAnswer(t) ==
  /\ t = waiting /\ faults < MaxFaults
  /\ Collect(t)
  /\ faults' = faults + 1
  /\ waiting' = Nobody
  /\ UNCHANGED calls

\* The bridge's client times out; the exception is none the runner handles.
GiveUp ==
  /\ waiting # Nobody /\ ~At(waiting, "replied") /\ faults < MaxFaults
  /\ faults' = faults + 1
  /\ waiting' = Nobody
  /\ UNCHANGED <<logVars, rowVars, sheetVars, promptVars, historyOf, packet, job, reqs,
                 calls>>

\* An answer nobody waits for any more.
DropAnswer(t) ==
  /\ t # waiting /\ Collect(t)
  /\ UNCHANGED <<faults, calls, waiting>>

-----------------------------------------------------------------------------
(* Other clients *)

Direct(t, c) ==
  /\ Serve(t, 0, c)
  /\ calls' = [n \in DOMAIN calls |->
                [calls[n] EXCEPT !.alone = @ /\ Touches(calls[n].call) # Touches(c)]]
  /\ UNCHANGED waiting

Init ==
  /\ closeouts = {} /\ legacy = 1 .. OldEntries /\ state = 0 /\ clock = OldEntries
  /\ notes = {[id |-> 1, of |-> 0, text |-> 0]} /\ made = 1
  /\ read = [l \in Letters |-> FALSE]
  /\ copies = [n \in 0 .. MaxCalls |-> 0]
  /\ lane = FALSE /\ row = "none"
  /\ sheet = [f \in Fields |-> 0] /\ meant = sheet
  /\ prompts = [x \in Sections |-> 0] /\ good = prompts /\ snapshots = {}
  /\ packet = Nothing
  /\ job = [t \in Threads |-> Nothing]
  /\ met = {} /\ spoiled = {} /\ passed = {}
  /\ reqs = 0 /\ faults = 0
  /\ calls = <<>> /\ waiting = Nobody

Next ==
  \/ \E t \in Threads :
       \/ \E c \in GatewayCalls : Call(t, c)
       \/ \E c \in DirectCalls : Direct(t, c)
       \/ Retry(t)
       \/ Deliver(t) \/ LoseAnswer(t) \/ DropAnswer(t)
       \/ Work(t) /\ UNCHANGED <<calls, waiting>>
  \/ GiveUp
  \/ \E ts \in SUBSET Threads : Interrupt(ts) /\ UNCHANGED <<calls, waiting>>

Spec == Init /\ [][Next]_vars

-----------------------------------------------------------------------------
(* Properties *)

Patch == [Fields -> Values \cup {0}]
Texts == [Sections -> Values \cup {0}]

\* Tables, files, requests and calls hold what the code can put there; a row of
\* thread_continuity has its store, and the gateway waits for a request of the
\* last call.
TypeOK ==
  /\ closeouts \subseteq 1 .. clock /\ legacy \subseteq 1 .. OldEntries
  /\ closeouts \cap legacy = {}
  /\ state \in {0} \cup closeouts
  /\ \A m, k \in notes : m.id = k.id => m = k
  /\ made \in Nat /\ \A m \in notes : m.id \in 1 .. made
  /\ read \in [Letters -> BOOLEAN]
  /\ copies \in [0 .. MaxCalls -> Nat]
  /\ row \in {"none", "active", "resolved"} /\ (row # "none" => lane)
  /\ sheet \in Patch \cup {Torn, Gone} /\ meant \in Patch \cup {Gone}
  /\ prompts \in Texts /\ good \in Texts /\ snapshots \subseteq Texts
  /\ waiting # Nobody => job[waiting].for = LastCall /\ LastCall > 0

\* The text the next session starts from is that of the latest closeout in the
\* log, unless that closeout overlapped another: created_at is taken before the
\* transaction, so the two may be committed the other way round.
HandoffIsNewest ==
  state \in met \/ \A e \in closeouts : e <= state

\* However a closeout absorbs the older log while a session is assembled, no
\* entry is shown twice; and an entry is missing only if that happened between
\* the two reads.
LogShowsOnce ==
  packet # Nothing =>
    /\ packet.seen.closed \cap packet.old = {}
    /\ "log" \notin packet.passed =>
         Newest(packet.seen.closed \cup packet.old) = packet.seen.past

\* When no edit is writing, the sheet is what its edits one after another would
\* have left, unless two requests upon it overlapped or one broke off in the
\* middle of the file.
EditsAreKept ==
  "sheet" \in spoiled \/ (\E t \in Threads : At(t, "fill")) \/ sheet = meant

\* While no two edits of the prompts overlap, what the last finished edit left
\* is in place or in a snapshot, also when an edit is killed half way; and a
\* session that met no edit has exactly that.
PromptsAreWhole ==
  /\ "prompts" \in spoiled \/ prompts = good \/ good \in snapshots
  /\ packet # Nothing =>
       "prompts" \in packet.passed \/ packet.seen.prompts = packet.seen.good

Inserted(n) == copies[n] + Cardinality({m \in notes : m.of = n})

\* What an idempotent call leaves.
Effect(c) ==
  CASE c.tool = "mark"          -> \A l \in c.ids : read[l] = c.flag
    [] c.tool = "upsert"        -> row = "active"
    [] c.tool = "resolve"       -> row = "resolved"
    [] c.tool = "delete_record" -> row = "none"
    [] c.tool = "update_memory" -> \E m \in notes : m.id = c.id /\ m.text = c.val
    [] c.tool = "forget"        -> ~Noted(c.id)
    [] OTHER                    -> TRUE

\* A call that inserts leaves at most one row per try, and one at least when it
\* was answered; the last call that sets a state and was answered has that
\* state, in however many tries and with earlier ones still running, when
\* nobody else called upon the same thing.
RetriesAreSafe ==
  \A n \in DOMAIN calls :
    LET k == calls[n] IN
    /\ Inserted(n) <= k.tries
    /\ k.said = "ok" /\ k.call.tool = "send_message" => copies[n] > 0
    /\ n = LastCall /\ k.said = "ok" /\ k.alone => Effect(k.call)

=============================================================================
