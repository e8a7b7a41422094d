------------------------------ MODULE PetTurns ------------------------------
(***************************************************************************)
(* The durable life of a Tamagochi text turn: PetTurnService of            *)
(* profile_os/pet_conversations.py.                                        *)
(*                                                                         *)
(* Several server processes share one SQLite file and one lock file.  The  *)
(* threads are: one per submission (an HTTP handler), one executor worker  *)
(* per dispatched turn, cancellations, device revocation, and each         *)
(* process's start and stop.  A committed SQLite transaction is one step;  *)
(* what a thread reads outside a transaction and acts on later is kept in  *)
(* its program counter.  A submission and the turn it may create share an  *)
(* identity, because submit draws the turn's uuid.                         *)
(***************************************************************************)
EXTENDS Naturals, FiniteSets

CONSTANTS
  Procs,         \* server processes with a conversation runtime, one data directory
  NoProc,        \* the holder of a free lock file
  Subs,          \* submissions, and the turns they create
  Convs,         \* conversations
  NoConv,        \* none of them
  Devices,       \* issued devices, each one principal with one credential
  Owner,         \* Owner[c]: the device conversation c belongs to
  Reqs,          \* client request ids
  Texts,         \* what payload_hash tells apart besides the conversation
  MaxWorkers,    \* executor threads per process
  MaxPending,    \* nonterminal turns admitted
  MaxEffects,    \* provider rounds and tool dispatches in one turn
  MaxCrashes,    \* bound: kills of a process in a behaviour
  MaxDbFaults    \* bound: calls of SQLite that fail (database is locked)

ASSUME ConstantsAssumption ==
  /\ NoProc \notin Procs /\ NoConv \notin Convs
  /\ Convs # {} /\ Reqs # {} /\ Texts # {}
  /\ Owner \in [Convs -> Devices]
  /\ IsFiniteSet(Subs)
  /\ MaxWorkers \in Nat \ {0} /\ MaxPending \in Nat \ {0}
  /\ MaxEffects \in Nat /\ MaxCrashes \in Nat /\ MaxDbFaults \in Nat

VARIABLES
  \* the database
  convs,         \* rows of pet_conversations
  auth,          \* auth[d]: device d's credential and grants are in force
  stage,         \* stage[s] of the row of pet_turns, "absent" when there is none
  revision,      \* revision[s] of that row
  \* the lock file and the processes
  flock,         \* the process that holds pet_turns.lock
  proc,          \* proc[p]: where process p is in its life
  \* threads
  sub,           \* sub[s]: program counter of a submission, then its outcome
  arg,           \* arg[s]: the request it carries
  home,          \* home[s]: the process that serves it
  job,           \* job[s]: program counter of the worker that runs turn s
  \* history and budgets
  effects,       \* effects[s]: provider calls and tool dispatches made for turn s
  late,          \* late[s]: those made when s was no longer to be worked on
  crashes, dbFaults

db     == <<convs, auth, stage, revision>>
life   == <<flock, proc>>
thread == <<sub, arg, home, job>>
hist   == <<effects, late>>
vars   == <<db, life, thread, hist, crashes, dbFaults>>

-----------------------------------------------------------------------------
(* Vocabulary *)

NonTerminal == {"accepted", "responding", "cancel_requested"}
Terminal    == {"completed", "failed", "cancelled", "unknown"}
Stages      == NonTerminal \cup Terminal \cup {"absent"}

\* What the admission query counts as an active turn of its conversation.
Occupying == NonTerminal \cup {"unknown"}

Requests == [conv : Convs, req : Reqs, text : Texts]

\* A process is "down", takes the lock and is "starting", serves while "up",
\* has cleared running in "stopping", has cancelled its queue in "draining" and
\* released the lock in "stopped"; "refused" is a start that raised.
Lives == {"down", "starting", "refused", "up", "stopping", "draining", "stopped"}

\* Lives in which handler threads may exist, and those in which running is set.
Serving    == {"up", "stopping", "draining", "stopped"}
Running(p) == proc[p] = "up"

Outcomes == {"created", "existing", "conflict", "denied", "busy", "unavailable",
             "error", "lost"}

\* Submissions that returned nothing yet: past the first reads; row committed;
\* and, holding _lock, after executor.submit raised.
InFlight == {"checked", "inserted", "undispatched"}

\* The worker has read an accepted row; has found the device authorized; has
\* moved the row to responding; is inside runtime.run with or without a fresh
\* checkpoint; has a reply; has found the device authorized again.
Working  == {"started", "authorized", "running", "cleared", "replied", "confirmed"}
\* The handlers: what runtime.run raised, and the verdict of a stopped run.
Handling == {"unavailable", "stopped", "stopCancelled", "stopRevoked",
             "outcomeUnknown", "errored"}
Jobs     == {"none", "queued"} \cup Working \cup Handling

Live(s)       == job[s] \in Working \cup Handling
Device(s)     == Owner[arg[s].conv]
Authorized(s) == auth[Device(s)]

\* Rows under UNIQUE(principal_id, request_id) that request r would collide with.
Stored(r) == {t \in Subs : /\ stage[t] # "absent"
                           /\ arg[t].req = r.req
                           /\ Device(t) = Owner[r.conv]}

SameHash(t, r) == arg[t].conv = r.conv /\ arg[t].text = r.text

PendingTurns == {t \in Subs : stage[t] \in NonTerminal}

\* Mutant: unknown turns do not hold their conversation.
ActiveInForgetsUnknown(c) == {t \in Subs : stage[t] \in NonTerminal /\ arg[t].conv = c}

ActiveIn(c) == {t \in Subs : stage[t] \in Occupying /\ arg[t].conv = c}

-----------------------------------------------------------------------------
(* Row updates *)

Update(s, new) ==
  /\ stage'    = [stage EXCEPT ![s] = new]
  /\ revision' = [revision EXCEPT ![s] = @ + 1]

\* _set with a terminal stage: WHERE stage IN the nonterminal ones.
SetTerminal(s, new) ==
  IF stage[s] \in NonTerminal THEN Update(s, new) ELSE UNCHANGED <<stage, revision>>

SubTo(s, pc) == sub' = [sub EXCEPT ![s] = pc]
JobTo(s, pc) == job' = [job EXCEPT ![s] = pc]

-----------------------------------------------------------------------------
(* Conversations and devices *)

CreateConversation(c) ==
  /\ c \notin convs
  /\ auth[Owner[c]]
  /\ convs' = convs \cup {c}
  /\ UNCHANGED <<auth, stage, revision, life, thread, hist, crashes, dbFaults>>

\* Revocation or expiry of the credential; nothing puts a revoked one back.
Revoke(d) ==
  /\ auth[d]
  /\ auth' = [auth EXCEPT ![d] = FALSE]
  /\ UNCHANGED <<convs, stage, revision, life, thread, hist, crashes, dbFaults>>

-----------------------------------------------------------------------------
(* submit *)

\* The reads before the transaction: ownership, authorization, an earlier row
\* of the same request, and only for a new request whether the service runs.
FirstReads(p, r) ==
  IF r.conv \notin convs \/ ~auth[Owner[r.conv]] THEN "denied"
  ELSE IF Stored(r) # {}
       THEN IF \E t \in Stored(r) : SameHash(t, r) THEN "existing" ELSE "conflict"
  ELSE IF Running(p) THEN "checked" ELSE "unavailable"

SubmitBegin(s, p, r) ==
  /\ sub[s] = "new"
  /\ proc[p] \in Serving
  /\ arg'  = [arg EXCEPT ![s] = r]
  /\ home' = [home EXCEPT ![s] = p]
  /\ SubTo(s, FirstReads(p, r))
  /\ UNCHANGED <<db, life, job, hist, crashes, dbFaults>>

\* Mutant: the queue admits one turn too many.
TransactionOutcomeOffByOne(r) ==
  IF Stored(r) # {}
  THEN IF \E t \in Stored(r) : SameHash(t, r) THEN "existing" ELSE "conflict"
  ELSE IF ActiveIn(r.conv) # {} \/ Cardinality(PendingTurns) > MaxPending THEN "busy"
  ELSE "inserted"

\* Mutant: the request is looked up only before the transaction.
TransactionOutcomeNoRecheck(r) ==
  IF ActiveIn(r.conv) # {} \/ Cardinality(PendingTurns) >= MaxPending
  THEN "busy" ELSE "inserted"

\* BEGIN IMMEDIATE ... COMMIT: the request is looked up again, then the
\* conversation and the queue are counted, then the row is inserted.
TransactionOutcome(r) ==
  IF Stored(r) # {}
  THEN IF \E t \in Stored(r) : SameHash(t, r) THEN "existing" ELSE "conflict"
  ELSE IF ActiveIn(r.conv) # {} \/ Cardinality(PendingTurns) >= MaxPending THEN "busy"
  ELSE "inserted"

SubmitTransaction(s) ==
  /\ sub[s] = "checked"
  /\ SubTo(s, TransactionOutcome(arg[s]))
  /\ IF TransactionOutcome(arg[s]) = "inserted"
     THEN Update(s, "accepted")
     ELSE UNCHANGED <<stage, revision>>
  /\ UNCHANGED <<convs, auth, life, arg, home, job, hist, crashes, dbFaults>>

\* _lock is held across a step only while executor.submit's failure is handled.
LockFree(p) == \A s \in Subs : home[s] = p => sub[s] # "undispatched"

\* With _lock: hand the turn to the executor, which may raise after it queued
\* the work item (no thread could be started).
Dispatch(s) ==
  /\ sub[s] = "inserted"
  /\ LockFree(home[s])
  /\ Running(home[s])
  /\ JobTo(s, "queued")
  /\ \/ SubTo(s, "created")
     \/ SubTo(s, "undispatched")
  /\ UNCHANGED <<db, life, arg, home, hist, crashes, dbFaults>>

\* With _lock: the service stopped between the insert and the dispatch.
DispatchAfterStop(s) ==
  /\ sub[s] = "inserted"
  /\ LockFree(home[s])
  /\ ~Running(home[s])
  /\ SetTerminal(s, "unknown")
  /\ SubTo(s, "unavailable")
  /\ UNCHANGED <<convs, auth, life, arg, home, job, hist, crashes, dbFaults>>

DispatchFailed(s) ==
  /\ sub[s] = "undispatched"
  /\ SetTerminal(s, "unknown")
  /\ SubTo(s, "unavailable")
  /\ UNCHANGED <<convs, auth, life, arg, home, job, hist, crashes, dbFaults>>

\* A write of submit fails; no handler repairs a row that is already there.
SubmitWriteFails(s) ==
  /\ dbFaults < MaxDbFaults
  /\ \/ sub[s] \in {"checked", "undispatched"}
     \/ sub[s] = "inserted" /\ LockFree(home[s]) /\ ~Running(home[s])
  /\ SubTo(s, "error")
  /\ dbFaults' = dbFaults + 1
  /\ UNCHANGED <<db, life, arg, home, job, hist, crashes>>

SubmitStep(s) ==
  \/ SubmitTransaction(s) \/ Dispatch(s) \/ DispatchAfterStop(s) \/ DispatchFailed(s)

-----------------------------------------------------------------------------
(* cancel: an accepted turn is cancelled, a responding one is asked to stop *)

\* Mutant: a responding turn is reported cancelled at once.
CancelAtOnce(s) ==
  /\ stage[s] \in {"accepted", "responding"}
  /\ Authorized(s)
  /\ Update(s, "cancelled")
  /\ UNCHANGED <<convs, auth, life, thread, hist, crashes, dbFaults>>

Cancel(s) ==
  /\ stage[s] # "absent"
  /\ Authorized(s)
  /\ \/ stage[s] = "accepted"   /\ Update(s, "cancelled")
     \/ stage[s] = "responding" /\ Update(s, "cancel_requested")
  /\ UNCHANGED <<convs, auth, life, thread, hist, crashes, dbFaults>>

-----------------------------------------------------------------------------
(* _run, on an executor thread *)

Busy(p) == {s \in Subs : home[s] = p /\ Live(s)}

RunStart(s) ==
  /\ job[s] = "queued"
  /\ Cardinality(Busy(home[s])) < MaxWorkers
  /\ JobTo(s, IF stage[s] = "accepted" THEN "started" ELSE "none")
  /\ UNCHANGED <<db, life, sub, arg, home, hist, crashes, dbFaults>>

\* Both authorization checks of _run, before the row is claimed and before the
\* reply is committed.  Revocation is final, so a check that fails and the
\* write that follows it are one step.
CheckAuthorized(s, from, to) ==
  /\ job[s] = from
  /\ IF Authorized(s)
     THEN JobTo(s, to) /\ UNCHANGED <<stage, revision>>
     ELSE JobTo(s, "none") /\ SetTerminal(s, "failed")
  /\ UNCHANGED <<convs, auth, life, sub, arg, home, hist, crashes, dbFaults>>

RunAuthorize(s)   == CheckAuthorized(s, "started", "authorized")
RunReauthorize(s) == CheckAuthorized(s, "replied", "confirmed")

\* UPDATE ... SET stage='responding' WHERE stage='accepted'.
RunClaim(s) ==
  /\ job[s] = "authorized"
  /\ IF stage[s] = "accepted"
     THEN Update(s, "responding") /\ JobTo(s, "running")
     ELSE JobTo(s, "none") /\ UNCHANGED <<stage, revision>>
  /\ UNCHANGED <<convs, auth, life, sub, arg, home, hist, crashes, dbFaults>>

\* The checkpoint closure passed to the runtime, which raises RuntimeStopped
\* when it answers FALSE.
MayContinue(s) == stage[s] = "responding" /\ Authorized(s)

\* Mutant: the checkpoint does not look at the row.
RunCheckpointIgnoresStage(s) ==
  /\ job[s] = "running"
  /\ JobTo(s, IF Authorized(s) THEN "cleared" ELSE "stopped")
  /\ UNCHANGED <<db, life, sub, arg, home, hist, crashes, dbFaults>>

RunCheckpoint(s) ==
  /\ job[s] = "running"
  /\ JobTo(s, IF MayContinue(s) THEN "cleared" ELSE "stopped")
  /\ UNCHANGED <<db, life, sub, arg, home, hist, crashes, dbFaults>>

\* A provider round or a tool dispatch, made right after a checkpoint.
RunEffect(s) ==
  /\ job[s] = "cleared"
  /\ effects[s] < MaxEffects
  /\ JobTo(s, "running")
  /\ effects' = [effects EXCEPT ![s] = @ + 1]
  /\ late'    = [late EXCEPT ![s] = IF MayContinue(s) THEN @ ELSE @ + 1]
  /\ UNCHANGED <<db, life, sub, arg, home, crashes, dbFaults>>

\* runtime.run returns, or raises something other than RuntimeStopped; an
\* unusable reply raises too.
RunEnds(s) ==
  /\ job[s] \in {"running", "cleared"}
  /\ \E end \in {"replied", "unavailable", "outcomeUnknown", "errored"} : JobTo(s, end)
  /\ UNCHANGED <<db, life, sub, arg, home, hist, crashes, dbFaults>>

\* Mutant: the reply is committed without reading the row again.
RunCommitBlind(s) ==
  /\ job[s] = "confirmed"
  /\ SetTerminal(s, "completed")
  /\ JobTo(s, "none")
  /\ UNCHANGED <<convs, auth, life, sub, arg, home, hist, crashes, dbFaults>>

\* BEGIN IMMEDIATE: a pending cancellation wins over the reply.
RunCommit(s) ==
  /\ job[s] = "confirmed"
  /\ \/ stage[s] = "cancel_requested" /\ Update(s, "cancelled")
     \/ stage[s] = "responding"       /\ Update(s, "completed")
     \/ stage[s] \notin {"cancel_requested", "responding"} /\ UNCHANGED <<stage, revision>>
  /\ JobTo(s, "none")
  /\ UNCHANGED <<convs, auth, life, sub, arg, home, hist, crashes, dbFaults>>

\* RuntimeStopped is handled by a read that picks the verdict ...
RunStopped(s) ==
  /\ job[s] = "stopped"
  /\ JobTo(s, CASE stage[s] = "cancel_requested" -> "stopCancelled"
                [] stage[s] \in Terminal         -> "none"
                [] OTHER                         -> "stopRevoked")
  /\ UNCHANGED <<db, life, sub, arg, home, hist, crashes, dbFaults>>

\* Mutant: a verdict that is not a stage.
VerdictUnknownName == [unavailable   |-> "unavailable", stopCancelled  |-> "cancelled",
                       stopRevoked   |-> "failed",      outcomeUnknown |-> "unknown",
                       errored       |-> "failed"]

\* ... and a later guarded write, as every other exception is.
Verdict == [unavailable   |-> "failed",    stopCancelled  |-> "cancelled",
            stopRevoked   |-> "failed",    outcomeUnknown |-> "unknown",
            errored       |-> "failed"]

RunHandle(s) ==
  /\ job[s] \in DOMAIN Verdict
  /\ SetTerminal(s, Verdict[job[s]])
  /\ JobTo(s, "none")
  /\ UNCHANGED <<convs, auth, life, sub, arg, home, hist, crashes, dbFaults>>

\* A read or write fails: inside the try block `except Exception' takes over,
\* inside a handler the worker ends and leaves the row as it is.
RunDbFails(s) ==
  /\ dbFaults < MaxDbFaults
  /\ \/ job[s] \in {"started", "authorized", "replied", "confirmed"} /\ JobTo(s, "errored")
     \/ job[s] \in {"stopped"} \cup DOMAIN Verdict /\ JobTo(s, "none")
  /\ dbFaults' = dbFaults + 1
  /\ UNCHANGED <<db, life, sub, arg, home, hist, crashes>>

RunStep(s) ==
  \/ RunStart(s)  \/ RunAuthorize(s)   \/ RunClaim(s)  \/ RunCheckpoint(s)
  \/ RunEffect(s) \/ RunReauthorize(s) \/ RunCommit(s) \/ RunStopped(s)
  \/ RunHandle(s)

-----------------------------------------------------------------------------
(* start and stop *)

ProcTo(p, life_) == proc' = [proc EXCEPT ![p] = life_]

\* Mutant: stop releases the lock file without holding it.
UnlockedAlways(p) == NoProc

\* LOCK_UN, only by a process whose _flock is set; the kernel does the same
\* when a process dies.
Unlocked(p) == IF flock = p THEN NoProc ELSE flock

\* flock(LOCK_EX | LOCK_NB)
Start(p) ==
  /\ proc[p] = "down"
  /\ flock = NoProc
  /\ flock' = p
  /\ ProcTo(p, "starting")
  /\ UNCHANGED <<db, thread, hist, crashes, dbFaults>>

StartRefused(p) ==
  /\ proc[p] = "down"
  /\ flock # NoProc
  /\ ProcTo(p, "refused")
  /\ UNCHANGED <<db, flock, thread, hist, crashes, dbFaults>>

\* Mutant: accepted turns are left for somebody to resume.
RecoverKeepsAccepted(p) ==
  /\ proc[p] = "starting"
  /\ stage'    = [s \in Subs |-> IF stage[s] \in NonTerminal \ {"accepted"}
                                 THEN "unknown" ELSE stage[s]]
  /\ revision' = [s \in Subs |-> IF stage[s] \in NonTerminal \ {"accepted"}
                                 THEN revision[s] + 1 ELSE revision[s]]
  /\ ProcTo(p, "up")
  /\ UNCHANGED <<convs, auth, flock, thread, hist, crashes, dbFaults>>

\* The lock holder gives up every turn a previous process left unfinished.
Recover(p) ==
  /\ proc[p] = "starting"
  /\ stage'    = [s \in Subs |-> IF stage[s] \in NonTerminal THEN "unknown" ELSE stage[s]]
  /\ revision' = [s \in Subs |-> IF stage[s] \in NonTerminal THEN revision[s] + 1
                                                             ELSE revision[s]]
  /\ ProcTo(p, "up")
  /\ UNCHANGED <<convs, auth, flock, thread, hist, crashes, dbFaults>>

RecoverFails(p) ==
  /\ proc[p] = "starting"
  /\ dbFaults < MaxDbFaults
  /\ dbFaults' = dbFaults + 1
  /\ ProcTo(p, "refused")
  /\ UNCHANGED <<db, flock, thread, hist, crashes>>

\* The lifespan's finally runs stop after a start that raised: there is no
\* thread to wait for, and the process exits.
StopRefused(p) ==
  /\ proc[p] = "refused"
  /\ flock' = Unlocked(p)
  /\ ProcTo(p, "down")
  /\ UNCHANGED <<db, thread, hist, crashes, dbFaults>>

StopBegin(p) ==
  /\ proc[p] = "up"
  /\ LockFree(p)
  /\ ProcTo(p, "stopping")
  /\ UNCHANGED <<db, flock, thread, hist, crashes, dbFaults>>

\* shutdown(cancel_futures=True): queued turns are dropped, rows untouched.
StopCancelQueue(p) ==
  /\ proc[p] = "stopping"
  /\ job' = [s \in Subs |-> IF home[s] = p /\ job[s] = "queued" THEN "none" ELSE job[s]]
  /\ ProcTo(p, "draining")
  /\ UNCHANGED <<db, flock, sub, arg, home, hist, crashes, dbFaults>>

\* shutdown(wait=True) returned; the lock is released last.
StopFinish(p) ==
  /\ proc[p] = "draining"
  /\ Busy(p) = {}
  /\ flock' = Unlocked(p)
  /\ ProcTo(p, "stopped")
  /\ UNCHANGED <<db, thread, hist, crashes, dbFaults>>

\* The interpreter joins the handler threads before it exits.
Exit(p) ==
  /\ proc[p] = "stopped"
  /\ \A s \in Subs : home[s] = p => sub[s] \notin InFlight
  /\ ProcTo(p, "down")
  /\ UNCHANGED <<db, flock, thread, hist, crashes, dbFaults>>

\* A kill: every thread of the process is gone, the kernel drops its lock.
Crash(p) ==
  /\ crashes < MaxCrashes
  /\ proc[p] # "down"
  /\ ProcTo(p, "down")
  /\ flock'   = Unlocked(p)
  /\ sub'     = [s \in Subs |-> IF home[s] = p /\ sub[s] \in InFlight THEN "lost" ELSE sub[s]]
  /\ job'     = [s \in Subs |-> IF home[s] = p THEN "none" ELSE job[s]]
  /\ crashes' = crashes + 1
  /\ UNCHANGED <<db, arg, home, hist, dbFaults>>

LifeStep(p) ==
  \/ Start(p) \/ Recover(p) \/ StopRefused(p)
  \/ StopCancelQueue(p) \/ StopFinish(p) \/ Exit(p)

-----------------------------------------------------------------------------
(* Specification *)

Init ==
  /\ convs = {}
  /\ auth     = [d \in Devices |-> TRUE]
  /\ stage    = [s \in Subs |-> "absent"]
  /\ revision = [s \in Subs |-> 0]
  /\ flock = NoProc
  /\ proc = [p \in Procs |-> "down"]
  /\ sub  = [s \in Subs |-> "new"]
  /\ arg  = [s \in Subs |-> CHOOSE r \in Requests : TRUE]
  /\ home = [s \in Subs |-> NoProc]
  /\ job  = [s \in Subs |-> "none"]
  /\ effects = [s \in Subs |-> 0]
  /\ late    = [s \in Subs |-> 0]
  /\ crashes = 0 /\ dbFaults = 0

Next ==
  \/ \E c \in Convs : CreateConversation(c)
  \/ \E d \in Devices : Revoke(d)
  \/ \E s \in Subs : \/ \E p \in Procs, r \in Requests : SubmitBegin(s, p, r)
                     \/ SubmitStep(s) \/ SubmitWriteFails(s)
                     \/ Cancel(s)
                     \/ RunStep(s) \/ RunEnds(s) \/ RunDbFails(s)
  \/ \E p \in Procs : \/ LifeStep(p) \/ StartRefused(p) \/ RecoverFails(p)
                      \/ StopBegin(p) \/ Crash(p)

Spec == Init /\ [][Next]_vars

\* The scheduler runs every thread that can run, runtime.run ends (its deadline
\* is 90 seconds), and a service that is down is started again in the end.
Fairness ==
  /\ \A s \in Subs : WF_vars(SubmitStep(s)) /\ WF_vars(RunStep(s)) /\ WF_vars(RunEnds(s))
  /\ \A p \in Procs : WF_vars(LifeStep(p))

FairSpec == Spec /\ Fairness

-----------------------------------------------------------------------------
(* Properties *)

\* Every variable has the values its declaration promises.
TypeOK ==
  /\ convs \subseteq Convs
  /\ auth \in [Devices -> BOOLEAN]
  /\ stage \in [Subs -> Stages]
  /\ revision \in [Subs -> Nat]
  /\ flock \in Procs \cup {NoProc}
  /\ proc \in [Procs -> Lives]
  /\ sub \in [Subs -> {"new"} \cup InFlight \cup Outcomes]
  /\ arg \in [Subs -> Requests]
  /\ home \in [Subs -> Procs \cup {NoProc}]
  /\ job \in [Subs -> Jobs]
  /\ effects \in [Subs -> 0 .. MaxEffects]
  /\ late \in [Subs -> Nat]
  /\ crashes \in 0 .. MaxCrashes
  /\ dbFaults \in 0 .. MaxDbFaults

\* A conversation never has two turns that are active or unresolved, whichever
\* processes admitted them and however they were interrupted (submit, line 174).
OneActiveTurn ==
  \A s, t \in Subs : /\ s # t
                     /\ stage[s] \in Occupying
                     /\ stage[t] \in Occupying
                     => arg[s].conv # arg[t].conv

\* The queue cap holds for the whole database, not only per process (line 176).
QueueBounded == Cardinality(PendingTurns) <= MaxPending

\* Two submissions of one request never both become rows: the INSERT cannot
\* meet the UNIQUE(principal_id, request_id) constraint (lines 166-173).
OneRowPerRequest ==
  \A s, t \in Subs : /\ s # t
                     /\ stage[s] # "absent"
                     /\ stage[t] # "absent"
                     => Device(s) # Device(t) \/ arg[s].req # arg[t].req

\* A repeat of a stored request is answered from its row, never refused as if
\* it were a second turn of the conversation (lines 153-157 and 166-173).
RepeatIsNotRefused ==
  [][\A s \in Subs : sub[s] # "busy" /\ sub'[s] = "busy" => Stored(arg[s]) = {}]_vars

\* Work belongs to the process that owns the lock file, so a recovery never
\* declares unknown a turn that another process is still executing (lines
\* 67-79 and 81-99).
WorkersHoldLock ==
  \A s \in Subs : job[s] # "none" => /\ flock = home[s]
                                     /\ proc[home[s]] \in {"up", "stopping", "draining"}

\* After cancellation, revocation or a verdict at most one more provider call
\* or tool dispatch is made: the one whose checkpoint had just passed.
AtMostOneLateEffect == \A s \in Subs : late[s] <= 1

\* A submission has no row before its transaction (an induction hypothesis).
RowAfterTransaction == \A s \in Subs : sub[s] \in {"new", "checked"} => stage[s] = "absent"

\* Induction hypotheses of the proofs about work, clause by clause.
LockIsHeld ==
  \A p \in Procs : proc[p] \in {"starting", "up", "stopping", "draining"} => flock = p

\* A turn is given to a worker once, and only after its row is there.
WorkFollowsDispatch ==
  \A s \in Subs :
    /\ sub[s] \in {"new", "checked", "inserted"} => job[s] = "none" /\ late[s] = 0
    /\ sub[s] # "new" => home[s] \in Procs
    /\ sub[s] = "inserted" => stage[s] # "absent"
    /\ job[s] # "none" => stage[s] # "absent"

\* No work item is left when the queue was cancelled, and no work at all when
\* the lock was given back.
WorkIsServed ==
  \A s \in Subs : job[s] # "none" =>
    /\ home[s] \in Procs
    /\ proc[home[s]] \in {"up", "stopping", "draining"}
    /\ proc[home[s]] = "draining" => job[s] # "queued"

\* What the row can say at each place of the worker.
StageOfWork ==
  \A s \in Subs :
    /\ sub[s] = "inserted" \/ job[s] \in {"queued", "started", "authorized"}
         => stage[s] \notin {"responding", "cancel_requested"}
    /\ job[s] \in {"running", "cleared", "replied", "confirmed"}
         => stage[s] \in {"responding", "cancel_requested", "unknown"}
    /\ job[s] = "stopCancelled" => stage[s] \in {"cancel_requested"} \cup Terminal

\* After a late effect no checkpoint lets another one pass.
LateIsLast ==
  \A s \in Subs : late[s] # 0 =>
    /\ late[s] = 1
    /\ job[s] \notin {"queued", "started", "authorized", "cleared"}
    /\ job[s] = "running" => ~MayContinue(s)

WorkInv ==
  LockIsHeld /\ WorkFollowsDispatch /\ WorkIsServed /\ StageOfWork /\ LateIsLast

\* Once a client may read completed, failed or cancelled, no worker is still
\* inside the runtime or holding a reply for that turn.
VerdictEndsWork ==
  \A s \in Subs : stage[s] \in {"completed", "failed", "cancelled"}
                  => job[s] \notin {"running", "cleared", "replied", "confirmed"}

\* While the service is up every unfinished turn has a thread that will finish
\* it.  (Of one process, and when no call of SQLite fails: see the README.)
NoOrphanedTurn ==
  \A s \in Subs : /\ stage[s] \in NonTerminal
                  /\ \E p \in Procs : proc[p] = "up"
                  => job[s] # "none" \/ sub[s] \in InFlight

\* An accepted turn does not stay unfinished for ever.
EveryTurnSettles ==
  \A s \in Subs : stage[s] \in NonTerminal ~> stage[s] \in Terminal

\* Seen through its rows, the service does what TurnContract promises.
Contract == INSTANCE TurnContract
              WITH Turns  <- Subs,
                   convOf <- [s \in Subs |-> IF stage[s] = "absent" THEN NoConv
                                                                    ELSE arg[s].conv]

\* Every step of the service is a step of the contract or leaves rows alone.
ImplementsContract == Contract!ContractSpec
=============================================================================
