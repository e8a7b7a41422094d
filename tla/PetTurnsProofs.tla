--------------------------- MODULE PetTurnsProofs ---------------------------
(***************************************************************************)
(* Proofs, for every value of the constants, of type correctness and of    *)
(* the safety invariants of PetTurns.                                      *)
(***************************************************************************)
EXTENDS PetTurns, FiniteSetTheorems, TLAPS

\* The verdict a handler writes is a terminal stage.
LEMMA VerdictTerminal ==
  ASSUME NEW j \in DOMAIN Verdict
  PROVE  Verdict[j] \in Terminal
BY DEF Verdict, Terminal

LEMMA RequestsNonEmpty == \E r \in Requests : TRUE
<1>1. PICK c \in Convs, r \in Reqs, x \in Texts : TRUE
  BY ConstantsAssumption
<1>2. [conv |-> c, req |-> r, text |-> x] \in Requests
  BY DEF Requests
<1>3. QED
  BY <1>2

-----------------------------------------------------------------------------
(* Type correctness *)

LEMMA UpdateType ==
  ASSUME TypeOK, NEW s \in Subs, NEW new \in Stages, Update(s, new)
  PROVE  stage' \in [Subs -> Stages] /\ revision' \in [Subs -> Nat]
BY DEF TypeOK, Update

LEMMA SetTerminalType ==
  ASSUME TypeOK, NEW s \in Subs, NEW new \in Terminal, SetTerminal(s, new)
  PROVE  stage' \in [Subs -> Stages] /\ revision' \in [Subs -> Nat]
<1>1. CASE stage[s] \in NonTerminal
  BY <1>1, UpdateType DEF SetTerminal, Stages
<1>2. CASE stage[s] \notin NonTerminal
  BY <1>2 DEF SetTerminal, TypeOK
<1>3. QED
  BY <1>1, <1>2

LEMMA InitType == Init => TypeOK
<1>1. ASSUME Init
      PROVE  TypeOK
  <2>1. (CHOOSE r \in Requests : TRUE) \in Requests
    BY RequestsNonEmpty
  <2>2. arg \in [Subs -> Requests]
    BY <1>1, <2>1 DEF Init
  <2>3. stage \in [Subs -> Stages] /\ revision \in [Subs -> Nat]
    BY <1>1 DEF Init, Stages
  <2>4. sub \in [Subs -> {"new"} \cup InFlight \cup Outcomes] /\ job \in [Subs -> Jobs]
    BY <1>1 DEF Init, Jobs
  <2>5. effects \in [Subs -> 0 .. MaxEffects] /\ late \in [Subs -> Nat]
    BY <1>1, ConstantsAssumption DEF Init
  <2>6. QED
    BY <1>1, <2>2, <2>3, <2>4, <2>5, ConstantsAssumption DEF Init, TypeOK, Lives
<1>2. QED
  BY <1>1

LEMMA StepType == TypeOK /\ [Next]_vars => TypeOK'
<1> SUFFICES ASSUME TypeOK, [Next]_vars
             PROVE  TypeOK'
  OBVIOUS
<1> USE DEF db, life, thread, hist
<1>1. ASSUME NEW c \in Convs, CreateConversation(c)
      PROVE  TypeOK'
  BY <1>1 DEF TypeOK, CreateConversation
<1>2. ASSUME NEW d \in Devices, Revoke(d)
      PROVE  TypeOK'
  BY <1>2 DEF TypeOK, Revoke
<1>3. ASSUME NEW s \in Subs, NEW p \in Procs, NEW r \in Requests, SubmitBegin(s, p, r)
      PROVE  TypeOK'
  <2>1. FirstReads(p, r) \in InFlight \cup Outcomes
    BY DEF FirstReads, InFlight, Outcomes
  <2>2. QED
    BY <1>3, <2>1 DEF TypeOK, SubmitBegin, SubTo
<1>4. ASSUME NEW s \in Subs, SubmitTransaction(s)
      PROVE  TypeOK'
  <2>1. TransactionOutcome(arg[s]) \in InFlight \cup Outcomes
    BY DEF TransactionOutcome, InFlight, Outcomes
  <2>2. sub' \in [Subs -> {"new"} \cup InFlight \cup Outcomes]
    BY <1>4, <2>1 DEF TypeOK, SubmitTransaction, SubTo
  <2>3. stage' \in [Subs -> Stages] /\ revision' \in [Subs -> Nat]
    BY <1>4 DEF SubmitTransaction, TypeOK, Update, Stages, NonTerminal
  <2>4. QED
    BY <1>4, <2>2, <2>3 DEF TypeOK, SubmitTransaction
<1>5. ASSUME NEW s \in Subs, Dispatch(s)
      PROVE  TypeOK'
  BY <1>5 DEF TypeOK, Dispatch, SubTo, JobTo, Jobs, InFlight, Outcomes
<1>6. ASSUME NEW s \in Subs, DispatchAfterStop(s) \/ DispatchFailed(s)
      PROVE  TypeOK'
  <2>1. SetTerminal(s, "unknown")
    BY <1>6 DEF DispatchAfterStop, DispatchFailed
  <2>2. stage' \in [Subs -> Stages] /\ revision' \in [Subs -> Nat]
    BY <2>1, SetTerminalType DEF Terminal
  <2>3. QED
    BY <1>6, <2>2 DEF TypeOK, DispatchAfterStop, DispatchFailed, SubTo, Outcomes
<1>7. ASSUME NEW s \in Subs, SubmitWriteFails(s)
      PROVE  TypeOK'
  BY <1>7, ConstantsAssumption DEF TypeOK, SubmitWriteFails, SubTo, Outcomes
<1>8. ASSUME NEW s \in Subs, Cancel(s)
      PROVE  TypeOK'
  <2>1. stage' \in [Subs -> Stages] /\ revision' \in [Subs -> Nat]
    BY <1>8, UpdateType DEF Cancel, Stages, NonTerminal, Terminal
  <2>2. QED
    BY <1>8, <2>1 DEF TypeOK, Cancel
<1>9. ASSUME NEW s \in Subs, RunStart(s)
      PROVE  TypeOK'
  BY <1>9 DEF TypeOK, RunStart, JobTo, Jobs, Working
<1>10. ASSUME NEW s \in Subs, RunAuthorize(s) \/ RunReauthorize(s)
       PROVE  TypeOK'
  <2>1. PICK from \in Jobs, to \in Jobs : CheckAuthorized(s, from, to)
    BY <1>10 DEF RunAuthorize, RunReauthorize, Jobs, Working
  <2>2. stage' \in [Subs -> Stages] /\ revision' \in [Subs -> Nat]
    BY <2>1, SetTerminalType DEF CheckAuthorized, TypeOK, Terminal
  <2>3. QED
    BY <2>1, <2>2 DEF TypeOK, CheckAuthorized, JobTo, Jobs
<1>11. ASSUME NEW s \in Subs, RunClaim(s)
       PROVE  TypeOK'
  <2>1. stage' \in [Subs -> Stages] /\ revision' \in [Subs -> Nat]
    BY <1>11, UpdateType DEF RunClaim, TypeOK, Stages, NonTerminal
  <2>2. QED
    BY <1>11, <2>1 DEF TypeOK, RunClaim, JobTo, Jobs, Working
<1>12. ASSUME NEW s \in Subs, RunCheckpoint(s)
       PROVE  TypeOK'
  BY <1>12 DEF TypeOK, RunCheckpoint, JobTo, Jobs, Working, Handling
<1>13. ASSUME NEW s \in Subs, RunEffect(s)
       PROVE  TypeOK'
  <2>1. effects' \in [Subs -> 0 .. MaxEffects] /\ late' \in [Subs -> Nat]
    BY <1>13, ConstantsAssumption DEF TypeOK, RunEffect
  <2>2. QED
    BY <1>13, <2>1 DEF TypeOK, RunEffect, JobTo, Jobs, Working
<1>14. ASSUME NEW s \in Subs, RunEnds(s)
       PROVE  TypeOK'
  BY <1>14 DEF TypeOK, RunEnds, JobTo, Jobs, Working, Handling
<1>15. ASSUME NEW s \in Subs, RunCommit(s)
       PROVE  TypeOK'
  <2>1. stage' \in [Subs -> Stages] /\ revision' \in [Subs -> Nat]
    BY <1>15, UpdateType DEF RunCommit, TypeOK, Stages, Terminal
  <2>2. QED
    BY <1>15, <2>1 DEF TypeOK, RunCommit, JobTo, Jobs
<1>16. ASSUME NEW s \in Subs, RunStopped(s)
       PROVE  TypeOK'
  BY <1>16 DEF TypeOK, RunStopped, JobTo, Jobs, Handling
<1>17. ASSUME NEW s \in Subs, RunHandle(s)
       PROVE  TypeOK'
  <2>1. stage' \in [Subs -> Stages] /\ revision' \in [Subs -> Nat]
    BY <1>17, SetTerminalType, VerdictTerminal DEF RunHandle
  <2>2. QED
    BY <1>17, <2>1 DEF TypeOK, RunHandle, JobTo, Jobs
<1>18. ASSUME NEW s \in Subs, RunDbFails(s)
       PROVE  TypeOK'
  BY <1>18, ConstantsAssumption DEF TypeOK, RunDbFails, JobTo, Jobs, Handling
<1>19. ASSUME NEW p \in Procs, Recover(p)
       PROVE  TypeOK'
  <2>1. stage' \in [Subs -> Stages] /\ revision' \in [Subs -> Nat]
    BY <1>19 DEF Recover, TypeOK, Stages, Terminal
  <2>2. QED
    BY <1>19, <2>1 DEF TypeOK, Recover, ProcTo, Lives
<1>20. ASSUME NEW p \in Procs,
              Start(p) \/ StartRefused(p) \/ StopRefused(p) \/ StopBegin(p)
                       \/ StopFinish(p) \/ Exit(p)
       PROVE  TypeOK'
  BY <1>20 DEF TypeOK, Start, StartRefused, StopRefused, StopBegin, StopFinish, Exit,
               ProcTo, Unlocked, Lives
<1>21. ASSUME NEW p \in Procs, RecoverFails(p)
       PROVE  TypeOK'
  BY <1>21, ConstantsAssumption DEF TypeOK, RecoverFails, ProcTo, Lives
<1>22. ASSUME NEW p \in Procs, StopCancelQueue(p)
       PROVE  TypeOK'
  BY <1>22 DEF TypeOK, StopCancelQueue, ProcTo, Lives, Jobs
<1>23. ASSUME NEW p \in Procs, Crash(p)
       PROVE  TypeOK'
  <2>1. sub' \in [Subs -> {"new"} \cup InFlight \cup Outcomes] /\ job' \in [Subs -> Jobs]
    BY <1>23 DEF Crash, TypeOK, Outcomes, Jobs
  <2>2. QED
    BY <1>23, <2>1, ConstantsAssumption DEF TypeOK, Crash, ProcTo, Unlocked, Lives
<1>24. CASE UNCHANGED vars
  BY <1>24 DEF TypeOK, vars
<1>25. QED
  BY <1>1, <1>2, <1>3, <1>4, <1>5, <1>6, <1>7, <1>8, <1>9, <1>10, <1>11, <1>12, <1>13,
     <1>14, <1>15, <1>16, <1>17, <1>18, <1>19, <1>20, <1>21, <1>22, <1>23, <1>24
  DEF Next, SubmitStep, RunStep, LifeStep

\* Every reachable state is well typed: the statuses of rows, threads and
\* processes are only those the service knows.
THEOREM TypeCorrect == Spec => []TypeOK
<1>1. QED
  BY InitType, StepType, PTL DEF Spec

-----------------------------------------------------------------------------
(* What a step does to the rows of pet_turns *)

\* The one step that inserts a row, with what it found in its transaction.
Inserts(s) ==
  /\ sub[s] = "checked"
  /\ Stored(arg[s]) = {}
  /\ ActiveIn(arg[s].conv) = {}
  /\ Cardinality(PendingTurns) < MaxPending
  /\ stage' = [stage EXCEPT ![s] = "accepted"]
  /\ sub'   = [sub EXCEPT ![s] = "inserted"]
  /\ arg'   = arg

\* Every other step only ends or advances unfinished turns, and never touches
\* the request of a row.
Advances ==
  \A s \in Subs :
    /\ \/ stage'[s] = stage[s]
       \/ stage[s] \in NonTerminal /\ stage'[s] \in NonTerminal \cup Terminal
    /\ stage[s] # "absent" => arg'[s] = arg[s]

LEMMA UpdateAdvances ==
  ASSUME TypeOK, NEW s \in Subs, NEW new \in NonTerminal \cup Terminal,
         stage[s] \in NonTerminal, Update(s, new), arg' = arg
  PROVE  Advances
BY DEF TypeOK, Update, Advances

LEMMA SetTerminalAdvances ==
  ASSUME TypeOK, NEW s \in Subs, NEW new \in Terminal, SetTerminal(s, new), arg' = arg
  PROVE  Advances
<1>1. CASE stage[s] \in NonTerminal
  BY <1>1, UpdateAdvances DEF SetTerminal
<1>2. CASE stage[s] \notin NonTerminal
  BY <1>2 DEF SetTerminal, Advances
<1>3. QED
  BY <1>1, <1>2

LEMMA StayAdvances ==
  ASSUME stage' = stage, arg' = arg
  PROVE  Advances
BY DEF Advances

LEMMA RowStep ==
  TypeOK /\ RowAfterTransaction /\ [Next]_vars => Advances \/ \E s \in Subs : Inserts(s)
<1> SUFFICES ASSUME TypeOK, RowAfterTransaction, [Next]_vars
             PROVE  Advances \/ \E s \in Subs : Inserts(s)
  OBVIOUS
<1> USE DEF db, life, thread
<1>1. ASSUME NEW c \in Convs, CreateConversation(c)
      PROVE  Advances
  BY <1>1, StayAdvances DEF CreateConversation
<1>2. ASSUME NEW d \in Devices, Revoke(d)
      PROVE  Advances
  BY <1>2, StayAdvances DEF Revoke
<1>3. ASSUME NEW s \in Subs, NEW p \in Procs, NEW r \in Requests, SubmitBegin(s, p, r)
      PROVE  Advances
  BY <1>3 DEF SubmitBegin, RowAfterTransaction, TypeOK, Advances
<1>4. ASSUME NEW s \in Subs, SubmitTransaction(s)
      PROVE  Advances \/ Inserts(s)
  <2>1. CASE TransactionOutcome(arg[s]) = "inserted"
    <3>1. Stored(arg[s]) = {} /\ ActiveIn(arg[s].conv) = {}
      BY <2>1 DEF TransactionOutcome
    <3>2. ~(Cardinality(PendingTurns) >= MaxPending)
      BY <2>1 DEF TransactionOutcome
    <3>3. IsFiniteSet(PendingTurns)
      BY ConstantsAssumption, FS_Subset DEF PendingTurns
    <3>4. Cardinality(PendingTurns) < MaxPending
      BY <3>2, <3>3, FS_CardinalityType, ConstantsAssumption
    <3>5. QED
      BY <1>4, <2>1, <3>1, <3>4 DEF SubmitTransaction, SubTo, Update, Inserts
  <2>2. CASE TransactionOutcome(arg[s]) # "inserted"
    BY <1>4, <2>2, StayAdvances DEF SubmitTransaction
  <2>3. QED
    BY <2>1, <2>2
<1>5. ASSUME NEW s \in Subs, Dispatch(s) \/ SubmitWriteFails(s)
      PROVE  Advances
  BY <1>5, StayAdvances DEF Dispatch, SubmitWriteFails
<1>6. ASSUME NEW s \in Subs, DispatchAfterStop(s) \/ DispatchFailed(s)
      PROVE  Advances
  BY <1>6, SetTerminalAdvances DEF DispatchAfterStop, DispatchFailed, Terminal
<1>7. ASSUME NEW s \in Subs, Cancel(s)
      PROVE  Advances
  BY <1>7, UpdateAdvances DEF Cancel, NonTerminal, Terminal
<1>8. ASSUME NEW s \in Subs,
             RunStart(s) \/ RunCheckpoint(s) \/ RunEffect(s) \/ RunEnds(s) \/ RunStopped(s)
                         \/ RunDbFails(s)
      PROVE  Advances
  BY <1>8, StayAdvances
     DEF RunStart, RunCheckpoint, RunEffect, RunEnds, RunStopped, RunDbFails
<1>9. ASSUME NEW s \in Subs, RunAuthorize(s) \/ RunReauthorize(s)
      PROVE  Advances
  <2>1. arg' = arg /\ (stage' = stage \/ SetTerminal(s, "failed"))
    BY <1>9 DEF RunAuthorize, RunReauthorize, CheckAuthorized
  <2>2. QED
    BY <2>1, StayAdvances, SetTerminalAdvances DEF Terminal
<1>10. ASSUME NEW s \in Subs, RunClaim(s)
       PROVE  Advances
  <2>1. \/ stage' = stage /\ arg' = arg
        \/ stage[s] \in NonTerminal /\ Update(s, "responding") /\ arg' = arg
    BY <1>10 DEF RunClaim, NonTerminal
  <2>2. QED
    BY <2>1, StayAdvances, UpdateAdvances DEF NonTerminal
<1>11. ASSUME NEW s \in Subs, RunCommit(s)
       PROVE  Advances
  <2>1. \/ stage' = stage /\ arg' = arg
        \/ /\ stage[s] \in NonTerminal /\ arg' = arg
           /\ (Update(s, "cancelled") \/ Update(s, "completed"))
    BY <1>11 DEF RunCommit, NonTerminal
  <2>2. QED
    BY <2>1, StayAdvances, UpdateAdvances DEF Terminal
<1>12. ASSUME NEW s \in Subs, RunHandle(s)
       PROVE  Advances
  BY <1>12, SetTerminalAdvances, VerdictTerminal DEF RunHandle
<1>13. ASSUME NEW p \in Procs, Recover(p)
       PROVE  Advances
  BY <1>13 DEF Recover, TypeOK, Advances, Terminal
<1>14. ASSUME NEW p \in Procs,
              \/ Start(p) \/ StartRefused(p) \/ RecoverFails(p) \/ StopRefused(p)
              \/ StopBegin(p) \/ StopCancelQueue(p) \/ StopFinish(p) \/ Exit(p) \/ Crash(p)
       PROVE  Advances
  BY <1>14, StayAdvances DEF Start, StartRefused, RecoverFails, StopRefused, StopBegin,
                             StopCancelQueue, StopFinish, Exit, Crash
<1>15. CASE UNCHANGED vars
  BY <1>15, StayAdvances DEF vars
<1>16. QED
  BY <1>1, <1>2, <1>3, <1>4, <1>5, <1>6, <1>7, <1>8, <1>9, <1>10, <1>11, <1>12, <1>13,
     <1>14, <1>15
  DEF Next, SubmitStep, RunStep, LifeStep

-----------------------------------------------------------------------------
(* The invariants of the rows *)

\* No submission goes back to the states before its transaction.
LEMMA SubmissionStep ==
  TypeOK /\ [Next]_vars
    => \A s \in Subs : sub'[s] \in {"new", "checked"} => sub[s] \in {"new", "checked"}
<1> SUFFICES ASSUME TypeOK, [Next]_vars, NEW s \in Subs, sub'[s] \in {"new", "checked"}
             PROVE  sub[s] \in {"new", "checked"}
  OBVIOUS
<1> USE DEF thread, SubTo
<1>1. ASSUME NEW t \in Subs, NEW p \in Procs, NEW r \in Requests, SubmitBegin(t, p, r)
      PROVE  sub[s] \in {"new", "checked"}
  BY <1>1 DEF SubmitBegin, TypeOK
<1>2. ASSUME NEW t \in Subs, SubmitTransaction(t)
      PROVE  sub[s] \in {"new", "checked"}
  BY <1>2 DEF SubmitTransaction, TypeOK
<1>3. ASSUME NEW t \in Subs,
             Dispatch(t) \/ DispatchAfterStop(t) \/ DispatchFailed(t) \/ SubmitWriteFails(t)
      PROVE  sub[s] \in {"new", "checked"}
  BY <1>3 DEF Dispatch, DispatchAfterStop, DispatchFailed, SubmitWriteFails, TypeOK
<1>4. ASSUME NEW t \in Subs, Cancel(t) \/ RunStep(t) \/ RunEnds(t) \/ RunDbFails(t)
      PROVE  sub[s] \in {"new", "checked"}
  BY <1>4 DEF Cancel, RunStep, RunEnds, RunDbFails, RunStart, RunAuthorize,
     RunReauthorize, CheckAuthorized, RunClaim, RunCheckpoint, RunEffect, RunCommit,
     RunStopped, RunHandle
<1>5. ASSUME NEW p \in Procs,
             LifeStep(p) \/ StartRefused(p) \/ RecoverFails(p) \/ StopBegin(p)
      PROVE  sub[s] \in {"new", "checked"}
  BY <1>5 DEF LifeStep, Start, Recover, StopRefused, StopCancelQueue, StopFinish, Exit,
     StartRefused, RecoverFails, StopBegin
<1>6. ASSUME NEW p \in Procs, Crash(p)
      PROVE  sub[s] \in {"new", "checked"}
  BY <1>6 DEF Crash, TypeOK
<1>7. ASSUME NEW c \in Convs, CreateConversation(c)
      PROVE  sub[s] \in {"new", "checked"}
  BY <1>7 DEF CreateConversation
<1>8. ASSUME NEW d \in Devices, Revoke(d)
      PROVE  sub[s] \in {"new", "checked"}
  BY <1>8 DEF Revoke
<1>9. CASE UNCHANGED vars
  BY <1>9 DEF vars
<1>10. QED
  BY <1>1, <1>2, <1>3, <1>4, <1>5, <1>6, <1>7, <1>8, <1>9 DEF Next, SubmitStep

LEMMA StepRowAfterTransaction ==
  TypeOK /\ RowAfterTransaction /\ [Next]_vars => RowAfterTransaction'
<1> SUFFICES ASSUME TypeOK, RowAfterTransaction, [Next]_vars
             PROVE  RowAfterTransaction'
  OBVIOUS
<1>1. CASE Advances
  BY <1>1, SubmissionStep DEF Advances, RowAfterTransaction, NonTerminal
<1>2. ASSUME NEW s \in Subs, Inserts(s)
      PROVE  RowAfterTransaction'
  BY <1>2 DEF Inserts, RowAfterTransaction, TypeOK
<1>3. QED
  BY <1>1, <1>2, RowStep

\* An insertion finds its conversation free, and nothing else makes a turn that
\* is not occupying its conversation do so.
LEMMA StepOneActiveTurn ==
  TypeOK /\ RowAfterTransaction /\ OneActiveTurn /\ [Next]_vars => OneActiveTurn'
<1> SUFFICES ASSUME TypeOK, RowAfterTransaction, OneActiveTurn, [Next]_vars
             PROVE  OneActiveTurn'
  OBVIOUS
<1>1. CASE Advances
  <2>1. \A s \in Subs : stage'[s] \in Occupying => stage[s] \in Occupying /\ arg'[s] = arg[s]
    BY <1>1 DEF Advances, Occupying, NonTerminal
  <2>2. QED
    BY <2>1 DEF OneActiveTurn
<1>2. ASSUME NEW s \in Subs, Inserts(s)
      PROVE  OneActiveTurn'
  <2>1. \A t \in Subs : stage[t] \in Occupying => arg[t].conv # arg[s].conv
    BY <1>2 DEF Inserts, ActiveIn
  <2>2. \A t \in Subs : t # s => stage'[t] = stage[t]
    BY <1>2 DEF Inserts, TypeOK
  <2>3. arg' = arg
    BY <1>2 DEF Inserts
  <2>4. QED
    BY <2>1, <2>2, <2>3 DEF OneActiveTurn
<1>3. QED
  BY <1>1, <1>2, RowStep

\* An insertion finds no row of its request.
LEMMA StepOneRowPerRequest ==
  TypeOK /\ RowAfterTransaction /\ OneRowPerRequest /\ [Next]_vars => OneRowPerRequest'
<1> SUFFICES ASSUME TypeOK, RowAfterTransaction, OneRowPerRequest, [Next]_vars
             PROVE  OneRowPerRequest'
  OBVIOUS
<1>1. CASE Advances
  <2>1. \A s \in Subs : stage'[s] # "absent" => stage[s] # "absent" /\ arg'[s] = arg[s]
    BY <1>1 DEF Advances, NonTerminal
  <2>2. QED
    BY <2>1 DEF OneRowPerRequest, Device
<1>2. ASSUME NEW s \in Subs, Inserts(s)
      PROVE  OneRowPerRequest'
  <2>1. \A t \in Subs : stage[t] # "absent" => arg[t].req # arg[s].req \/ Device(t) # Device(s)
    BY <1>2 DEF Inserts, Stored, Device
  <2>2. \A t \in Subs : t # s => stage'[t] = stage[t]
    BY <1>2 DEF Inserts, TypeOK
  <2>3. arg' = arg
    BY <1>2 DEF Inserts
  <2>4. QED
    BY <2>1, <2>2, <2>3 DEF OneRowPerRequest, Device
<1>3. QED
  BY <1>1, <1>2, RowStep

\* The set of unfinished turns grows only by an insertion that counted it.
LEMMA StepQueueBounded ==
  TypeOK /\ RowAfterTransaction /\ QueueBounded /\ [Next]_vars => QueueBounded'
<1> SUFFICES ASSUME TypeOK, RowAfterTransaction, QueueBounded, [Next]_vars
             PROVE  QueueBounded'
  OBVIOUS
<1>1. IsFiniteSet(PendingTurns)
  BY ConstantsAssumption, FS_Subset DEF PendingTurns
<1>2. Cardinality(PendingTurns) \in Nat
  BY <1>1, FS_CardinalityType
<1>3. CASE Advances
  <2>1. PendingTurns' \subseteq PendingTurns
    BY <1>3 DEF Advances, PendingTurns
  <2>2. Cardinality(PendingTurns') <= Cardinality(PendingTurns)
    BY <1>1, <2>1, FS_Subset
  <2>3. Cardinality(PendingTurns') \in Nat
    BY <1>1, <2>1, FS_Subset, FS_CardinalityType
  <2>4. QED
    BY <1>2, <2>2, <2>3, ConstantsAssumption DEF QueueBounded
<1>4. ASSUME NEW s \in Subs, Inserts(s)
      PROVE  QueueBounded'
  <2>1. PendingTurns' \subseteq PendingTurns \cup {s}
    BY <1>4 DEF Inserts, PendingTurns, TypeOK
  <2>2. IsFiniteSet(PendingTurns \cup {s})
    BY <1>1, FS_AddElement
  <2>3. Cardinality(PendingTurns \cup {s}) <= Cardinality(PendingTurns) + 1
    BY <1>1, <1>2, FS_AddElement
  <2>4. Cardinality(PendingTurns') <= Cardinality(PendingTurns \cup {s})
    BY <2>1, <2>2, FS_Subset
  <2>5. /\ Cardinality(PendingTurns') \in Nat
        /\ Cardinality(PendingTurns \cup {s}) \in Nat
    BY <2>1, <2>2, FS_Subset, FS_CardinalityType
  <2>6. Cardinality(PendingTurns) < MaxPending
    BY <1>4 DEF Inserts
  <2>7. QED
    BY <1>2, <2>3, <2>4, <2>5, <2>6, ConstantsAssumption DEF QueueBounded
<1>5. QED
  BY <1>3, <1>4, RowStep

LEMMA InitRows ==
  Init => RowAfterTransaction /\ OneActiveTurn /\ OneRowPerRequest /\ QueueBounded
<1> SUFFICES ASSUME Init
             PROVE  RowAfterTransaction /\ OneActiveTurn /\ OneRowPerRequest /\ QueueBounded
  OBVIOUS
<1>1. \A s \in Subs : stage[s] = "absent"
  BY DEF Init
<1>2. PendingTurns = {}
  BY <1>1 DEF PendingTurns, NonTerminal
<1>3. QueueBounded
  BY <1>2, FS_EmptySet, ConstantsAssumption DEF QueueBounded
<1>4. QED
  BY <1>1, <1>3 DEF RowAfterTransaction, OneActiveTurn, OneRowPerRequest, Occupying,
                    NonTerminal

LEMMA RowsKept == Spec => []RowAfterTransaction
<1>1. QED
  BY InitRows, StepRowAfterTransaction, TypeCorrect, PTL DEF Spec

\* However submissions, workers, crashes and restarts interleave, a conversation
\* never holds two turns that are active or unresolved.
THEOREM OneActiveTurnHolds == Spec => []OneActiveTurn
<1>1. QED
  BY InitRows, StepOneActiveTurn, RowsKept, TypeCorrect, PTL DEF Spec

\* The UNIQUE constraint on (principal_id, request_id) is never met.
THEOREM OneRowPerRequestHolds == Spec => []OneRowPerRequest
<1>1. QED
  BY InitRows, StepOneRowPerRequest, RowsKept, TypeCorrect, PTL DEF Spec

\* No interleaving of admissions exceeds the queue cap.
THEOREM QueueBoundedHolds == Spec => []QueueBounded
<1>1. QED
  BY InitRows, StepQueueBounded, RowsKept, TypeCorrect, PTL DEF Spec

=============================================================================
