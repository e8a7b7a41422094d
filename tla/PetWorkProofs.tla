---------------------------- MODULE PetWorkProofs ----------------------------
(***************************************************************************)
(* Proofs about the workers of PetTurns, and that the service implements   *)
(* TurnContract, for every value of the constants.                         *)
(***************************************************************************)
EXTENDS PetTurnsProofs

-----------------------------------------------------------------------------
(* The work invariant *)

LEMMA InitWork == Init => WorkInv
<1> SUFFICES ASSUME Init
             PROVE  WorkInv
  OBVIOUS
<1>1. LockIsHeld
  BY DEF Init, LockIsHeld
<1>2. WorkFollowsDispatch
  BY DEF Init, WorkFollowsDispatch
<1>3. WorkIsServed /\ StageOfWork /\ LateIsLast
  BY DEF Init, WorkIsServed, StageOfWork, LateIsLast
<1>4. QED
  BY <1>1, <1>2, <1>3 DEF WorkInv

LEMMA StepWork == TypeOK /\ RowAfterTransaction /\ WorkInv /\ [Next]_vars => WorkInv'
<1> SUFFICES ASSUME TypeOK, RowAfterTransaction, WorkInv, [Next]_vars
             PROVE  WorkInv'
  OBVIOUS
<1> USE DEF db, life, thread, hist, WorkInv, LockIsHeld, WorkFollowsDispatch, WorkIsServed,
            StageOfWork, LateIsLast, MayContinue, Authorized, Device
<1>1. ASSUME NEW c \in Convs, CreateConversation(c)
      PROVE  WorkInv'
  BY <1>1 DEF CreateConversation
<1>2. ASSUME NEW d \in Devices, Revoke(d)
      PROVE  WorkInv'
  BY <1>2 DEF Revoke, TypeOK
<1>3. ASSUME NEW s \in Subs, NEW p \in Procs, NEW r \in Requests, SubmitBegin(s, p, r)
      PROVE  WorkInv'
  BY <1>3 DEF SubmitBegin, TypeOK, FirstReads, SubTo
<1>4. ASSUME NEW s \in Subs, SubmitTransaction(s)
      PROVE  WorkInv'
  BY <1>4 DEF SubmitTransaction, TypeOK, TransactionOutcome, SubTo, Update
<1>5. ASSUME NEW s \in Subs, Dispatch(s)
      PROVE  WorkInv'
  BY <1>5 DEF TypeOK, Dispatch, SubTo, JobTo, Running
<1>6. ASSUME NEW s \in Subs, DispatchAfterStop(s) \/ DispatchFailed(s)
      PROVE  WorkInv'
  BY <1>6 DEF TypeOK, DispatchAfterStop, DispatchFailed, SubTo, SetTerminal, Update, Terminal
<1>7. ASSUME NEW s \in Subs, SubmitWriteFails(s)
      PROVE  WorkInv'
  BY <1>7 DEF TypeOK, SubmitWriteFails, SubTo
<1>8. ASSUME NEW s \in Subs, Cancel(s)
      PROVE  WorkInv'
  BY <1>8 DEF TypeOK, Cancel, Update, Terminal
<1>9. ASSUME NEW s \in Subs, RunStart(s)
      PROVE  WorkInv'
  BY <1>9 DEF TypeOK, RunStart, JobTo
<1>10. ASSUME NEW s \in Subs, RunAuthorize(s) \/ RunReauthorize(s)
       PROVE  WorkInv'
  BY <1>10 DEF TypeOK, RunAuthorize, RunReauthorize, CheckAuthorized, JobTo, SetTerminal, Update,
     Terminal
<1>11. ASSUME NEW s \in Subs, RunClaim(s)
       PROVE  WorkInv'
  BY <1>11 DEF TypeOK, RunClaim, JobTo, Update
<1>12. ASSUME NEW s \in Subs, RunCheckpoint(s)
       PROVE  WorkInv'
  BY <1>12 DEF TypeOK, RunCheckpoint, JobTo
<1>13. ASSUME NEW s \in Subs, RunEffect(s)
       PROVE  WorkInv'
  BY <1>13 DEF TypeOK, RunEffect, JobTo
<1>14. ASSUME NEW s \in Subs, RunEnds(s)
       PROVE  WorkInv'
  BY <1>14 DEF TypeOK, RunEnds, JobTo
<1>15. ASSUME NEW s \in Subs, RunCommit(s)
       PROVE  WorkInv'
  BY <1>15 DEF TypeOK, RunCommit, JobTo, Update
<1>16. ASSUME NEW s \in Subs, RunStopped(s)
       PROVE  WorkInv'
  BY <1>16 DEF TypeOK, RunStopped, JobTo
<1>17. ASSUME NEW s \in Subs, RunHandle(s)
       PROVE  WorkInv'
  BY <1>17, VerdictTerminal DEF TypeOK, RunHandle, JobTo, SetTerminal, Update, Terminal
<1>18. ASSUME NEW s \in Subs, RunDbFails(s)
       PROVE  WorkInv'
  BY <1>18 DEF TypeOK, RunDbFails, JobTo, Verdict
<1>19. ASSUME NEW p \in Procs, Recover(p)
       PROVE  WorkInv'
  BY <1>19 DEF TypeOK, Recover, ProcTo, Terminal, NonTerminal
<1>20. ASSUME NEW p \in Procs,
              Start(p) \/ StartRefused(p) \/ StopRefused(p) \/ StopBegin(p) \/ Exit(p)
       PROVE  WorkInv'
  BY <1>20, ConstantsAssumption DEF TypeOK, Start, StartRefused, StopRefused, StopBegin, Exit,
               ProcTo, Unlocked
<1>21. ASSUME NEW p \in Procs, StopFinish(p)
       PROVE  WorkInv'
  <2>1. \A s \in Subs : home[s] = p => job[s] = "none"
    BY <1>21 DEF TypeOK, StopFinish, Busy, Live, Jobs
  <2>2. QED
    BY <1>21, <2>1 DEF TypeOK, StopFinish, ProcTo, Unlocked
<1>22. ASSUME NEW p \in Procs, RecoverFails(p)
       PROVE  WorkInv'
  BY <1>22 DEF TypeOK, RecoverFails, ProcTo
<1>23. ASSUME NEW p \in Procs, StopCancelQueue(p)
       PROVE  WorkInv'
  BY <1>23 DEF TypeOK, StopCancelQueue, ProcTo
<1>24. ASSUME NEW p \in Procs, Crash(p)
       PROVE  WorkInv'
  BY <1>24 DEF TypeOK, Crash, ProcTo, Unlocked
<1>25. CASE UNCHANGED vars
  BY <1>25 DEF vars
<1>26. QED
  BY <1>1, <1>2, <1>3, <1>4, <1>5, <1>6, <1>7, <1>8, <1>9, <1>10, <1>11, <1>12, <1>13,
     <1>14, <1>15, <1>16, <1>17, <1>18, <1>19, <1>20, <1>21, <1>22, <1>23, <1>24, <1>25
  DEF Next, SubmitStep, RunStep, LifeStep

LEMMA WorkKept == Spec => []WorkInv
<1>1. QED
  BY InitWork, StepWork, RowsKept, TypeCorrect, PTL DEF Spec

\* Turns are executed only by the process that holds the lock file, so no
\* recovery gives up a turn that another process is executing, whatever starts,
\* stops, kills and failing calls precede it.
THEOREM WorkersHoldLockHolds == Spec => []WorkersHoldLock
<1>1. TypeOK /\ WorkInv => WorkersHoldLock
  BY DEF TypeOK, WorkInv, LockIsHeld, WorkIsServed, WorkersHoldLock
<1>2. QED
  BY <1>1, WorkKept, TypeCorrect, PTL

\* A client that reads a verdict reads it of a turn nobody works on any more.
THEOREM VerdictEndsWorkHolds == Spec => []VerdictEndsWork
<1>1. WorkInv => VerdictEndsWork
  BY DEF WorkInv, StageOfWork, VerdictEndsWork
<1>2. QED
  BY <1>1, WorkKept, PTL

\* However many rounds and tools a turn may use, after a cancellation, a
\* revocation or a verdict it makes at most one more call.
THEOREM AtMostOneLateEffectHolds == Spec => []AtMostOneLateEffect
<1>1. TypeOK /\ WorkInv => AtMostOneLateEffect
  BY DEF TypeOK, WorkInv, LateIsLast, AtMostOneLateEffect
<1>2. QED
  BY <1>1, WorkKept, TypeCorrect, PTL

-----------------------------------------------------------------------------
(* A repeated request *)

\* Only a transaction that found no row of the request answers "busy".
LEMMA BusyStep ==
  ASSUME TypeOK, [Next]_vars, NEW s \in Subs, sub[s] # "busy", sub'[s] = "busy"
  PROVE  Stored(arg[s]) = {}
<1> USE DEF thread, SubTo
<1>1. ASSUME NEW t \in Subs, NEW p \in Procs, NEW r \in Requests, SubmitBegin(t, p, r)
      PROVE  FALSE
  BY <1>1 DEF SubmitBegin, FirstReads, TypeOK
<1>2. ASSUME NEW t \in Subs, SubmitTransaction(t)
      PROVE  Stored(arg[s]) = {}
  BY <1>2 DEF SubmitTransaction, TransactionOutcome, TypeOK
<1>3. ASSUME NEW t \in Subs,
             Dispatch(t) \/ DispatchAfterStop(t) \/ DispatchFailed(t) \/ SubmitWriteFails(t)
      PROVE  FALSE
  BY <1>3 DEF Dispatch, DispatchAfterStop, DispatchFailed, SubmitWriteFails, TypeOK
<1>4. ASSUME NEW t \in Subs, Cancel(t) \/ RunStep(t) \/ RunEnds(t) \/ RunDbFails(t)
      PROVE  FALSE
  BY <1>4 DEF Cancel, RunStep, RunEnds, RunDbFails, RunStart, RunAuthorize,
     RunReauthorize, CheckAuthorized, RunClaim, RunCheckpoint, RunEffect, RunCommit,
     RunStopped, RunHandle
<1>5. ASSUME NEW p \in Procs,
             LifeStep(p) \/ StartRefused(p) \/ RecoverFails(p) \/ StopBegin(p)
      PROVE  FALSE
  BY <1>5 DEF LifeStep, Start, Recover, StopRefused, StopCancelQueue, StopFinish, Exit,
     StartRefused, RecoverFails, StopBegin
<1>6. ASSUME NEW p \in Procs, Crash(p)
      PROVE  FALSE
  BY <1>6 DEF Crash, TypeOK
<1>7. ASSUME NEW c \in Convs, CreateConversation(c)
      PROVE  FALSE
  BY <1>7 DEF CreateConversation
<1>8. ASSUME NEW d \in Devices, Revoke(d)
      PROVE  FALSE
  BY <1>8 DEF Revoke
<1>9. CASE UNCHANGED vars
  BY <1>9 DEF vars
<1>10. QED
  BY <1>1, <1>2, <1>3, <1>4, <1>5, <1>6, <1>7, <1>8, <1>9 DEF Next, SubmitStep

\* A repeat that races with its first try is never told that its own turn keeps
\* the conversation busy.
THEOREM RepeatIsNotRefusedHolds == Spec => RepeatIsNotRefused
<1>1. TypeOK /\ [Next]_vars
        => [\A s \in Subs : sub[s] # "busy" /\ sub'[s] = "busy" => Stored(arg[s]) = {}]_vars
  BY BusyStep
<1>2. QED
  BY <1>1, TypeCorrect, PTL DEF Spec, RepeatIsNotRefused

-----------------------------------------------------------------------------
(* The contract *)

\* The conversation of each accepted turn, as Contract sees it.
ConvBar == [s \in Subs |-> IF stage[s] = "absent" THEN NoConv ELSE arg[s].conv]

ContractStep == [Contract!CNext]_<<stage, revision, ConvBar>>

\* A step that changes no row, and no request of a row, is not seen.
LEMMA RowsStay ==
  ASSUME stage' = stage, revision' = revision,
         \A s \in Subs : stage[s] # "absent" => arg'[s] = arg[s]
  PROVE  ContractStep
BY DEF ContractStep, ConvBar

\* One row advances.
LEMMA RowMoves ==
  ASSUME TypeOK, NEW s \in Subs, NEW new \in NonTerminal \cup Terminal,
         stage[s] # "absent", Update(s, new), arg' = arg
  PROVE  Contract!Move({s}, new) /\ ConvBar' = ConvBar
<1>1. Contract!Move({s}, new)
  BY DEF TypeOK, Update, Contract!Move
<1>2. ConvBar' = ConvBar
  BY DEF TypeOK, Update, ConvBar, NonTerminal, Terminal
<1>3. QED
  BY <1>1, <1>2

\* Every change of one unfinished row that the service makes is one of the
\* contract.
LEMMA ContractAllows ==
  ASSUME TypeOK, NEW s \in Subs, NEW new \in NonTerminal \cup Terminal,
         Update(s, new), arg' = arg,
         \/ stage[s] = "accepted" /\ new \in {"responding", "cancelled"}
         \/ stage[s] = "responding" /\ new \in {"completed", "cancel_requested"}
         \/ stage[s] = "cancel_requested" /\ new = "cancelled"
         \/ stage[s] \in NonTerminal /\ new \in {"failed", "unknown"}
  PROVE  ContractStep
<1>1. Contract!Move({s}, new) /\ ConvBar' = ConvBar
  BY RowMoves DEF NonTerminal
<1>2. CASE new = "unknown"
  <2>1. Contract!Abandon({s})
    BY <1>1, <1>2 DEF Contract!Abandon, ConvBar, Contract!NonTerminal, NonTerminal
  <2>2. QED
    BY <2>1 DEF ContractStep, Contract!CNext
<1>3. CASE new # "unknown"
  BY <1>1, <1>3 DEF ContractStep, Contract!CNext, Contract!Respond, Contract!Complete,
     Contract!RequestCancel, Contract!Cancelled, Contract!Fail, ConvBar, NonTerminal,
     Contract!NonTerminal
<1>4. QED
  BY <1>2, <1>3

\* A guarded write ends an unfinished turn, or finds it ended.
LEMMA SetTerminalAllowed ==
  ASSUME TypeOK, NEW s \in Subs, NEW new \in Terminal, SetTerminal(s, new), arg' = arg,
         \/ new \in {"failed", "unknown"}
         \/ new = "cancelled" /\ stage[s] \in {"accepted", "cancel_requested"} \cup Terminal
  PROVE  ContractStep
<1>1. CASE stage[s] \in NonTerminal
  <2>1. Update(s, new) /\ new \in NonTerminal \cup Terminal
    BY <1>1 DEF SetTerminal
  <2>2. \/ new \in {"failed", "unknown"}
        \/ new = "cancelled" /\ stage[s] # "responding"
    BY DEF Terminal
  <2>3. QED
    BY <1>1, <2>1, <2>2, ContractAllows DEF NonTerminal
<1>2. CASE stage[s] \notin NonTerminal
  BY <1>2, RowsStay DEF SetTerminal
<1>3. QED
  BY <1>1, <1>2

\* TurnContract counts with its own copy of the library's definition.
LEMMA SameCardinality ==
  ASSUME NEW S
  PROVE  Contract!Cardinality(S) = Cardinality(S)
BY DEF Contract!Cardinality, Cardinality

\* The row that a transaction inserts is one the contract accepts.
LEMMA InsertAllowed ==
  ASSUME TypeOK, RowAfterTransaction, NEW s \in Subs, SubmitTransaction(s)
  PROVE  ContractStep
<1> USE DEF thread, db
<1>1. CASE TransactionOutcome(arg[s]) = "inserted"
  <2> PICK c \in Convs : c = arg[s].conv
    BY DEF TypeOK, Requests
  <2>1. Update(s, "accepted") /\ arg' = arg /\ stage[s] = "absent"
    BY <1>1 DEF SubmitTransaction, RowAfterTransaction
  <2>2. Contract!Move({s}, "accepted")
    BY <2>1 DEF TypeOK, Update, Contract!Move
  <2>3. ConvBar' = [ConvBar EXCEPT ![s] = c]
    BY <2>1 DEF ConvBar, Update, TypeOK
  <2>4. \A u \in Subs : ConvBar[u] = c => stage[u] \notin Contract!Occupying
    <3>1. ActiveIn(c) = {}
      BY <1>1 DEF TransactionOutcome
    <3>2. QED
      BY <3>1, <2>1, ConstantsAssumption
         DEF ActiveIn, ConvBar, Contract!Occupying, Contract!NonTerminal, Occupying,
             NonTerminal
  <2>5. Contract!Cardinality({u \in Subs : stage[u] \in Contract!NonTerminal}) < MaxPending
    <3>1. ~(Cardinality(PendingTurns) >= MaxPending)
      BY <1>1 DEF TransactionOutcome
    <3>2. IsFiniteSet(PendingTurns)
      BY ConstantsAssumption, FS_Subset DEF PendingTurns
    <3>3. PendingTurns = {u \in Subs : stage[u] \in Contract!NonTerminal}
      BY DEF PendingTurns, NonTerminal, Contract!NonTerminal
    <3>4. QED
      BY <3>1, <3>2, <3>3, SameCardinality, FS_CardinalityType, ConstantsAssumption
  <2>6. Contract!Accept(s, c)
    BY <2>1, <2>2, <2>3, <2>4, <2>5 DEF Contract!Accept, ConvBar
  <2>7. QED
    BY <2>6 DEF ContractStep, Contract!CNext
<1>2. CASE TransactionOutcome(arg[s]) # "inserted"
  BY <1>2, RowsStay DEF SubmitTransaction
<1>3. QED
  BY <1>1, <1>2

\* A recovery gives up all unfinished turns at once.
LEMMA RecoverAllowed ==
  ASSUME TypeOK, NEW p \in Procs, Recover(p)
  PROVE  ContractStep
<1>1. PendingTurns \in SUBSET Subs
  BY DEF PendingTurns
<1>2. Contract!Move(PendingTurns, "unknown")
  BY DEF Recover, PendingTurns, Contract!Move
<1>3. ConvBar' = ConvBar
  BY DEF Recover, ConvBar, NonTerminal, thread
<1>4. Contract!Abandon(PendingTurns)
  BY <1>2, <1>3 DEF Contract!Abandon, ConvBar, PendingTurns, Contract!NonTerminal,
     NonTerminal
<1>5. QED
  BY <1>1, <1>4 DEF ContractStep, Contract!CNext

LEMMA InitContract == Init => Contract!CInit
<1>1. QED
  BY DEF Init, Contract!CInit

LEMMA StepContract ==
  TypeOK /\ RowAfterTransaction /\ WorkInv /\ [Next]_vars => ContractStep
<1> SUFFICES ASSUME TypeOK, RowAfterTransaction, WorkInv, [Next]_vars
             PROVE  ContractStep
  OBVIOUS
<1> USE DEF db, life, thread
<1>1. ASSUME NEW c \in Convs, CreateConversation(c)
      PROVE  ContractStep
  BY <1>1, RowsStay DEF CreateConversation
<1>2. ASSUME NEW d \in Devices, Revoke(d)
      PROVE  ContractStep
  BY <1>2, RowsStay DEF Revoke
<1>3. ASSUME NEW s \in Subs, NEW p \in Procs, NEW r \in Requests, SubmitBegin(s, p, r)
      PROVE  ContractStep
  <2>1. \A t \in Subs : stage[t] # "absent" => arg'[t] = arg[t]
    BY <1>3 DEF SubmitBegin, RowAfterTransaction, TypeOK
  <2>2. QED
    BY <1>3, <2>1, RowsStay DEF SubmitBegin
<1>4. ASSUME NEW s \in Subs, SubmitTransaction(s)
      PROVE  ContractStep
  BY <1>4, InsertAllowed
<1>5. ASSUME NEW s \in Subs, Dispatch(s) \/ SubmitWriteFails(s)
      PROVE  ContractStep
  BY <1>5, RowsStay DEF Dispatch, SubmitWriteFails
<1>6. ASSUME NEW s \in Subs, DispatchAfterStop(s) \/ DispatchFailed(s)
      PROVE  ContractStep
  BY <1>6, SetTerminalAllowed DEF DispatchAfterStop, DispatchFailed, Terminal
<1>7. ASSUME NEW s \in Subs, Cancel(s)
      PROVE  ContractStep
  BY <1>7, ContractAllows DEF Cancel, NonTerminal, Terminal
<1>8. ASSUME NEW s \in Subs,
             RunStart(s) \/ RunCheckpoint(s) \/ RunEffect(s) \/ RunEnds(s) \/ RunStopped(s)
                         \/ RunDbFails(s)
      PROVE  ContractStep
  BY <1>8, RowsStay
     DEF RunStart, RunCheckpoint, RunEffect, RunEnds, RunStopped, RunDbFails
<1>9. ASSUME NEW s \in Subs, RunAuthorize(s) \/ RunReauthorize(s)
      PROVE  ContractStep
  <2>1. /\ arg' = arg
        /\ (stage' = stage /\ revision' = revision) \/ SetTerminal(s, "failed")
    BY <1>9 DEF RunAuthorize, RunReauthorize, CheckAuthorized
  <2>2. QED
    BY <2>1, RowsStay, SetTerminalAllowed DEF Terminal
<1>10. ASSUME NEW s \in Subs, RunClaim(s)
       PROVE  ContractStep
  <2>1. /\ arg' = arg
        /\ \/ stage' = stage /\ revision' = revision
           \/ stage[s] = "accepted" /\ Update(s, "responding")
    BY <1>10 DEF RunClaim
  <2>2. QED
    BY <2>1, RowsStay, ContractAllows DEF NonTerminal
<1>11. ASSUME NEW s \in Subs, RunCommit(s)
       PROVE  ContractStep
  <2>1. /\ arg' = arg
        /\ \/ stage' = stage /\ revision' = revision
           \/ stage[s] = "cancel_requested" /\ Update(s, "cancelled")
           \/ stage[s] = "responding" /\ Update(s, "completed")
    BY <1>11 DEF RunCommit
  <2>2. QED
    BY <2>1, RowsStay, ContractAllows DEF Terminal
<1>12. ASSUME NEW s \in Subs, RunHandle(s)
       PROVE  ContractStep
  <2>1. job[s] \in DOMAIN Verdict /\ SetTerminal(s, Verdict[job[s]]) /\ arg' = arg
    BY <1>12 DEF RunHandle
  <2>2. \/ Verdict[job[s]] \in {"failed", "unknown"}
        \/ Verdict[job[s]] = "cancelled" /\ job[s] = "stopCancelled"
    BY <2>1 DEF Verdict
  <2>3. job[s] = "stopCancelled" => stage[s] \in {"cancel_requested"} \cup Terminal
    BY DEF WorkInv, StageOfWork
  <2>4. QED
    BY <2>1, <2>2, <2>3, VerdictTerminal, SetTerminalAllowed
<1>13. ASSUME NEW p \in Procs, Recover(p)
       PROVE  ContractStep
  BY <1>13, RecoverAllowed
<1>14. ASSUME NEW p \in Procs,
              \/ Start(p) \/ StartRefused(p) \/ RecoverFails(p) \/ StopRefused(p)
              \/ StopBegin(p) \/ StopCancelQueue(p) \/ StopFinish(p) \/ Exit(p) \/ Crash(p)
       PROVE  ContractStep
  BY <1>14, RowsStay DEF Start, StartRefused, RecoverFails, StopRefused,
                         StopBegin, StopCancelQueue, StopFinish, Exit, Crash
<1>15. CASE UNCHANGED vars
  BY <1>15, RowsStay DEF vars
<1>16. QED
  BY <1>1, <1>2, <1>3, <1>4, <1>5, <1>6, <1>7, <1>8, <1>9, <1>10, <1>11, <1>12, <1>13,
     <1>14, <1>15
  DEF Next, SubmitStep, RunStep, LifeStep

\* The service, with any number of processes, kills and failing calls, is seen
\* through its rows to keep the contract: each step maps to one step of
\* TurnContract or to a stutter.
THEOREM ServiceImplementsContract == Spec => ImplementsContract
<1>1. TypeOK /\ RowAfterTransaction /\ WorkInv /\ [Next]_vars
        => [Contract!CNext]_(Contract!cvars)
  BY StepContract DEF ContractStep, ConvBar, Contract!cvars
<1>2. QED
  BY <1>1, InitContract, WorkKept, RowsKept, TypeCorrect, PTL
  DEF Spec, ImplementsContract, Contract!ContractSpec

-----------------------------------------------------------------------------
(* One process, and no call of SQLite fails *)

\* With one process there is nobody to insert a row behind its recovery, and
\* without failing calls no handler leaves its verdict unwritten.
LEMMA StepNoOrphan ==
  ASSUME NEW q, Procs = {q}, MaxDbFaults = 0,
         TypeOK, RowAfterTransaction, WorkInv, NoOrphanedTurn, [Next]_vars
  PROVE  NoOrphanedTurn'
<1> USE DEF db, life, thread, NoOrphanedTurn
<1>1. ASSUME NEW c \in Convs, CreateConversation(c)
      PROVE  NoOrphanedTurn'
  BY <1>1 DEF CreateConversation
<1>2. ASSUME NEW d \in Devices, Revoke(d)
      PROVE  NoOrphanedTurn'
  BY <1>2 DEF Revoke
<1>3. ASSUME NEW s \in Subs, NEW p \in Procs, NEW r \in Requests, SubmitBegin(s, p, r)
      PROVE  NoOrphanedTurn'
  BY <1>3 DEF SubmitBegin, TypeOK, SubTo, InFlight
<1>4. ASSUME NEW s \in Subs, SubmitTransaction(s)
      PROVE  NoOrphanedTurn'
  <2>1. stage[s] = "absent"
    BY <1>4 DEF SubmitTransaction, RowAfterTransaction
  <2>2. sub'[s] = "inserted" \/ stage' = stage
    BY <1>4 DEF SubmitTransaction, SubTo, TypeOK
  <2>3. QED
    BY <1>4, <2>1, <2>2
       DEF SubmitTransaction, TypeOK, SubTo, Update, InFlight, NonTerminal
<1>5. ASSUME NEW s \in Subs, Dispatch(s)
      PROVE  NoOrphanedTurn'
  BY <1>5 DEF TypeOK, Dispatch, SubTo, JobTo, InFlight
<1>6. ASSUME NEW s \in Subs, DispatchAfterStop(s) \/ DispatchFailed(s)
      PROVE  NoOrphanedTurn'
  BY <1>6 DEF TypeOK, DispatchAfterStop, DispatchFailed, SubTo, SetTerminal, Update, NonTerminal
<1>7. ASSUME NEW s \in Subs, Cancel(s)
      PROVE  NoOrphanedTurn'
  BY <1>7 DEF TypeOK, Cancel, Update, NonTerminal
<1>8. ASSUME NEW s \in Subs, SubmitWriteFails(s) \/ RunDbFails(s)
      PROVE  FALSE
  BY <1>8 DEF TypeOK, SubmitWriteFails, RunDbFails
<1>9. ASSUME NEW s \in Subs, RunStart(s) \/ RunClaim(s)
      PROVE  NoOrphanedTurn'
  BY <1>9 DEF TypeOK, RunStart, RunClaim, JobTo, Update, NonTerminal, WorkInv, StageOfWork
<1>10. ASSUME NEW s \in Subs, RunAuthorize(s) \/ RunReauthorize(s)
       PROVE  NoOrphanedTurn'
  BY <1>10 DEF TypeOK, RunAuthorize, RunReauthorize, CheckAuthorized, JobTo, SetTerminal, Update,
     NonTerminal
<1>11. ASSUME NEW s \in Subs, RunCheckpoint(s) \/ RunEffect(s) \/ RunEnds(s)
       PROVE  NoOrphanedTurn'
  BY <1>11 DEF TypeOK, RunCheckpoint, RunEffect, RunEnds, JobTo
<1>12. ASSUME NEW s \in Subs, RunStopped(s)
       PROVE  NoOrphanedTurn'
  <2>1. job'[s] = "none" => stage[s] \in Terminal
    BY <1>12 DEF RunStopped, JobTo, TypeOK
  <2>2. QED
    BY <1>12, <2>1 DEF TypeOK, RunStopped, JobTo, NonTerminal, Terminal
<1>13. ASSUME NEW s \in Subs, RunCommit(s)
       PROVE  NoOrphanedTurn'
  BY <1>13 DEF TypeOK, RunCommit, JobTo, Update, NonTerminal, WorkInv, StageOfWork
<1>14. ASSUME NEW s \in Subs, RunHandle(s)
       PROVE  NoOrphanedTurn'
  BY <1>14, VerdictTerminal DEF TypeOK, RunHandle, JobTo, SetTerminal, Update, NonTerminal, Terminal
<1>15. ASSUME NEW p \in Procs, Recover(p)
       PROVE  NoOrphanedTurn'
  BY <1>15 DEF Recover, NonTerminal
<1>16. ASSUME NEW p \in Procs,
              \/ Start(p) \/ StartRefused(p) \/ RecoverFails(p) \/ StopRefused(p)
              \/ StopBegin(p) \/ StopCancelQueue(p) \/ StopFinish(p) \/ Exit(p) \/ Crash(p)
       PROVE  NoOrphanedTurn'
  <2>1. \A r \in Procs : proc'[r] # "up"
    BY <1>16 DEF Start, StartRefused, RecoverFails, StopRefused, StopBegin,
       StopCancelQueue, StopFinish, Exit, Crash, ProcTo, TypeOK
  <2>2. QED
    BY <2>1
<1>17. CASE UNCHANGED vars
  BY <1>17 DEF vars
<1>18. QED
  BY <1>1, <1>2, <1>3, <1>4, <1>5, <1>6, <1>7, <1>8, <1>9, <1>10, <1>11, <1>12, <1>13,
     <1>14, <1>15, <1>16, <1>17
  DEF Next, SubmitStep, RunStep, LifeStep

\* A single process whose database calls succeed never has, while it is up, an
\* unfinished turn without a thread that will finish it: neither shutdowns,
\* kills, failing dispatches nor cancellations leave one behind.
THEOREM NoOrphanedTurnHolds ==
  ASSUME NEW CONSTANT q, Procs = {q}, MaxDbFaults = 0
  PROVE  Spec => []NoOrphanedTurn
<1>1. Init => NoOrphanedTurn
  BY DEF Init, NoOrphanedTurn, NonTerminal
<1>2. TypeOK /\ RowAfterTransaction /\ WorkInv /\ NoOrphanedTurn /\ [Next]_vars
        => NoOrphanedTurn'
  BY StepNoOrphan
<1>3. QED
  BY <1>1, <1>2, WorkKept, RowsKept, TypeCorrect, PTL DEF Spec

=============================================================================
