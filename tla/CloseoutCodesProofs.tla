------------------------ MODULE CloseoutCodesProofs ------------------------
(***************************************************************************)
(* Proofs, for every value of the constants, of what the ledger of         *)
(* CloseoutCodes guarantees: every duplicate closeout is owed to a lost    *)
(* answer or to an expiry, and a closed session is remembered.             *)
(***************************************************************************)
EXTENDS CloseoutCodes, FiniteSetTheorems, TLAPS

-----------------------------------------------------------------------------
(* Counting *)

LEMMA CountKept ==
  ASSUME NEW A, NEW B, IsFiniteSet(A), B \subseteq A
  PROVE  Cardinality(A) \in Nat /\ Cardinality(B) \in Nat /\ Cardinality(B) <= Cardinality(A)
BY FS_Subset, FS_CardinalityType

LEMMA CountAdded ==
  ASSUME NEW A, NEW B, NEW x, IsFiniteSet(A), B \subseteq A \cup {x}
  PROVE  /\ Cardinality(A) \in Nat /\ Cardinality(B) \in Nat
         /\ Cardinality(B) <= Cardinality(A) + 1
<1>1. /\ IsFiniteSet(A \cup {x})
      /\ Cardinality(A) \in Nat
      /\ Cardinality(A \cup {x}) <= Cardinality(A) + 1
  <2>1. Cardinality(A) \in Nat
    BY FS_CardinalityType
  <2>2. /\ IsFiniteSet(A \cup {x})
        /\ Cardinality(A \cup {x}) = IF x \in A THEN Cardinality(A) ELSE Cardinality(A) + 1
    BY FS_AddElement
  <2>3. QED
    BY <2>1, <2>2
<1>2. Cardinality(B) \in Nat /\ Cardinality(B) <= Cardinality(A \cup {x})
  BY <1>1, CountKept
<1>3. Cardinality(A \cup {x}) \in Nat
  BY <1>1, FS_CardinalityType
<1>4. QED
  BY <1>1, <1>2, <1>3

LEMMA CountRemoved ==
  ASSUME NEW A, NEW B, NEW x, IsFiniteSet(A), x \in A, B \subseteq A \ {x}
  PROVE  /\ Cardinality(A) \in Nat /\ Cardinality(B) \in Nat
         /\ Cardinality(B) + 1 <= Cardinality(A)
<1>1. IsFiniteSet(A \ {x}) /\ Cardinality(A \ {x}) = Cardinality(A) - 1
  BY FS_RemoveElement
<1>2. Cardinality(B) \in Nat /\ Cardinality(B) <= Cardinality(A \ {x})
  BY <1>1, CountKept
<1>3. Cardinality(A) \in Nat
  BY FS_CardinalityType
<1>4. QED
  BY <1>1, <1>2, <1>3

LEMMA CountedSets ==
  ASSUME NEW c
  PROVE  /\ IsFiniteSet(MayFree(c)) /\ IsFiniteSet(MayCommit(c))
         /\ Cardinality(MayFree(c)) \in Nat /\ Cardinality(MayCommit(c)) \in Nat
         /\ Cardinality(MayFree(c)') \in Nat /\ Cardinality(MayCommit(c)') \in Nat
<1>1. /\ MayFree(c) \subseteq Calls /\ MayCommit(c) \subseteq Calls
      /\ MayFree(c)' \subseteq Calls /\ MayCommit(c)' \subseteq Calls
  BY DEF MayFree, MayCommit
<1>2. IsFiniteSet(Calls)
  BY CodesAssumption
<1>3. QED
  BY <1>1, <1>2, FS_Subset, FS_CardinalityType

-----------------------------------------------------------------------------
(* Types, and what a program counter says of its call *)

LEMMA InitType == Init => TypeOK
BY CodesAssumption DEF Init, TypeOK

LEMMA StepType == TypeOK /\ [Next]_vars => TypeOK'
<1> SUFFICES ASSUME TypeOK, [Next]_vars
             PROVE  TypeOK'
  OBVIOUS
<1> USE CodesAssumption DEF clock, call, remote, hist, budget, To, Active, Outcomes
<1>1. CASE Tick
  BY <1>1 DEF TypeOK, Tick
<1>2. ASSUME NEW c \in Codes, Prepare(c)
      PROVE  TypeOK'
  BY <1>2 DEF TypeOK, Prepare
<1>3. ASSUME NEW k \in Calls, NEW c \in Codes, NEW m \in Servers, Decode(k, c, m)
      PROVE  TypeOK'
  BY <1>3 DEF TypeOK, Decode
<1>4. ASSUME NEW k \in Calls, Acquire(k)
      PROVE  TypeOK'
  BY <1>4 DEF TypeOK, Acquire
<1>5. ASSUME NEW k \in Calls, Send(k) \/ SendFails(k) \/ Receive(k)
      PROVE  TypeOK'
  BY <1>5 DEF TypeOK, Send, SendFails, Receive
<1>6. ASSUME NEW k \in Calls, Commit(k) \/ Refuse(k)
      PROVE  TypeOK'
  BY <1>6 DEF TypeOK, Commit, Refuse
<1>7. ASSUME NEW k \in Calls, LoseAnswer(k)
      PROVE  TypeOK'
  <2>1. lost' \in [Codes -> 0 .. MaxLost]
    <3>1. lost \in [Codes -> 0 .. MaxLost] /\ lost[code[k]] < MaxLost
      BY <1>7 DEF TypeOK, LoseAnswer
    <3>2. ASSUME NEW c \in Codes
          PROVE  lost'[c] \in 0 .. MaxLost
      BY <1>7, <3>1 DEF LoseAnswer
    <3>3. QED
      BY <1>7, <3>1, <3>2 DEF LoseAnswer
  <2>2. QED
    BY <1>7, <2>1 DEF TypeOK, LoseAnswer
<1>8. ASSUME NEW k \in Calls, Release(k) \/ Consume(k)
      PROVE  TypeOK'
  BY <1>8 DEF TypeOK, Release, Consume
<1>9. ASSUME NEW k \in Calls, AcquireFails(k) \/ LedgerWriteFails(k)
      PROVE  TypeOK'
  <2>1. faults' \in 0 .. MaxFaults
    BY <1>9 DEF TypeOK, AcquireFails, LedgerWriteFails
  <2>2. pc' \in [Calls -> {"new"} \cup Active \cup Outcomes]
    BY <1>9 DEF TypeOK, AcquireFails, LedgerWriteFails
  <2>3. stranded' \in [Codes -> BOOLEAN]
    BY <1>9 DEF TypeOK, AcquireFails, LedgerWriteFails
  <2>4. QED
    BY <1>9, <2>1, <2>2, <2>3 DEF TypeOK, AcquireFails, LedgerWriteFails
<1>10. ASSUME NEW m \in Servers, Crash(m)
       PROVE  TypeOK'
  BY <1>10 DEF TypeOK, Crash
<1>11. CASE UNCHANGED vars
  BY <1>11 DEF TypeOK, vars
<1>12. QED
  BY <1>1, <1>2, <1>3, <1>4, <1>5, <1>6, <1>7, <1>8, <1>9, <1>10, <1>11
     DEF Next, ServerStep, BackendStep

LEMMA InitInOrder == Init => CallsInOrder
BY CodesAssumption DEF Init, CallsInOrder

LEMMA StepInOrder == TypeOK /\ CallsInOrder /\ [Next]_vars => CallsInOrder'
<1> SUFFICES ASSUME TypeOK, CallsInOrder, [Next]_vars
             PROVE  CallsInOrder'
  OBVIOUS
<1> USE CodesAssumption DEF clock, call, remote, hist, budget, To, TypeOK, CallsInOrder
<1>1. CASE Tick
  BY <1>1 DEF Tick
<1>2. ASSUME NEW c \in Codes, Prepare(c)
      PROVE  CallsInOrder'
  BY <1>2 DEF Prepare
<1>3. ASSUME NEW k \in Calls, NEW c \in Codes, NEW m \in Servers, Decode(k, c, m)
      PROVE  CallsInOrder'
  BY <1>3 DEF Decode
<1>4. ASSUME NEW k \in Calls, Acquire(k)
      PROVE  CallsInOrder'
  BY <1>4 DEF Acquire
<1>5. ASSUME NEW k \in Calls, Send(k) \/ SendFails(k) \/ Receive(k)
      PROVE  CallsInOrder'
  BY <1>5 DEF Send, SendFails, Receive
<1>6. ASSUME NEW k \in Calls, Commit(k) \/ Refuse(k)
      PROVE  CallsInOrder'
  BY <1>6 DEF Commit, Refuse
<1>7. ASSUME NEW k \in Calls, LoseAnswer(k)
      PROVE  CallsInOrder'
  BY <1>7 DEF LoseAnswer
<1>8. ASSUME NEW k \in Calls, Release(k) \/ Consume(k)
      PROVE  CallsInOrder'
  BY <1>8 DEF Release, Consume
<1>9. ASSUME NEW k \in Calls, AcquireFails(k) \/ LedgerWriteFails(k)
      PROVE  CallsInOrder'
  BY <1>9 DEF AcquireFails, LedgerWriteFails
<1>10. ASSUME NEW m \in Servers, Crash(m)
       PROVE  CallsInOrder'
  BY <1>10 DEF Crash, Active
<1>11. CASE UNCHANGED vars
  BY <1>11 DEF vars
<1>12. QED
  BY <1>1, <1>2, <1>3, <1>4, <1>5, <1>6, <1>7, <1>8, <1>9, <1>10, <1>11
     DEF Next, ServerStep, BackendStep

-----------------------------------------------------------------------------
(* A closed session is remembered *)

LEMMA StepRemembered ==
  TypeOK /\ CallsInOrder /\ ClosedIsRemembered /\ [Next]_vars => ClosedIsRemembered'
<1> SUFFICES ASSUME TypeOK, CallsInOrder, ClosedIsRemembered, [Next]_vars,
                    NEW k \in Calls, pc'[k] = "closed", now' < expiry'[code'[k]]
             PROVE  ledger'[code'[k]] = "consumed"
  BY DEF ClosedIsRemembered
<1> USE CodesAssumption DEF clock, call, remote, hist, budget, To, TypeOK, ClosedIsRemembered
<1>1. CASE Tick
  <2>1. now < expiry[code[k]]
    <3>1. code[k] \in Codes
      BY <1>1 DEF Tick, CallsInOrder
    <3>2. now' = now + 1 /\ now \in Nat /\ expiry[code[k]] \in Nat /\ now + 1 < expiry[code[k]]
      BY <1>1, <3>1 DEF Tick
    <3>3. QED
      BY <3>2
  <2>2. QED
    BY <1>1, <2>1 DEF Tick
<1>2. ASSUME NEW c \in Codes, Prepare(c)
      PROVE  ledger'[code'[k]] = "consumed"
  <2>1. code[k] \in Codes /\ expiry[code[k]] # 0
    BY <1>2 DEF Prepare, CallsInOrder
  <2>2. expiry'[code[k]] = expiry[code[k]]
    BY <1>2, <2>1 DEF Prepare
  <2>3. QED
    BY <1>2, <2>2 DEF Prepare
<1>3. ASSUME NEW j \in Calls, NEW c \in Codes, NEW m \in Servers, Decode(j, c, m)
      PROVE  ledger'[code'[k]] = "consumed"
  <2>1. j # k
    BY <1>3 DEF Decode
  <2>2. QED
    BY <1>3, <2>1 DEF Decode
<1>4. ASSUME NEW j \in Calls, Acquire(j)
      PROVE  ledger'[code'[k]] = "consumed"
  <2>1. pc[k] = "closed" /\ code'[k] = code[k] /\ now < expiry[code[k]] /\ code[k] \in Codes
    BY <1>4 DEF Acquire, CallsInOrder
  <2>2. ledger[code[k]] = "consumed"
    BY <2>1
  <2>3. code[k] \notin Purged
    BY <2>1 DEF Purged
  <2>4. CASE code[j] = code[k]
    BY <1>4, <2>1, <2>2, <2>3, <2>4 DEF Acquire, Refused
  <2>5. CASE code[j] # code[k]
    BY <1>4, <2>1, <2>2, <2>3, <2>5 DEF Acquire
  <2>6. QED
    BY <2>4, <2>5
<1>5. ASSUME NEW j \in Calls, Send(j) \/ SendFails(j) \/ Receive(j)
      PROVE  ledger'[code'[k]] = "consumed"
  BY <1>5 DEF Send, SendFails, Receive
<1>6. ASSUME NEW j \in Calls, Commit(j) \/ Refuse(j)
      PROVE  ledger'[code'[k]] = "consumed"
  BY <1>6 DEF Commit, Refuse
<1>7. ASSUME NEW j \in Calls, LoseAnswer(j)
      PROVE  ledger'[code'[k]] = "consumed"
  BY <1>7 DEF LoseAnswer
<1>8. ASSUME NEW j \in Calls, Release(j)
      PROVE  ledger'[code'[k]] = "consumed"
  BY <1>8 DEF Release
<1>9. ASSUME NEW j \in Calls, Consume(j)
      PROVE  ledger'[code'[k]] = "consumed"
  <2>1. code[k] \in Codes /\ code'[k] = code[k] /\ now < expiry[code[k]]
    BY <1>9 DEF Consume, CallsInOrder
  <2>2. CASE j = k
    BY <1>9, <2>1, <2>2 DEF Consume
  <2>3. CASE j # k
    BY <1>9, <2>1, <2>3 DEF Consume
  <2>4. QED
    BY <2>2, <2>3
<1>10. ASSUME NEW j \in Calls, AcquireFails(j) \/ LedgerWriteFails(j)
       PROVE  ledger'[code'[k]] = "consumed"
  BY <1>10 DEF AcquireFails, LedgerWriteFails
<1>11. ASSUME NEW m \in Servers, Crash(m)
       PROVE  ledger'[code'[k]] = "consumed"
  BY <1>11 DEF Crash, Active
<1>12. CASE UNCHANGED vars
  BY <1>12 DEF vars
<1>13. QED
  BY <1>1, <1>2, <1>3, <1>4, <1>5, <1>6, <1>7, <1>8, <1>9, <1>10, <1>11, <1>12
     DEF Next, ServerStep, BackendStep

\* Whatever is restarted, retried or lost, a code that closed a session is refused
\* until it expires: the consumed row of the ledger outlives every other caller.
THEOREM ClosedIsRememberedHolds == Spec => []ClosedIsRemembered
<1>1. Init => ClosedIsRemembered
  BY DEF Init, ClosedIsRemembered
<1>2. QED
  BY <1>1, InitType, StepType, InitInOrder, StepInOrder, StepRemembered, PTL DEF Spec

-----------------------------------------------------------------------------
(* Every duplicate is explained *)

\* WritesPaidFor of one code.
PaidFor(c) ==
  written[c] + Cardinality(MayFree(c)) + Cardinality(MayCommit(c)) + Admits(c)
    <= 1 + lost[c] + purges[c]

\* The bound survives a step that writes nothing, admits nobody new and neither
\* frees nor sends on behalf of a further call.
LEMMA QuietStep ==
  ASSUME TypeOK, TypeOK', NEW c \in Codes, PaidFor(c),
         MayFree(c)' \subseteq MayFree(c), MayCommit(c)' \subseteq MayCommit(c),
         written'[c] = written[c], Admits(c)' <= Admits(c),
         lost'[c] = lost[c], purges'[c] = purges[c]
  PROVE  PaidFor(c)'
<1>1. /\ Cardinality(MayFree(c)) \in Nat /\ Cardinality(MayCommit(c)) \in Nat
      /\ Cardinality(MayFree(c)') \in Nat /\ Cardinality(MayCommit(c)') \in Nat
      /\ Cardinality(MayFree(c)') <= Cardinality(MayFree(c))
      /\ Cardinality(MayCommit(c)') <= Cardinality(MayCommit(c))
  BY CountedSets, CountKept
<1>2. written[c] \in Nat /\ lost[c] \in Nat /\ purges[c] \in Nat
  BY CodesAssumption DEF TypeOK
<1>3. Admits(c) \in Nat /\ Admits(c)' \in Nat
  BY DEF Admits
<1>4. QED
  BY <1>1, <1>2, <1>3 DEF PaidFor

LEMMA AcquirePaidFor ==
  ASSUME TypeOK, TypeOK', CallsInOrder, NEW c \in Codes, PaidFor(c),
         NEW k \in Calls, Acquire(k)
  PROVE  PaidFor(c)'
<1> USE DEF To, remote
<1>1. code[k] \in Codes
  BY DEF Acquire, CallsInOrder, TypeOK
<1>2. MayCommit(c)' = MayCommit(c) /\ written'[c] = written[c] /\ lost'[c] = lost[c]
  BY DEF Acquire, MayCommit
<1>3. CASE Refused(code[k])
  <2>1. MayFree(c)' \subseteq MayFree(c)
    BY <1>3 DEF Acquire, MayFree, TypeOK
  <2>2. Admits(c)' = Admits(c) /\ purges'[c] = purges[c] /\ Admits(c) \in Nat
    BY <1>3 DEF Acquire, Admits
  <2>3. QED
    BY <1>2, <2>1, <2>2, QuietStep
<1>4. CASE ~Refused(code[k]) /\ code[k] # c
  <2>1. MayFree(c)' \subseteq MayFree(c)
    BY <1>4 DEF Acquire, MayFree, TypeOK
  <2>2. CASE c \in Purged
    <3>1. /\ Cardinality(MayFree(c)) \in Nat /\ Cardinality(MayCommit(c)) \in Nat
          /\ Cardinality(MayFree(c)') \in Nat
          /\ Cardinality(MayFree(c)') <= Cardinality(MayFree(c))
      BY <2>1, CountedSets, CountKept
    <3>2. Admits(c) \in Nat /\ Admits(c)' \in Nat /\ Admits(c)' <= Admits(c) + 1
      BY DEF Admits
    <3>3. purges'[c] = purges[c] + 1
      BY <1>4, <2>2 DEF Acquire
    <3>4. written[c] \in Nat /\ lost[c] \in Nat /\ purges[c] \in Nat
      BY CodesAssumption DEF TypeOK
    <3>5. QED
      BY <1>2, <3>1, <3>2, <3>3, <3>4 DEF PaidFor
  <2>3. CASE c \notin Purged
    <3>1. Admits(c)' = Admits(c) /\ Admits(c) \in Nat
      BY <1>4, <2>3 DEF Acquire, Admits
    <3>2. purges'[c] = purges[c]
      BY <1>4, <2>3 DEF Acquire, TypeOK
    <3>3. QED
      BY <1>2, <2>1, <3>1, <3>2, QuietStep
  <2>4. QED
    BY <2>2, <2>3
<1>5. CASE ~Refused(code[k]) /\ code[k] = c
  <2>1. MayFree(c)' \subseteq MayFree(c) \cup {k}
    BY <1>5 DEF Acquire, MayFree, TypeOK
  <2>2. /\ Cardinality(MayFree(c)) \in Nat /\ Cardinality(MayCommit(c)) \in Nat
        /\ Cardinality(MayFree(c)') \in Nat
        /\ Cardinality(MayFree(c)') <= Cardinality(MayFree(c)) + 1
    BY <2>1, CountedSets, CountAdded
  <2>3. Admits(c)' = 0
    BY <1>5 DEF Acquire, Admits
  <2>4. written[c] \in Nat /\ lost[c] \in Nat /\ purges[c] \in Nat
    BY CodesAssumption DEF TypeOK
  <2>5. CASE c \in Purged
    <3>1. purges'[c] = purges[c] + 1 /\ Admits(c) \in Nat
      BY <1>5, <2>5 DEF Acquire, Admits
    <3>2. QED
      BY <1>2, <2>2, <2>3, <2>4, <3>1 DEF PaidFor
  <2>6. CASE c \notin Purged
    <3>1. Admits(c) = 1
      BY <1>5, <2>6 DEF Refused, Admits
    <3>2. purges'[c] = purges[c]
      BY <1>5, <2>6 DEF Acquire, TypeOK
    <3>3. QED
      BY <1>2, <2>2, <2>3, <2>4, <3>1, <3>2 DEF PaidFor
  <2>7. QED
    BY <2>5, <2>6
<1>6. QED
  BY <1>3, <1>4, <1>5

\* A request is sent, committed or refused, or its answer is given up.
LEMMA RequestPaidFor ==
  ASSUME TypeOK, TypeOK', CallsInOrder, NEW c \in Codes, PaidFor(c), NEW k \in Calls,
         Send(k) \/ Commit(k) \/ Refuse(k) \/ LoseAnswer(k) \/ Release(k)
  PROVE  PaidFor(c)'
<1> USE DEF To, remote, call
<1>1. code[k] \in Codes
  BY DEF Send, Commit, Refuse, LoseAnswer, Release, CallsInOrder, TypeOK
<1>2. code' = code /\ purges' = purges
  BY DEF Send, Commit, Refuse, LoseAnswer, Release, hist
<1>3. /\ Cardinality(MayFree(c)) \in Nat /\ Cardinality(MayCommit(c)) \in Nat
      /\ Cardinality(MayFree(c)') \in Nat /\ Cardinality(MayCommit(c)') \in Nat
      /\ IsFiniteSet(MayFree(c)) /\ IsFiniteSet(MayCommit(c))
  BY CountedSets
<1>4. written[c] \in Nat /\ lost[c] \in Nat /\ purges[c] \in Nat
  BY CodesAssumption DEF TypeOK
<1>5. Admits(c) \in {0, 1} /\ Admits(c)' \in {0, 1}
  BY DEF Admits
<1>6. CASE code[k] # c
  <2>1. MayFree(c)' \subseteq MayFree(c) /\ MayCommit(c)' \subseteq MayCommit(c)
    BY <1>2, <1>6 DEF Send, Commit, Refuse, LoseAnswer, Release, MayFree, MayCommit, TypeOK
  <2>2. written'[c] = written[c] /\ lost'[c] = lost[c] /\ ledger'[c] = ledger[c]
    BY <1>1, <1>6 DEF Send, Commit, Refuse, LoseAnswer, Release, hist, TypeOK
  <2>3. Admits(c)' = Admits(c) /\ purges'[c] = purges[c]
    BY <1>2, <2>2 DEF Admits
  <2>4. Admits(c)' <= Admits(c)
    BY <1>5, <2>3
  <2>5. QED
    BY <2>1, <2>2, <2>3, <2>4, QuietStep
<1>7. CASE code[k] = c /\ Send(k)
  <2>1. /\ k \in MayFree(c) /\ MayFree(c)' \subseteq MayFree(c) \ {k}
        /\ MayCommit(c)' \subseteq MayCommit(c) \cup {k}
    BY <1>7 DEF Send, MayFree, MayCommit, TypeOK
  <2>2. /\ Cardinality(MayFree(c)') + 1 <= Cardinality(MayFree(c))
        /\ Cardinality(MayCommit(c)') <= Cardinality(MayCommit(c)) + 1
    BY <1>3, <2>1, CountAdded, CountRemoved
  <2>3. written'[c] = written[c] /\ lost'[c] = lost[c] /\ Admits(c)' = Admits(c)
    BY <1>7 DEF Send, hist, Admits
  <2>4. QED
    BY <1>2, <1>3, <1>4, <1>5, <2>2, <2>3 DEF PaidFor
<1>8. CASE code[k] = c /\ Commit(k)
  <2>1. /\ MayFree(c)' \subseteq MayFree(c)
        /\ k \in MayCommit(c) /\ MayCommit(c)' \subseteq MayCommit(c) \ {k}
    BY <1>8 DEF Commit, MayFree, MayCommit, TypeOK
  <2>2. /\ Cardinality(MayFree(c)') <= Cardinality(MayFree(c))
        /\ Cardinality(MayCommit(c)') + 1 <= Cardinality(MayCommit(c))
    BY <1>3, <2>1, CountKept, CountRemoved
  <2>3. written'[c] = written[c] + 1 /\ lost'[c] = lost[c] /\ Admits(c)' = Admits(c)
    BY <1>8 DEF Commit, hist, Admits, TypeOK
  <2>4. QED
    BY <1>2, <1>3, <1>4, <1>5, <2>2, <2>3 DEF PaidFor
<1>9. CASE code[k] = c /\ Refuse(k)
  <2>1. /\ MayFree(c)' \subseteq MayFree(c) \cup {k}
        /\ k \in MayCommit(c) /\ MayCommit(c)' \subseteq MayCommit(c) \ {k}
    BY <1>9 DEF Refuse, MayFree, MayCommit, TypeOK
  <2>2. /\ Cardinality(MayFree(c)') <= Cardinality(MayFree(c)) + 1
        /\ Cardinality(MayCommit(c)') + 1 <= Cardinality(MayCommit(c))
    BY <1>3, <2>1, CountAdded, CountRemoved
  <2>3. written'[c] = written[c] /\ lost'[c] = lost[c] /\ Admits(c)' = Admits(c)
    BY <1>9 DEF Refuse, hist, Admits
  <2>4. QED
    BY <1>2, <1>3, <1>4, <1>5, <2>2, <2>3 DEF PaidFor
<1>10. CASE code[k] = c /\ LoseAnswer(k)
  <2>1. MayFree(c)' \subseteq MayFree(c) \cup {k} /\ MayCommit(c)' \subseteq MayCommit(c)
    BY <1>10 DEF LoseAnswer, MayFree, MayCommit, TypeOK
  <2>2. /\ Cardinality(MayFree(c)') <= Cardinality(MayFree(c)) + 1
        /\ Cardinality(MayCommit(c)') <= Cardinality(MayCommit(c))
    BY <1>3, <2>1, CountAdded, CountKept
  <2>3. written'[c] = written[c] /\ lost'[c] = lost[c] + 1 /\ Admits(c)' = Admits(c)
    BY <1>10 DEF LoseAnswer, Admits, TypeOK
  <2>4. QED
    BY <1>2, <1>3, <1>4, <1>5, <2>2, <2>3 DEF PaidFor
<1>11. CASE code[k] = c /\ Release(k)
  <2>1. /\ k \in MayFree(c) /\ MayFree(c)' \subseteq MayFree(c) \ {k}
        /\ MayCommit(c)' \subseteq MayCommit(c)
    BY <1>11 DEF Release, MayFree, MayCommit, TypeOK
  <2>2. /\ Cardinality(MayFree(c)') + 1 <= Cardinality(MayFree(c))
        /\ Cardinality(MayCommit(c)') <= Cardinality(MayCommit(c))
    BY <1>3, <2>1, CountRemoved, CountKept
  <2>3. written'[c] = written[c] /\ lost'[c] = lost[c]
    BY <1>11 DEF Release, hist
  <2>4. QED
    BY <1>2, <1>3, <1>4, <1>5, <2>2, <2>3 DEF PaidFor
<1>12. QED
  BY <1>6, <1>7, <1>8, <1>9, <1>10, <1>11

LEMMA OtherPaidFor ==
  ASSUME TypeOK, TypeOK', CallsInOrder, NEW c \in Codes, PaidFor(c),
         \/ Tick
         \/ \E d \in Codes : Prepare(d)
         \/ \E k \in Calls : \/ \E d \in Codes, m \in Servers : Decode(k, d, m)
                             \/ SendFails(k) \/ Receive(k) \/ Consume(k)
                             \/ AcquireFails(k) \/ LedgerWriteFails(k)
         \/ \E m \in Servers : Crash(m)
         \/ UNCHANGED vars
  PROVE  PaidFor(c)'
<1> USE DEF To, remote, call, hist
<1>1. written' = written /\ lost' = lost /\ purges' = purges /\ request' = request
  BY DEF Tick, Prepare, Decode, SendFails, Receive, Consume, AcquireFails,
         LedgerWriteFails, Crash, vars
<1>2. Admits(c)' <= Admits(c)
  <2>1. ledger'[c] = "none" => ledger[c] = "none"
    BY DEF Tick, Prepare, Decode, SendFails, Receive, Consume, AcquireFails,
           LedgerWriteFails, Crash, vars, TypeOK
  <2>2. QED
    BY <2>1 DEF Admits
<1>3. MayFree(c)' \subseteq MayFree(c)
  BY DEF Tick, Prepare, Decode, SendFails, Receive, Consume, AcquireFails,
         LedgerWriteFails, Crash, vars, TypeOK, MayFree
<1>4. MayCommit(c)' \subseteq MayCommit(c)
  BY <1>1 DEF Tick, Prepare, Decode, SendFails, Receive, Consume, AcquireFails,
         LedgerWriteFails, Crash, vars, TypeOK, MayCommit, CallsInOrder
<1>5. QED
  BY <1>1, <1>2, <1>3, <1>4, QuietStep

LEMMA StepPaidFor ==
  TypeOK /\ CallsInOrder /\ WritesPaidFor /\ [Next]_vars => WritesPaidFor'
<1> SUFFICES ASSUME TypeOK, CallsInOrder, WritesPaidFor, [Next]_vars, NEW c \in Codes
             PROVE  PaidFor(c)'
  BY DEF WritesPaidFor, PaidFor
<1>1. TypeOK' /\ PaidFor(c)
  BY StepType DEF WritesPaidFor, PaidFor
<1>2. CASE \E k \in Calls : Acquire(k)
  BY <1>1, <1>2, AcquirePaidFor
<1>3. CASE \E k \in Calls : Send(k) \/ BackendStep(k) \/ LoseAnswer(k) \/ Release(k)
  BY <1>1, <1>3, RequestPaidFor DEF BackendStep
<1>4. CASE \/ Tick
           \/ \E d \in Codes : Prepare(d)
           \/ \E k \in Calls : \/ \E d \in Codes, m \in Servers : Decode(k, d, m)
                               \/ SendFails(k) \/ Receive(k) \/ Consume(k)
                               \/ AcquireFails(k) \/ LedgerWriteFails(k)
           \/ \E m \in Servers : Crash(m)
           \/ UNCHANGED vars
  BY <1>1, <1>4, OtherPaidFor
<1>5. QED
  BY <1>2, <1>3, <1>4 DEF Next, ServerStep

LEMMA InitPaidFor == Init => WritesPaidFor
<1> SUFFICES ASSUME Init, NEW c \in Codes
             PROVE  PaidFor(c)
  BY DEF WritesPaidFor, PaidFor
<1>1. MayFree(c) = {} /\ MayCommit(c) = {}
  BY DEF Init, MayFree, MayCommit
<1>2. Cardinality(MayFree(c)) = 0 /\ Cardinality(MayCommit(c)) = 0
  BY <1>1, FS_EmptySet
<1>3. written[c] = 0 /\ lost[c] = 0 /\ purges[c] = 0 /\ Admits(c) = 1
  BY DEF Init, Admits
<1>4. QED
  BY <1>2, <1>3 DEF PaidFor

LEMMA PaidForExplains == TypeOK /\ WritesPaidFor => DuplicatesExplained
<1> SUFFICES ASSUME TypeOK, WritesPaidFor, NEW c \in Codes
             PROVE  written[c] <= 1 + lost[c] + purges[c]
  BY DEF DuplicatesExplained
<1>1. Cardinality(MayFree(c)) \in Nat /\ Cardinality(MayCommit(c)) \in Nat
  BY CountedSets
<1>2. written[c] \in Nat /\ lost[c] \in Nat /\ purges[c] \in Nat /\ Admits(c) \in Nat
  BY CodesAssumption DEF TypeOK, Admits
<1>3. QED
  BY <1>1, <1>2 DEF WritesPaidFor

\* Every variable keeps the values its declaration promises.
THEOREM TypeCorrect == Spec => []TypeOK
BY InitType, StepType, PTL DEF Spec

\* However many servers, calls, crashes and failed ledger writes there are, a code
\* writes one closeout, and one more at most for each answer that did not arrive
\* and each time its row was purged: the two gaps of the ledger are the only ones.
THEOREM DuplicatesExplainedHolds == Spec => []DuplicatesExplained
BY InitType, StepType, InitInOrder, StepInOrder, InitPaidFor, StepPaidFor,
   PaidForExplains, PTL DEF Spec

-----------------------------------------------------------------------------
(* A refusal has a reason *)

\* The invariant: what was committed was written, a consumed row stands for a
\* closeout, a leased one for a closeout, a stranded lease or a call that holds it.
Reason(c) ==
  \/ written[c] > 0
  \/ stranded[c]
  \/ \E j \in Calls : code[j] = c /\ pc[j] \in Holding

RowsHaveReason ==
  /\ \A k \in Calls : request[k] = "committed" => written[code[k]] > 0
  /\ \A c \in Codes : ledger[c] = "consumed" => written[c] > 0
  /\ \A c \in Codes : ledger[c] = "leased" => Reason(c)

LEMMA InitReason == Init => RowsHaveReason
BY DEF Init, RowsHaveReason

\* A reason is lost only by a call that gives up its lease.
LEMMA ReasonKept ==
  ASSUME TypeOK, CallsInOrder, Next, NEW c \in Codes, Reason(c)
  PROVE  \/ Reason(c)'
         \/ \E k \in Calls : (Release(k) \/ Consume(k)) /\ code[k] = c
<1> USE DEF clock, call, remote, hist, budget, To
<1>1. written' = written \/ \E k \in Calls : Commit(k)
  BY DEF Next, ServerStep, BackendStep, Tick, Prepare, Decode, Acquire, Send, SendFails, Receive,
         Refuse, LoseAnswer, Release, Consume, AcquireFails, LedgerWriteFails, Crash
<1>2. ASSUME NEW k \in Calls, Commit(k) PROVE Reason(c)'
  <2>1. code[k] \in Codes
    BY <1>2 DEF Commit, CallsInOrder, TypeOK
  <2>2. \A n \in Nat : n > 0 => n + 1 > 0
    OBVIOUS
  <2>3. written[c] > 0 => written'[c] > 0
    BY <1>2, <2>1, <2>2 DEF Commit, TypeOK
  <2>4. QED
    BY <1>2, <2>3 DEF Reason, Commit
<1>3. ASSUME written' = written, written[c] > 0 PROVE Reason(c)'
  BY <1>3 DEF Reason
<1>4. ASSUME stranded[c] PROVE Reason(c)'
  <2>1. stranded'[c]
    BY <1>4 DEF Next, ServerStep, BackendStep, Tick, Prepare, Decode, Acquire, Send, SendFails,
       Receive, Commit, Refuse, LoseAnswer, Release, Consume, AcquireFails, LedgerWriteFails,
       Crash, TypeOK
  <2>2. QED
    BY <2>1 DEF Reason
<1>5. ASSUME NEW j \in Calls, code[j] = c, pc[j] \in Holding
      PROVE  \/ Reason(c)'
             \/ \E k \in Calls : (Release(k) \/ Consume(k)) /\ code[k] = c
  <2>1. CASE \E k \in Calls : LedgerWriteFails(k)
    <3>1. PICK k \in Calls : LedgerWriteFails(k)
      BY <2>1
    <3>2. CASE k = j
      BY <1>5, <3>1, <3>2 DEF LedgerWriteFails, Reason, TypeOK
    <3>3. CASE k # j
      BY <1>5, <3>1, <3>3 DEF LedgerWriteFails, Reason, TypeOK
    <3>4. QED
      BY <3>2, <3>3
  <2>2. CASE \E m \in Servers : Crash(m)
    <3>1. PICK m \in Servers : Crash(m)
      BY <2>2
    <3>2. CASE server[j] = m
      <4>1. stranded'[c]
        BY <1>5, <3>1, <3>2 DEF Crash
      <4>2. QED
        BY <4>1 DEF Reason
    <3>3. CASE server[j] # m
      BY <1>5, <3>1, <3>3 DEF Crash, Reason, TypeOK
    <3>4. QED
      BY <3>2, <3>3
  <2>3. CASE \E k \in Calls : Release(k) \/ Consume(k)
    <3>1. PICK k \in Calls : Release(k) \/ Consume(k)
      BY <2>3
    <3>2. CASE k # j
      BY <1>5, <3>1, <3>2 DEF Release, Consume, Reason, TypeOK
    <3>3. QED
      BY <1>5, <3>1, <3>2
  <2>4. CASE \/ Tick \/ \E d \in Codes : Prepare(d)
             \/ \E k \in Calls : Commit(k) \/ Refuse(k)
    BY <1>5, <2>4 DEF Tick, Prepare, Commit, Refuse, Reason
  <2>5. CASE \E k \in Calls : \/ \E d \in Codes, m \in Servers : Decode(k, d, m)
                              \/ Acquire(k) \/ AcquireFails(k)
    <3>1. PICK k \in Calls : \/ \E d \in Codes, m \in Servers : Decode(k, d, m)
                             \/ Acquire(k) \/ AcquireFails(k)
      BY <2>5
    <3>2. pc[k] \in {"new", "decoded"}
      BY <3>1 DEF Decode, Acquire, AcquireFails
    <3>3. k # j
      BY <1>5, <3>2 DEF Holding, Active
    <3>4. code'[j] = code[j] /\ pc'[j] = pc[j]
      BY <3>1, <3>3 DEF Decode, Acquire, AcquireFails, TypeOK
    <3>5. QED
      BY <1>5, <3>4 DEF Reason
  <2>6. CASE \E k \in Calls : Send(k) \/ SendFails(k) \/ Receive(k) \/ LoseAnswer(k)
    <3>1. PICK k \in Calls : Send(k) \/ SendFails(k) \/ Receive(k) \/ LoseAnswer(k)
      BY <2>6
    <3>2. code' = code /\ pc'[k] \in Holding /\ (k # j => pc'[j] = pc[j])
      BY <3>1 DEF Send, SendFails, Receive, LoseAnswer, Holding, Active, TypeOK
    <3>3. QED
      BY <1>5, <3>2 DEF Reason
  <2>7. \/ Tick \/ \E d \in Codes : Prepare(d)
        \/ \E k \in Calls : Commit(k) \/ Refuse(k)
        \/ \E k \in Calls : LedgerWriteFails(k)
        \/ \E m \in Servers : Crash(m)
        \/ \E k \in Calls : Release(k) \/ Consume(k)
        \/ \E k \in Calls : \/ \E d \in Codes, m \in Servers : Decode(k, d, m)
                            \/ Acquire(k) \/ AcquireFails(k)
        \/ \E k \in Calls : Send(k) \/ SendFails(k) \/ Receive(k) \/ LoseAnswer(k)
    BY DEF Next, ServerStep, BackendStep
  <2>8. QED
    BY <2>1, <2>2, <2>3, <2>4, <2>5, <2>6, <2>7
<1>6. written[c] > 0 => Reason(c)'
  BY <1>1, <1>2, <1>3
<1>7. written[c] > 0 \/ stranded[c] \/ \E j \in Calls : code[j] = c /\ pc[j] \in Holding
  BY DEF Reason
<1>8. QED
  BY <1>4, <1>5, <1>6, <1>7

\* Rows that a step changes.
LEMMA RowStep ==
  ASSUME TypeOK, CallsInOrder, Next, NEW c \in Codes
  PROVE  \/ ledger'[c] \in {ledger[c], "none"}
         \/ \E k \in Calls : Acquire(k) /\ code[k] = c /\ ledger'[c] = "leased"
                              /\ pc'[k] = "leased" /\ code' = code
         \/ \E k \in Calls : Consume(k) /\ code[k] = c /\ ledger[c] = "leased"
                              /\ ledger'[c] = "consumed"
<1> USE DEF clock, call, remote, hist, budget, To
<1>1. ASSUME NEW k \in Calls, Acquire(k)
      PROVE  \/ ledger'[c] \in {ledger[c], "none"}
             \/ code[k] = c /\ ledger'[c] = "leased" /\ pc'[k] = "leased" /\ code' = code
  BY <1>1 DEF Acquire, TypeOK
<1>2. ASSUME NEW k \in Calls, Consume(k)
      PROVE  \/ ledger'[c] = ledger[c]
             \/ code[k] = c /\ ledger[c] = "leased" /\ ledger'[c] = "consumed"
  BY <1>2 DEF Consume, TypeOK
<1>3. ASSUME NEW k \in Calls, Release(k) PROVE ledger'[c] \in {ledger[c], "none"}
  BY <1>3 DEF Release, TypeOK
<1>4. ASSUME \/ Tick \/ \E d \in Codes : Prepare(d) \/ \E m \in Servers : Crash(m)
             \/ \E k \in Calls : \/ \E d \in Codes, m \in Servers : Decode(k, d, m)
                                 \/ Send(k) \/ SendFails(k) \/ Receive(k) \/ LoseAnswer(k)
                                 \/ Commit(k) \/ Refuse(k)
                                 \/ AcquireFails(k) \/ LedgerWriteFails(k)
      PROVE  ledger' = ledger
  BY <1>4 DEF Tick, Prepare, Crash, Decode, Send, SendFails, Receive, LoseAnswer, Commit, Refuse,
              AcquireFails, LedgerWriteFails
<1>5. QED
  BY <1>1, <1>2, <1>3, <1>4 DEF Next, ServerStep, BackendStep

LEMMA StepReason ==
  ASSUME TypeOK, CallsInOrder, RowsHaveReason, Next
  PROVE  RowsHaveReason'
<1> USE DEF clock, call, remote, hist, budget, To
<1>1. ASSUME NEW c \in Codes, written[c] > 0 PROVE written'[c] > 0
  <2>1. CASE \E k \in Calls : Commit(k)
    <3>1. PICK k \in Calls : Commit(k)
      BY <2>1
    <3>2. written'[c] = written[c] \/ written'[c] = written[c] + 1
      BY <3>1 DEF Commit, TypeOK
    <3>3. QED
      BY <1>1, <3>2 DEF TypeOK
  <2>2. CASE written' = written
    BY <1>1, <2>2
  <2>3. QED
    BY <2>1, <2>2 DEF Next, ServerStep, BackendStep, Tick, Prepare, Decode, Acquire, Send,
       SendFails, Receive, Refuse, LoseAnswer, Release, Consume, AcquireFails, LedgerWriteFails,
       Crash
<1>2. ASSUME NEW k \in Calls, request'[k] = "committed" PROVE written'[code'[k]] > 0
  <2>1. CASE Commit(k)
    <3>1. code[k] \in Codes /\ code' = code
      BY <2>1 DEF Commit, CallsInOrder, TypeOK
    <3>2. written[code[k]] \in Nat /\ written'[code[k]] = written[code[k]] + 1
      BY <2>1, <3>1 DEF Commit, TypeOK
    <3>3. QED
      BY <3>1, <3>2
  <2>2. CASE ~Commit(k)
    <3>1. request[k] = "committed"
      BY <1>2, <2>2 DEF Next, ServerStep, BackendStep, Tick, Prepare, Decode, Acquire, Send,
         SendFails, Receive, Commit, Refuse, LoseAnswer, Release, Consume, AcquireFails,
         LedgerWriteFails, Crash, TypeOK
    <3>2. pc[k] # "new" /\ code[k] \in Codes
      BY <3>1 DEF CallsInOrder, TypeOK
    <3>3. code'[k] = code[k]
      BY <3>2 DEF Next, ServerStep, BackendStep, Tick, Prepare, Decode, Acquire, Send,
         SendFails, Receive, Commit, Refuse, LoseAnswer, Release, Consume, AcquireFails,
         LedgerWriteFails, Crash, TypeOK
    <3>4. QED
      BY <1>1, <3>1, <3>2, <3>3 DEF RowsHaveReason
  <2>3. QED
    BY <2>1, <2>2
<1>3. ASSUME NEW c \in Codes, ledger'[c] = "consumed" PROVE written'[c] > 0
  <2>1. CASE ledger[c] = "consumed"
    BY <1>1, <2>1 DEF RowsHaveReason
  <2>2. CASE \E k \in Calls : Consume(k) /\ code[k] = c
    <3>1. PICK k \in Calls : Consume(k) /\ code[k] = c
      BY <2>2
    <3>2. request[k] = "committed"
      BY <3>1 DEF Consume, CallsInOrder
    <3>3. QED
      BY <1>1, <3>1, <3>2 DEF RowsHaveReason
  <2>3. QED
    BY <1>3, <2>1, <2>2, RowStep
<1>4. ASSUME NEW c \in Codes, ledger'[c] = "leased" PROVE Reason(c)'
  <2>1. CASE \E k \in Calls : pc'[k] = "leased" /\ code'[k] = c
    BY <2>1 DEF Reason, Holding, Active
  <2>2. CASE ledger[c] = "leased"
    <3>1. Reason(c)
      BY <2>2 DEF RowsHaveReason
    <3>2. ~(\E k \in Calls : (Release(k) \/ Consume(k)) /\ code[k] = c)
      BY <1>4, <2>2 DEF Release, Consume, TypeOK
    <3>3. QED
      BY <3>1, <3>2, ReasonKept
  <2>3. QED
    BY <1>4, <2>1, <2>2, RowStep
<1>5. QED
  BY <1>2, <1>3, <1>4 DEF RowsHaveReason

LEMMA StutterReason == RowsHaveReason /\ UNCHANGED vars => RowsHaveReason'
BY DEF RowsHaveReason, Reason, vars, clock, call, remote, hist, budget

\* For any number of servers, calls, crashes and failed writes, a call that is told
\* its code was used meets a closeout, a stranded lease or a call that holds the
\* lease: a closeout that the backend refused, or never received, can be retried.
THEOREM RefusalHasReasonHolds == Spec => RefusalHasReason
<1> DEFINE Inv == TypeOK /\ CallsInOrder /\ RowsHaveReason
<1> DEFINE Told == \A k \in Calls :
                    pc[k] = "decoded" /\ pc'[k] = "replayed" =>
                      \/ written[code[k]] > 0
                      \/ stranded[code[k]]
                      \/ \E j \in Calls : code[j] = code[k] /\ pc[j] \in Holding
<1>1. Init => Inv
  BY InitType, InitInOrder, InitReason
<1>2. Inv /\ [Next]_vars => Inv'
  BY StepType, StepInOrder, StepReason, StutterReason
<1>3. Inv /\ [Next]_vars => [Told]_vars
  <2>1. SUFFICES ASSUME Inv, Next, NEW k \in Calls, pc[k] = "decoded", pc'[k] = "replayed"
                 PROVE  Reason(code[k])
    BY DEF Reason
  <2>2. Acquire(k) /\ Refused(code[k])
    BY <2>1 DEF Next, ServerStep, BackendStep, Tick, Prepare, Decode, Acquire, Send, SendFails,
       Receive, Commit, Refuse, LoseAnswer, Release, Consume, AcquireFails, LedgerWriteFails,
       Crash, TypeOK, clock, call, To, Active
  <2>3. code[k] \in Codes
    BY <2>1 DEF CallsInOrder, TypeOK
  <2>4. ledger[code[k]] \in {"leased", "consumed"}
    BY <2>1, <2>2, <2>3 DEF Refused, TypeOK
  <2>5. QED
    BY <2>1, <2>3, <2>4 DEF RowsHaveReason, Reason
<1>4. RefusalHasReason <=> [][Told]_vars
  BY DEF RefusalHasReason
<1> HIDE DEF Inv, Told
<1>5. QED
  BY <1>1, <1>2, <1>3, <1>4, PTL DEF Spec
=============================================================================
