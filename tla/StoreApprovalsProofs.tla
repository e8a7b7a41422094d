------------------------ MODULE StoreApprovalsProofs ------------------------
(***************************************************************************)
(* Proofs, for any number of requests, definitions, codes and faults, of   *)
(* what StoreApprovals keeps: a code decides once, one definition of a     *)
(* name is pending, a recorded decision has taken effect, and a pending    *)
(* definition is never left without a way to decide it.                    *)
(***************************************************************************)
EXTENDS StoreApprovals, TLAPS

USE ApprovalsAssumption

-----------------------------------------------------------------------------
(* Types *)

LEMMA SomeValues ==
  SomePerson \in People /\ SomeSchema \in Schemas /\ SomeDef \in Defs
<1>1. Defs # {}
  <2>1. PICK n \in Names : TRUE
    OBVIOUS
  <2>2. <<n, 1>> \in Defs
    BY <2>1 DEF Defs, Versions
  <2>3. QED
    BY <2>2
<1>2. QED
  BY <1>1, Zenon DEF SomePerson, SomeSchema, SomeDef

LEMMA FirstVersion ==
  ASSUME NEW n \in Names
  PROVE  <<n, 1>> \in Defs
BY DEF Defs, Versions

LEMMA InitType == Init => TypeOK
BY SomeValues DEF Init, TypeOK, Statuses, Ops

LEMMA BeginType ==
  ASSUME TypeOK, NEW k \in Reqs, NEW o \in Ops, NEW label \in Labels,
         NEW w \in People, NEW d \in Defs, NEW x \in Schemas,
         NEW a \in Reqs \cup {NoReq}, NEW c \in {0} \cup Codes,
         Begin(k, o, label, w, d, x, a, c)
  PROVE  TypeOK'
BY DEF TypeOK, Begin, To, Set, stores, links

LEMMA StepType == TypeOK /\ [Next]_vars => TypeOK'
<1> SUFFICES ASSUME TypeOK, [Next]_vars
             PROVE  TypeOK'
  OBVIOUS
<1> USE DEF stores, links, asked, local, To, Set, Labels, Sweeping, Outcomes
<1>1. ASSUME NEW k \in Reqs, Submit(k)
      PROVE  TypeOK'
  BY <1>1, BeginType, FirstVersion DEF Submit, TypeOK, Ops, Revisers
<1>2. ASSUME NEW k \in Reqs, Administer(k)
      PROVE  TypeOK'
  BY <1>2, BeginType, FirstVersion DEF Administer, TypeOK, Ops
<1>3. ASSUME NEW k \in Reqs, Decide(k)
      PROVE  TypeOK'
  BY <1>3, BeginType DEF Decide, TypeOK, Ops, Decisions
<1>4. ASSUME NEW k \in Reqs, EditPrompt(k)
      PROVE  TypeOK'
  BY <1>4, BeginType DEF EditPrompt, TypeOK, Ops
<1>5. ASSUME NEW k \in Reqs, SweepSelect(k)
      PROVE  TypeOK'
  BY <1>5 DEF TypeOK, SweepSelect, Lapsed, Entry
<1>6. ASSUME NEW k \in Reqs, SweepMark(k)
      PROVE  TypeOK'
  BY <1>6 DEF TypeOK, SweepMark
<1>7. ASSUME NEW k \in Reqs, SweepClose(k)
      PROVE  TypeOK'
  BY <1>7 DEF TypeOK, SweepClose, Entry
<1>8. ASSUME NEW k \in Reqs, SweepCloseWrite(k)
      PROVE  TypeOK'
  BY <1>8 DEF TypeOK, SweepCloseWrite, Statuses
<1>9. ASSUME NEW k \in Reqs, Get(k)
      PROVE  TypeOK'
  BY <1>9 DEF TypeOK, Get, Ops, Revisers
<1>10. ASSUME NEW k \in Reqs, Propose(k)
      PROVE  TypeOK'
  BY <1>10 DEF TypeOK, Propose
<1>11. ASSUME NEW k \in Reqs, Insert(k)
      PROVE  TypeOK'
  BY <1>11 DEF TypeOK, Insert, Statuses
<1>12. ASSUME NEW k \in Reqs, Reread(k)
      PROVE  TypeOK'
  BY <1>12 DEF TypeOK, Reread
<1>13. ASSUME NEW k \in Reqs, Issue(k)
      PROVE  TypeOK'
  BY <1>13 DEF TypeOK, Issue
<1>14. ASSUME NEW k \in Reqs, Find(k)
      PROVE  TypeOK'
  BY <1>14 DEF TypeOK, Find, ExpireAndForget, Lapsed
<1>15. ASSUME NEW k \in Reqs, Update(k)
      PROVE  TypeOK'
  BY <1>15 DEF TypeOK, Update
<1>16. ASSUME NEW k \in Reqs, UpdateWrite(k)
      PROVE  TypeOK'
  BY <1>16 DEF TypeOK, UpdateWrite
<1>17. ASSUME NEW k \in Reqs, Collect(k)
      PROVE  TypeOK'
  BY <1>17 DEF TypeOK, Collect, ExpireAndForget, Lapsed, LiveLinks
<1>18. ASSUME NEW k \in Reqs, Retire(k)
      PROVE  TypeOK'
  BY <1>18 DEF TypeOK, Retire, ExpireAndForget, Lapsed
<1>19. ASSUME NEW k \in Reqs, Read(k)
      PROVE  TypeOK'
  BY <1>19 DEF TypeOK, Read, Decided
<1>20. ASSUME NEW k \in Reqs, Verify(k)
      PROVE  TypeOK'
  BY <1>20 DEF TypeOK, Verify, Decided
<1>21. ASSUME NEW k \in Reqs, Fetch(k)
      PROVE  TypeOK'
  BY <1>21 DEF TypeOK, Fetch
<1>22. ASSUME NEW k \in Reqs, Apply(k)
      PROVE  TypeOK'
  BY <1>22 DEF TypeOK, Apply, NewStatus, Statuses
<1>23. ASSUME NEW k \in Reqs, List(k) \/ Record(k)
      PROVE  TypeOK'
  BY <1>23 DEF TypeOK, List, Record, ExpireAndForget, Lapsed
<1>24. ASSUME NEW k \in Reqs, Settle(k)
      PROVE  TypeOK'
  BY <1>24 DEF TypeOK, Settle, Settlement
<1>25. ASSUME NEW k \in Reqs, WriteSections(k) \/ WriteRules(k)
      PROVE  TypeOK'
  BY <1>25 DEF TypeOK, WriteSections, WriteRules
<1>26. ASSUME NEW a \in Reqs, Age(a)
      PROVE  TypeOK'
  BY <1>26 DEF TypeOK, Age
<1>27. ASSUME NEW S \in SUBSET Reqs, Lose(S)
      PROVE  TypeOK'
  <2>1. crashes' \in 0 .. MaxCrashes
    BY <1>27 DEF TypeOK, Lose
  <2>2. stranded' \subseteq Defs
    BY <1>27 DEF TypeOK, Lose, Handled
  <2>3. QED
    BY <1>27, <2>1, <2>2, SomeValues DEF TypeOK, Lose, Wiped, Ops
<1>28. CASE Crash
  BY <1>28, <1>27 DEF Crash
<1>29. ASSUME NEW k \in Reqs, DbFails(k)
      PROVE  TypeOK'
  BY <1>29, <1>27 DEF DbFails
<1>30. CASE UNCHANGED vars
  BY <1>30 DEF TypeOK, vars
<1>31. QED
  BY <1>1, <1>2, <1>3, <1>4, <1>5, <1>6, <1>7, <1>8, <1>9, <1>10, <1>11, <1>12, <1>13,
     <1>14, <1>15, <1>16, <1>17, <1>18, <1>19, <1>20, <1>21, <1>22, <1>23, <1>24, <1>25,
     <1>26, <1>28, <1>29, <1>30
     DEF Next, SweepStep, StoreStep, DecisionStep

\* Every reachable state is well typed.
THEOREM TypeCorrect == Spec => []TypeOK
BY InitType, StepType, PTL DEF Spec

-----------------------------------------------------------------------------
(* Beginnings *)

\* What the four ways to begin have in common: a decision starts with the
\* expiry and is about the row of the approval it names, which was issued.
LEMMA BeginStep ==
  ASSUME TypeOK, NEW k \in Reqs,
         Submit(k) \/ Administer(k) \/ Decide(k) \/ EditPrompt(k)
  PROVE  \E o \in Ops, label \in {"sweep", "get", "fetch", "issue"}, w \in People,
            d \in Defs, x \in Schemas, a \in Reqs \cup {NoReq}, c \in {0} \cup Codes :
           /\ Begin(k, o, label, w, d, x, a, c)
           /\ a # NoReq => appr[a] # "absent"
           /\ o \in Decisions => label = "sweep" /\ a \in Reqs /\ d = row[a]
<1> USE DEF Ops, Decisions, Revisers, TypeOK
<1>1. CASE Submit(k)
  <2>1. PICK w \in People, n \in Names :
          \/ \E x \in Schemas : \/ Begin(k, "propose", "sweep", w, <<n, 1>>, x, NoReq, 0)
                                \/ Begin(k, "patch", "get", w, <<n, 1>>, x, NoReq, 0)
          \/ Begin(k, "withdraw", "get", w, <<n, 1>>, text[k], NoReq, 0)
    BY <1>1 DEF Submit
  <2>2. <<n, 1>> \in Defs /\ text[k] \in Schemas
    BY FirstVersion
  <2>3. CASE \E x \in Schemas : Begin(k, "propose", "sweep", w, <<n, 1>>, x, NoReq, 0)
    BY <2>2, <2>3
  <2>4. CASE \E x \in Schemas : Begin(k, "patch", "get", w, <<n, 1>>, x, NoReq, 0)
    BY <2>2, <2>4
  <2>5. CASE Begin(k, "withdraw", "get", w, <<n, 1>>, text[k], NoReq, 0)
    BY <2>2, <2>5
  <2>6. QED
    BY <2>1, <2>3, <2>4, <2>5
<1>2. CASE Administer(k)
  <2>1. CASE \E n \in Names, o \in {"adminApprove", "adminReject", "archive"} :
               Begin(k, o, "fetch", who[k], <<n, 1>>, text[k], NoReq, 0)
    <3>1. PICK n \in Names, o \in {"adminApprove", "adminReject", "archive"} :
            Begin(k, o, "fetch", who[k], <<n, 1>>, text[k], NoReq, 0)
      BY <2>1
    <3>2. <<n, 1>> \in Defs /\ text[k] \in Schemas /\ who[k] \in People
      BY FirstVersion
    <3>3. QED
      BY <3>1, <3>2
  <2>2. CASE \E o \in {"list", "show"} :
               Begin(k, o, "sweep", who[k], row[k], text[k], NoReq, 0)
    <3>1. PICK o \in {"list", "show"} :
            Begin(k, o, "sweep", who[k], row[k], text[k], NoReq, 0)
      BY <2>2
    <3>2. row[k] \in Defs /\ text[k] \in Schemas /\ who[k] \in People
      OBVIOUS
    <3>3. QED
      BY <3>1, <3>2
  <2>3. QED
    BY <1>2, <2>1, <2>2 DEF Administer
<1>3. CASE Decide(k)
  <2>1. PICK a \in Reqs :
          /\ appr[a] # "absent"
          /\ \/ \E c \in Codes : Begin(k, "approve", "sweep", who[k], row[a], text[k], a, c)
             \/ Begin(k, "reject", "sweep", who[k], row[a], text[k], a, 0)
             \/ \E w \in People : Begin(k, "retract", "sweep", w, row[a], text[k], a, 0)
    BY <1>3 DEF Decide
  <2>2. row[a] \in Defs /\ text[k] \in Schemas /\ who[k] \in People
    OBVIOUS
  <2>3. CASE \E c \in Codes : Begin(k, "approve", "sweep", who[k], row[a], text[k], a, c)
    <3>1. PICK c \in Codes : Begin(k, "approve", "sweep", who[k], row[a], text[k], a, c)
      BY <2>3
    <3> WITNESS "approve" \in Ops, "sweep" \in {"sweep", "get", "fetch", "issue"},
                who[k] \in People, row[a] \in Defs, text[k] \in Schemas,
                a \in Reqs \cup {NoReq}, c \in {0} \cup Codes
    <3>2. QED
      BY <2>1, <3>1
  <2>4. CASE Begin(k, "reject", "sweep", who[k], row[a], text[k], a, 0)
    BY <2>1, <2>2, <2>4
  <2>5. CASE \E w \in People : Begin(k, "retract", "sweep", w, row[a], text[k], a, 0)
    BY <2>1, <2>2, <2>5
  <2>6. QED
    BY <2>1, <2>3, <2>4, <2>5
<1>4. CASE EditPrompt(k)
  BY <1>4 DEF EditPrompt
<1>5. QED
  BY <1>1, <1>2, <1>3, <1>4

-----------------------------------------------------------------------------
(* A code decides once *)

AuthorizedLabels == {"fetch", "apply", "record", "settle", "sections", "rules", "done"}

\* An approving request passes verify_totp on its way to the store, and
\* last_used_counter never falls below a code that was accepted.
ApproveTrail ==
  \A k \in Reqs :
    op[k] = "approve" =>
      /\ pc[k] \in Sweeping \cup {"read", "verify", "refused"} \cup AuthorizedLabels
      /\ pc[k] \in AuthorizedLabels => code[k] <= lastUsed

TrailInv == TypeOK /\ ApproveTrail /\ CodeDecidesOnce

\* What a step may do to an approving request that is not verified in it.
Onward(k) ==
  op'[k] = "approve" =>
    \/ pc'[k] \in Sweeping \cup {"read", "verify", "refused"}
    \/ /\ op[k] = "approve" /\ code'[k] = code[k]
       /\ pc[k] \in AuthorizedLabels /\ pc'[k] \in AuthorizedLabels

LEMMA TrailKept ==
  ASSUME TrailInv, TypeOK', lastUsed' = lastUsed, \A k \in Reqs : Onward(k)
  PROVE  TrailInv'
BY DEF TrailInv, ApproveTrail, CodeDecidesOnce, Authorized, Onward, AuthorizedLabels, Sweeping

LEMMA StepTrail == TrailInv /\ [Next]_vars => TrailInv'
<1> SUFFICES ASSUME TrailInv, [Next]_vars
             PROVE  TrailInv'
  OBVIOUS
<1>0. TypeOK /\ TypeOK'
  BY StepType DEF TrailInv
<1> USE <1>0 DEF stores, links, asked, local, To, Set
<1>1. ASSUME NEW k \in Reqs, Submit(k) \/ Administer(k) \/ Decide(k) \/ EditPrompt(k)
      PROVE  TrailInv'
  <2>1. /\ op'[k] = "approve" => pc'[k] = "sweep"
        /\ \A j \in Reqs \ {k} : op'[j] = op[j] /\ pc'[j] = pc[j] /\ code'[j] = code[j]
        /\ lastUsed' = lastUsed
    BY <1>1, BeginStep DEF Begin, TypeOK, Decisions
  <2>2. \A j \in Reqs : Onward(j)
    BY <2>1 DEF Onward, TrailInv, ApproveTrail, Sweeping
  <2>3. QED
    BY <2>1, <2>2, TrailKept
<1>2. ASSUME NEW k \in Reqs, SweepStep(k)
      PROVE  TrailInv'
  <2>1. /\ op' = op /\ code' = code /\ lastUsed' = lastUsed
        /\ op[k] = "approve" => pc'[k] \in Sweeping \cup {"read"}
        /\ \A j \in Reqs \ {k} : pc'[j] = pc[j]
    BY <1>2 DEF SweepStep, SweepSelect, SweepMark, SweepClose, SweepCloseWrite, Entry,
                Decisions, TypeOK, Sweeping
  <2>2. \A j \in Reqs : Onward(j)
    BY <2>1 DEF Onward, TrailInv, ApproveTrail
  <2>3. QED
    BY <2>1, <2>2, TrailKept
<1>3. ASSUME NEW k \in Reqs, StoreStep(k)
      PROVE  TrailInv'
  <2>1. /\ op[k] # "approve"
        /\ op'[k] # "approve"
        /\ \A j \in Reqs \ {k} : pc'[j] = pc[j] /\ op'[j] = op[j]
        /\ code' = code /\ lastUsed' = lastUsed
    BY <1>3 DEF StoreStep, Get, Propose, Insert, Reread, Issue, Find, Update, UpdateWrite,
                Collect, Retire, TypeOK, TrailInv, ApproveTrail, Sweeping, AuthorizedLabels
  <2>2. \A j \in Reqs : Onward(j)
    BY <2>1 DEF Onward, TrailInv, ApproveTrail
  <2>3. QED
    BY <2>1, <2>2, TrailKept
<1>4. ASSUME NEW k \in Reqs, Verify(k)
      PROVE  TrailInv'
  <2>0. op' = op /\ code' = code
    BY <1>4 DEF Verify
  <2>1. CASE To(k, "refused") /\ lastUsed' = lastUsed
    <3>1. \A j \in Reqs : Onward(j)
      BY <2>0, <2>1 DEF Onward, TypeOK, TrailInv, ApproveTrail
    <3>2. QED
      BY <2>1, <3>1, TrailKept
  <2>2. CASE code[k] > lastUsed /\ lastUsed' = code[k] /\ To(k, Decided(k))
    BY <1>4, <2>2 DEF Verify, Decided, TypeOK, TrailInv, ApproveTrail, CodeDecidesOnce,
                      Authorized, AuthorizedLabels, Sweeping, Codes
  <2>3. QED
    BY <1>4, <2>1, <2>2 DEF Verify
<1>5. ASSUME NEW k \in Reqs, \/ Read(k)   \/ Fetch(k) \/ Apply(k) \/ List(k) \/ Record(k)
                             \/ Settle(k) \/ WriteSections(k) \/ WriteRules(k)
      PROVE  TrailInv'
  <2>1. /\ op' = op /\ code' = code /\ lastUsed' = lastUsed
        /\ op[k] = "approve" => \/ pc'[k] \in {"verify", "refused"}
                                \/ pc[k] \in AuthorizedLabels /\ pc'[k] \in AuthorizedLabels
        /\ \A j \in Reqs \ {k} : pc'[j] = pc[j]
    <3>1. /\ op[k] = "approve" => pc[k] \in Sweeping \cup {"read", "verify", "refused"}
                                                  \cup AuthorizedLabels
          /\ pc \in [Reqs -> {"new"} \cup Labels \cup Outcomes]
      BY DEF TrailInv, ApproveTrail, TypeOK
    <3>2. CASE Read(k)
      BY <3>1, <3>2 DEF Read, Decided, AuthorizedLabels
    <3>3. CASE Fetch(k)
      BY <3>1, <3>3 DEF Fetch, AuthorizedLabels
    <3>4. CASE Apply(k)
      BY <3>1, <3>4 DEF Apply, AuthorizedLabels, Decisions
    <3>5. CASE List(k) \/ Record(k)
      BY <3>1, <3>5 DEF List, Record, AuthorizedLabels, Sweeping
    <3>6. CASE Settle(k)
      BY <3>1, <3>6 DEF Settle, AuthorizedLabels, Revisers
    <3>7. CASE WriteSections(k) \/ WriteRules(k)
      BY <3>1, <3>7 DEF WriteSections, WriteRules, AuthorizedLabels
    <3>8. QED
      BY <1>5, <3>2, <3>3, <3>4, <3>5, <3>6, <3>7
  <2>2. \A j \in Reqs : Onward(j)
    BY <2>1 DEF Onward, TrailInv, ApproveTrail
  <2>3. QED
    BY <2>1, <2>2, TrailKept
<1>6. ASSUME NEW S \in SUBSET Reqs, Lose(S)
      PROVE  TrailInv'
  <2>1. \A j \in Reqs : Onward(j)
    BY <1>6 DEF Lose, Wiped, Onward, TrailInv, ApproveTrail
  <2>2. QED
    BY <1>6, <2>1, TrailKept DEF Lose
<1>7. CASE (\E a \in Reqs : Age(a)) \/ UNCHANGED vars
  <2>1. UNCHANGED <<op, pc, code, lastUsed>>
    BY <1>7 DEF Age, vars
  <2>2. \A j \in Reqs : Onward(j)
    BY <2>1 DEF Onward, TrailInv, ApproveTrail
  <2>3. QED
    BY <2>1, <2>2, TrailKept
<1>8. QED
  BY <1>1, <1>2, <1>3, <1>4, <1>5, <1>6, <1>7 DEF Next, DecisionStep, Crash, DbFails

\* However many threads present a code, and however often, it approves one
\* approval: the guarded UPDATE of verify_totp suffices.
THEOREM CodeDecidesOnceHolds == Spec => []CodeDecidesOnce
<1>1. Init => TrailInv
  BY InitType DEF Init, TrailInv, ApproveTrail, CodeDecidesOnce, Authorized
<1>2. QED
  BY <1>1, StepTrail, PTL DEF Spec, TrailInv

-----------------------------------------------------------------------------
(* Approvals outlive the requests that refer to them *)

\* A request that issued its approval is over, so the row and the text the
\* approval shows no longer change.
IssuedIsDone == \A a \in Reqs : appr[a] # "absent" => pc[a] = "done"

\* What a request holds on to was issued.
Linked ==
  \A k \in Reqs :
    /\ \A a \in todo[k] : appr[a] # "absent"
    /\ target[k] # NoReq => appr[target[k]] # "absent"
    /\ cur[k] # NoReq => appr[cur[k]] # "absent"

LinksInv == TypeOK /\ IssuedIsDone /\ Linked

IssuedKept ==
  \A a \in Reqs :
    appr[a] # "absent" =>
      appr'[a] # "absent" /\ pc'[a] = "done" /\ row'[a] = row[a] /\ op'[a] = op[a]

\* A step of a request that is not over and issues nothing.
LEMMA LinksKept ==
  ASSUME LinksInv, TypeOK', NEW k \in Reqs, pc[k] # "done",
         \A a \in Reqs : appr[a] = "absent" <=> appr'[a] = "absent",
         \A j \in Reqs \ {k} : /\ pc'[j] = pc[j] /\ row'[j] = row[j] /\ op'[j] = op[j]
                               /\ todo'[j] = todo[j] /\ target'[j] = target[j]
                               /\ cur'[j] = cur[j],
         \A a \in todo'[k] : appr[a] # "absent",
         target'[k] # NoReq => appr[target'[k]] # "absent",
         cur'[k] # NoReq => appr[cur'[k]] # "absent"
  PROVE  LinksInv' /\ IssuedKept
<1>1. IssuedKept /\ IssuedIsDone'
  BY DEF LinksInv, IssuedIsDone, IssuedKept
<1>2. Linked'
  <2>1. \A j \in Reqs : /\ todo'[j] \subseteq Reqs
                        /\ target'[j] \in Reqs \cup {NoReq} /\ cur'[j] \in Reqs \cup {NoReq}
    BY DEF TypeOK
  <2>2. QED
    BY <2>1 DEF LinksInv, Linked
<1>3. QED
  BY <1>1, <1>2 DEF LinksInv

LEMMA StepLinks == LinksInv /\ [Next]_vars => LinksInv' /\ IssuedKept
<1> SUFFICES ASSUME LinksInv, [Next]_vars
             PROVE  LinksInv' /\ IssuedKept
  OBVIOUS
<1>0. TypeOK /\ TypeOK'
  BY StepType DEF LinksInv
<1> USE <1>0 DEF stores, links, asked, local, To, Set
<1>1. ASSUME NEW k \in Reqs, Submit(k) \/ Administer(k) \/ Decide(k) \/ EditPrompt(k)
      PROVE  LinksInv' /\ IssuedKept
  <2>1. PICK o \in Ops, label \in {"sweep", "get", "fetch", "issue"}, w \in People,
             d \in Defs, x \in Schemas, a \in Reqs \cup {NoReq}, c \in {0} \cup Codes :
          Begin(k, o, label, w, d, x, a, c) /\ (a # NoReq => appr[a] # "absent")
    BY <1>1, BeginStep
  <2>2. QED
    BY <2>1, LinksKept DEF Begin, TypeOK, LinksInv, Linked
<1>2. ASSUME NEW k \in Reqs, SweepSelect(k)
      PROVE  LinksInv' /\ IssuedKept
  BY <1>2, LinksKept DEF SweepSelect, Lapsed, TypeOK, LinksInv, Linked
<1>3. ASSUME NEW k \in Reqs, SweepMark(k)
      PROVE  LinksInv' /\ IssuedKept
  BY <1>3, LinksKept DEF SweepMark, TypeOK, LinksInv, Linked
<1>4. ASSUME NEW k \in Reqs, SweepClose(k)
      PROVE  LinksInv' /\ IssuedKept
  BY <1>4, LinksKept DEF SweepClose, TypeOK, LinksInv, Linked
<1>5. ASSUME NEW k \in Reqs, SweepCloseWrite(k)
      PROVE  LinksInv' /\ IssuedKept
  BY <1>5, LinksKept DEF SweepCloseWrite, TypeOK, LinksInv, Linked
<1>6. ASSUME NEW k \in Reqs, Get(k) \/ Propose(k) \/ Insert(k) \/ Reread(k)
                             \/ Update(k) \/ UpdateWrite(k)
      PROVE  LinksInv' /\ IssuedKept
  <2>1. /\ pc[k] # "done" /\ UNCHANGED <<appr, todo, target, cur>>
        /\ \A j \in Reqs \ {k} : pc'[j] = pc[j] /\ row'[j] = row[j] /\ op'[j] = op[j]
    BY <1>6 DEF Get, Propose, Insert, Reread, Update, UpdateWrite, TypeOK
  <2>2. QED
    BY <2>1, LinksKept DEF LinksInv, Linked
<1>7. ASSUME NEW k \in Reqs, Issue(k)
      PROVE  LinksInv' /\ IssuedKept
  BY <1>7 DEF Issue, TypeOK, LinksInv, IssuedIsDone, Linked, IssuedKept
<1>8. ASSUME NEW k \in Reqs, Find(k) \/ List(k) \/ Record(k)
      PROVE  LinksInv' /\ IssuedKept
  <2>1. /\ pc[k] # "done" /\ UNCHANGED <<row, op, todo, target, cur>>
        /\ \A j \in Reqs \ {k} : pc'[j] = pc[j]
        /\ \A a \in Reqs : appr[a] = "absent" <=> appr'[a] = "absent"
    BY <1>8 DEF Find, List, Record, ExpireAndForget, Lapsed, TypeOK
  <2>2. QED
    BY <2>1, LinksKept DEF LinksInv, Linked
<1>9. ASSUME NEW k \in Reqs, Collect(k)
      PROVE  LinksInv' /\ IssuedKept
  <2>1. /\ pc[k] # "done" /\ UNCHANGED <<row, op, target, cur>>
        /\ \A j \in Reqs \ {k} : pc'[j] = pc[j] /\ todo'[j] = todo[j]
        /\ \A a \in Reqs : appr[a] = "absent" <=> appr'[a] = "absent"
        /\ \A a \in todo'[k] : appr[a] # "absent"
    BY <1>9 DEF Collect, ExpireAndForget, Lapsed, LiveLinks, Live, TypeOK
  <2>2. QED
    BY <2>1, LinksKept DEF LinksInv, Linked
<1>10. ASSUME NEW k \in Reqs, Retire(k)
      PROVE  LinksInv' /\ IssuedKept
  <2>1. /\ pc[k] # "done" /\ UNCHANGED <<row, op, target, todo>>
        /\ \A j \in Reqs \ {k} : pc'[j] = pc[j] /\ cur'[j] = cur[j]
        /\ \A a \in Reqs : appr[a] = "absent" <=> appr'[a] = "absent"
        /\ cur'[k] = cur[k] \/ cur'[k] \in todo[k]
    BY <1>10 DEF Retire, ExpireAndForget, Lapsed, TypeOK
  <2>2. QED
    BY <2>1, LinksKept DEF LinksInv, Linked
<1>11. ASSUME NEW k \in Reqs, Read(k) \/ Verify(k) \/ Fetch(k) \/ Apply(k)
                              \/ WriteSections(k) \/ WriteRules(k)
      PROVE  LinksInv' /\ IssuedKept
  <2>1. /\ pc[k] # "done" /\ UNCHANGED <<appr, op, todo, target, cur>>
        /\ \A j \in Reqs \ {k} : pc'[j] = pc[j] /\ row'[j] = row[j]
    BY <1>11 DEF Read, Verify, Fetch, Apply, WriteSections, WriteRules, TypeOK
  <2>2. QED
    BY <2>1, LinksKept DEF LinksInv, Linked
<1>12. ASSUME NEW k \in Reqs, Settle(k)
      PROVE  LinksInv' /\ IssuedKept
  <2>1. Settled(k) # NoReq => Settled(k) \in Reqs /\ appr[Settled(k)] # "absent"
    BY <1>12 DEF Settled, TypeOK, LinksInv, Linked
  <2>2. /\ pc[k] # "done" /\ UNCHANGED <<row, op, target>>
        /\ \A j \in Reqs \ {k} : pc'[j] = pc[j] /\ cur'[j] = cur[j] /\ todo'[j] = todo[j]
        /\ cur'[k] = NoReq /\ todo'[k] \subseteq todo[k]
    BY <1>12 DEF Settle, TypeOK
  <2>3. \A a \in Reqs : appr[a] = "absent" <=> appr'[a] = "absent"
    BY <1>12, <2>1 DEF Settle, Settlement, TypeOK
  <2>4. QED
    BY <2>2, <2>3, LinksKept DEF LinksInv, Linked
<1>13. ASSUME NEW a \in Reqs, Age(a)
      PROVE  LinksInv' /\ IssuedKept
  BY <1>13 DEF Age, LinksInv, IssuedIsDone, Linked, IssuedKept
<1>14. ASSUME NEW S \in SUBSET Reqs, Lose(S), \A k \in S : Active(k)
      PROVE  LinksInv' /\ IssuedKept
  <2>1. \A k \in S : pc[k] # "done"
    BY <1>14 DEF Active, Labels, Sweeping
  <2>2. IssuedKept /\ IssuedIsDone'
    BY <1>14, <2>1 DEF Lose, Wiped, LinksInv, IssuedIsDone, IssuedKept
  <2>3. Linked'
    BY <1>14 DEF Lose, Wiped, LinksInv, Linked
  <2>4. QED
    BY <2>2, <2>3 DEF LinksInv
<1>15. CASE UNCHANGED vars
  BY <1>15 DEF vars, LinksInv, IssuedIsDone, Linked, IssuedKept
<1>16. CASE Crash
  BY <1>14, <1>16 DEF Crash
<1>17. ASSUME NEW k \in Reqs, DbFails(k)
      PROVE  LinksInv' /\ IssuedKept
  BY <1>14, <1>17 DEF DbFails
<1>18. QED
  BY <1>1, <1>2, <1>3, <1>4, <1>5, <1>6, <1>7, <1>8, <1>9, <1>10, <1>11, <1>12, <1>13,
     <1>15, <1>16, <1>17 DEF Next, SweepStep, StoreStep, DecisionStep

LEMMA InitLinks == Init => LinksInv
BY InitType DEF Init, LinksInv, IssuedIsDone, Linked

-----------------------------------------------------------------------------
(* One pending definition of a name *)

\* Versions are handed out without gaps.
Contiguous ==
  \A d \in Defs, u \in Versions :
    status[d] # "absent" /\ u < d[2] => status[<<d[1], u>>] # "absent"

\* A request about to insert a version has seen the one before closed.
InsertReady ==
  \A k \in Reqs :
    pc[k] = "insert" /\ row[k][2] > 1
      => status[<<row[k][1], row[k][2] - 1>>] \notin {"absent", "pending"}

\* A request about to write a status by id has seen the row.
WriteReady ==
  \A k \in Reqs :
    /\ pc[k] = "apply" => status[row[k]] # "absent"
    /\ pc[k] = "closeWrite" => cur[k] \in Reqs /\ status[row[cur[k]]] # "absent"

RowsInv == LinksInv /\ Contiguous /\ PendingIsLatest /\ InsertReady /\ WriteReady

\* A row does not disappear and is not reopened.
DefsKept ==
  \A d \in Defs :
    /\ status[d] # "absent" => status'[d] # "absent"
    /\ status[d] \notin {"absent", "pending"} => status'[d] \notin {"absent", "pending"}

LEMMA DefParts ==
  ASSUME NEW d \in Defs
  PROVE  /\ d = <<d[1], d[2]>> /\ d[1] \in Names
         /\ d[2] \in Nat /\ d[2] >= 1 /\ d[2] <= MaxVersion
         /\ \A v \in Versions : <<d[1], v>> \in Defs
BY DEF Defs, Versions

\* What a request that is about to write to dynamic_stores knows stays true.
LEMMA ReadyKept ==
  ASSUME RowsInv, TypeOK', LinksInv', IssuedKept, DefsKept, NEW J \in SUBSET Reqs,
         \A j \in J : /\ pc'[j] \in {"insert", "apply", "closeWrite"} => pc'[j] = pc[j]
                      /\ row'[j] = row[j] /\ cur'[j] = cur[j]
  PROVE  \A j \in J :
           /\ pc'[j] = "insert" /\ row'[j][2] > 1
                => status'[<<row'[j][1], row'[j][2] - 1>>] \notin {"absent", "pending"}
           /\ pc'[j] = "apply" => status'[row'[j]] # "absent"
           /\ pc'[j] = "closeWrite" => cur'[j] \in Reqs /\ status'[row'[cur'[j]]] # "absent"
<1> SUFFICES ASSUME NEW j \in J
             PROVE  /\ pc'[j] = "insert" /\ row'[j][2] > 1
                        => status'[<<row'[j][1], row'[j][2] - 1>>] \notin {"absent", "pending"}
                    /\ pc'[j] = "apply" => status'[row'[j]] # "absent"
                    /\ pc'[j] = "closeWrite"
                        => cur'[j] \in Reqs /\ status'[row'[cur'[j]]] # "absent"
  OBVIOUS
<1>1. row[j] \in Defs /\ row'[j] = row[j] /\ cur'[j] = cur[j]
  BY DEF RowsInv, LinksInv, TypeOK
<1>2. ASSUME pc'[j] = "insert", row'[j][2] > 1
      PROVE  status'[<<row'[j][1], row'[j][2] - 1>>] \notin {"absent", "pending"}
  <2>1. <<row[j][1], row[j][2] - 1>> \in Defs
    <3>1. row[j][2] \in Nat /\ row[j][2] > 1 /\ row[j][2] <= MaxVersion
      BY <1>1, <1>2, DefParts
    <3>2. row[j][2] - 1 \in Versions
      BY <3>1 DEF Versions
    <3>3. QED
      BY <1>1, <3>2, DefParts
  <2>2. status[<<row[j][1], row[j][2] - 1>>] \notin {"absent", "pending"}
    BY <1>1, <1>2 DEF RowsInv, InsertReady
  <2>3. QED
    BY <1>1, <2>1, <2>2 DEF DefsKept
<1>3. pc'[j] = "apply" => status'[row'[j]] # "absent"
  BY <1>1 DEF RowsInv, WriteReady, DefsKept
<1>4. ASSUME pc'[j] = "closeWrite"
      PROVE  cur'[j] \in Reqs /\ status'[row'[cur'[j]]] # "absent"
  <2>1. cur[j] \in Reqs /\ status[row[cur[j]]] # "absent" /\ cur[j] # NoReq
    BY <1>4 DEF RowsInv, WriteReady
  <2>2. row'[cur[j]] = row[cur[j]] /\ row[cur[j]] \in Defs
    BY <2>1 DEF RowsInv, LinksInv, Linked, IssuedKept, TypeOK
  <2>3. QED
    BY <1>1, <2>1, <2>2 DEF DefsKept
<1>5. QED
  BY <1>2, <1>3, <1>4

\* Writes that move definitions between the statuses of existing rows.
LEMMA RewritesKeep ==
  ASSUME RowsInv, TypeOK',
         \A d \in Defs : /\ status[d] = "absent" <=> status'[d] = "absent"
                         /\ status'[d] = "pending" => status[d] = "pending"
  PROVE  DefsKept /\ Contiguous' /\ PendingIsLatest'
<1>1. DefsKept
  BY DEF DefsKept
<1>2. Contiguous'
  BY DefParts DEF RowsInv, Contiguous
<1>3. PendingIsLatest'
  BY DefParts DEF RowsInv, PendingIsLatest, IsLatest
<1>4. QED
  BY <1>1, <1>2, <1>3

LEMMA InsertKeeps ==
  ASSUME RowsInv, TypeOK', NEW k \in Reqs, Insert(k)
  PROVE  DefsKept /\ Contiguous' /\ PendingIsLatest'
<1>1. CASE status' = status
  BY <1>1, RewritesKeep
<1>2. CASE status[row[k]] = "absent" /\ status' = [status EXCEPT ![row[k]] = "pending"]
  <2> DEFINE r == row[k]
  <2>1. /\ r \in Defs /\ r = <<r[1], r[2]>> /\ r[2] \in Nat /\ r[2] >= 1 /\ r[2] <= MaxVersion
        /\ \A v \in Versions : <<r[1], v>> \in Defs
        /\ status[r] = "absent" /\ r[2] \in Versions
    BY <1>2, DefParts DEF RowsInv, LinksInv, TypeOK, Versions
  <2>2. \A d \in Defs : status'[d] = IF d = r THEN "pending" ELSE status[d]
    BY <1>2, <2>1 DEF RowsInv, LinksInv, TypeOK
  <2>3. r[2] > 1 => status[<<r[1], r[2] - 1>>] \notin {"absent", "pending"}
    BY DEF RowsInv, InsertReady, Insert
  <2>4. \A v \in Versions : v < r[2] => status[<<r[1], v>>] \notin {"absent", "pending"}
    <3> SUFFICES ASSUME NEW v \in Versions, v < r[2]
                 PROVE  status[<<r[1], v>>] \notin {"absent", "pending"}
      OBVIOUS
    <3>1. r[2] - 1 \in Versions /\ r[2] > 1 /\ v \in Nat
      BY <2>1 DEF Versions
    <3> DEFINE p == <<r[1], r[2] - 1>>
    <3>2. p \in Defs /\ p[1] = r[1] /\ p[2] = r[2] - 1 /\ status[p] \notin {"absent", "pending"}
      BY <2>1, <2>3, <3>1
    <3>3. CASE v = r[2] - 1
      BY <3>2, <3>3
    <3>4. CASE v # r[2] - 1
      <4> DEFINE e == <<r[1], v>>
      <4>1. e \in Defs /\ e[1] = r[1] /\ e[2] = v /\ v < p[2]
        BY <2>1, <3>1, <3>2, <3>4
      <4>2. status[e] # "absent"
        BY <3>2, <4>1 DEF RowsInv, Contiguous
      <4>3. status[e] # "pending"
        <5> SUFFICES ASSUME status[e] = "pending"
                     PROVE  FALSE
          OBVIOUS
        <5>1. IsLatest(e)
          BY <4>1 DEF RowsInv, PendingIsLatest
        <5>2. r[2] - 1 <= v
          BY <3>1, <3>2, <4>1, <5>1 DEF IsLatest
        <5>3. QED
          BY <2>1, <3>1, <3>4, <5>2
      <4>4. QED
        BY <4>2, <4>3
    <3>5. QED
      BY <3>3, <3>4
  <2>5. \A v \in Versions : v > r[2] => status[<<r[1], v>>] = "absent"
    <3> SUFFICES ASSUME NEW v \in Versions, v > r[2], status[<<r[1], v>>] # "absent"
                 PROVE  FALSE
      OBVIOUS
    <3> DEFINE e == <<r[1], v>>
    <3>1. e \in Defs /\ e[1] = r[1] /\ e[2] = v
      BY <2>1
    <3>2. status[<<r[1], r[2]>>] # "absent"
      BY <2>1, <3>1 DEF RowsInv, Contiguous
    <3>3. QED
      BY <2>1, <3>2
  <2>6. DefsKept
    BY <2>1, <2>2 DEF DefsKept
  <2>7. Contiguous'
    <3> SUFFICES ASSUME NEW d \in Defs, NEW u \in Versions, status'[d] # "absent", u < d[2]
                 PROVE  status'[<<d[1], u>>] # "absent"
      BY DEF Contiguous
    <3>1. <<d[1], u>> \in Defs /\ d = <<d[1], d[2]>>
      BY DefParts
    <3>2. CASE d = r
      BY <2>2, <2>4, <3>1, <3>2
    <3>3. CASE d # r
      <4>1. status[<<d[1], u>>] # "absent"
        BY <2>2, <3>3 DEF RowsInv, Contiguous
      <4>2. QED
        BY <2>2, <3>1, <4>1
    <3>4. QED
      BY <3>2, <3>3
  <2>8. PendingIsLatest'
    <3> SUFFICES ASSUME NEW d \in Defs, status'[d] = "pending",
                        NEW v \in Versions, status'[<<d[1], v>>] # "absent"
                 PROVE  v <= d[2]
      BY DEF PendingIsLatest, IsLatest
    <3>1. <<d[1], v>> \in Defs /\ d = <<d[1], d[2]>> /\ d[2] \in Versions
          /\ v \in Nat /\ d[2] \in Nat
      BY DefParts DEF Versions
    <3>2. CASE d = r
      <4>1. v > r[2] => FALSE
        <5>1. v > r[2] => status[<<r[1], v>>] = "absent" /\ <<r[1], v>> # r
          BY <2>1, <2>5
        <5>2. QED
          BY <2>2, <3>1, <3>2, <5>1
      <4>2. QED
        BY <3>1, <3>2, <4>1
    <3>3. CASE d # r /\ d[1] # r[1]
      <4>1. status[d] = "pending" /\ status[<<d[1], v>>] # "absent"
        BY <2>1, <2>2, <3>1, <3>3
      <4>2. QED
        BY <4>1 DEF RowsInv, PendingIsLatest, IsLatest
    <3>4. CASE d # r /\ d[1] = r[1]
      <4>1. status[d] = "pending" /\ d[2] # r[2] /\ status[<<r[1], d[2]>>] = "pending"
        BY <2>1, <2>2, <3>1, <3>4
      <4>2. ~(d[2] < r[2]) /\ ~(d[2] > r[2])
        BY <2>4, <2>5, <3>1, <4>1
      <4>3. QED
        BY <2>1, <3>1, <4>1, <4>2
    <3>5. QED
      BY <3>2, <3>3, <3>4
  <2>9. QED
    BY <2>6, <2>7, <2>8
<1>3. QED
  BY <1>1, <1>2 DEF Insert, Set, stores

AtWrite == {"insert", "apply", "closeWrite"}

\* A step that leaves the rows alone, and every request that is about to write.
LEMMA QuietKeeps ==
  ASSUME RowsInv, TypeOK', LinksInv', IssuedKept, status' = status,
         \A j \in Reqs : pc'[j] \in AtWrite =>
           pc'[j] = pc[j] /\ row'[j] = row[j] /\ cur'[j] = cur[j]
  PROVE  RowsInv'
<1> DEFINE J == {j \in Reqs : pc'[j] \in AtWrite}
<1>1. DefsKept /\ Contiguous' /\ PendingIsLatest'
  BY RewritesKeep
<1>2. \A j \in J : /\ pc'[j] \in {"insert", "apply", "closeWrite"} => pc'[j] = pc[j]
                   /\ row'[j] = row[j] /\ cur'[j] = cur[j]
  OBVIOUS
<1>3. J \in SUBSET Reqs
  OBVIOUS
<1>4. \A j \in J :
        /\ pc'[j] = "insert" /\ row'[j][2] > 1
             => status'[<<row'[j][1], row'[j][2] - 1>>] \notin {"absent", "pending"}
        /\ pc'[j] = "apply" => status'[row'[j]] # "absent"
        /\ pc'[j] = "closeWrite" => cur'[j] \in Reqs /\ status'[row'[cur'[j]]] # "absent"
  <2> HIDE DEF J
  <2>1. QED
    BY <1>1, <1>2, <1>3, ReadyKept
<1>5. InsertReady' /\ WriteReady'
  BY <1>4 DEF InsertReady, WriteReady, AtWrite
<1>6. QED
  BY <1>1, <1>5 DEF RowsInv

\* A step of request k that writes a row, or makes k ready to.
LEMMA WritesKeep ==
  ASSUME RowsInv, TypeOK', LinksInv', IssuedKept, NEW k \in Reqs,
         DefsKept, Contiguous', PendingIsLatest',
         \A j \in Reqs \ {k} : pc'[j] = pc[j] /\ row'[j] = row[j] /\ cur'[j] = cur[j],
         pc'[k] = "insert" /\ row'[k][2] > 1
           => status'[<<row'[k][1], row'[k][2] - 1>>] \notin {"absent", "pending"},
         pc'[k] = "apply" => status'[row'[k]] # "absent",
         pc'[k] = "closeWrite" => cur'[k] \in Reqs /\ status'[row'[cur'[k]]] # "absent"
  PROVE  RowsInv'
<1>1. \A j \in Reqs \ {k} :
        /\ pc'[j] = "insert" /\ row'[j][2] > 1
             => status'[<<row'[j][1], row'[j][2] - 1>>] \notin {"absent", "pending"}
        /\ pc'[j] = "apply" => status'[row'[j]] # "absent"
        /\ pc'[j] = "closeWrite" => cur'[j] \in Reqs /\ status'[row'[cur'[j]]] # "absent"
  BY ReadyKept
<1>2. InsertReady' /\ WriteReady'
  BY <1>1 DEF InsertReady, WriteReady
<1>3. QED
  BY <1>2 DEF RowsInv

LEMMA StepRows == RowsInv /\ [Next]_vars => RowsInv' /\ DefsKept
<1> SUFFICES ASSUME RowsInv, [Next]_vars
             PROVE  RowsInv' /\ DefsKept
  OBVIOUS
<1>0. TypeOK /\ TypeOK' /\ LinksInv' /\ IssuedKept
  BY StepType, StepLinks DEF RowsInv, LinksInv
<1>a. status' = status => DefsKept
  BY DEF DefsKept
<1> USE <1>0 DEF stores, links, asked, local, To, Set
<1>1. ASSUME NEW k \in Reqs, Submit(k) \/ Administer(k) \/ Decide(k) \/ EditPrompt(k)
      PROVE  RowsInv' /\ DefsKept
  <2>1. PICK o \in Ops, label \in {"sweep", "get", "fetch", "issue"}, w \in People,
             d \in Defs, x \in Schemas, a \in Reqs \cup {NoReq}, c \in {0} \cup Codes :
          Begin(k, o, label, w, d, x, a, c)
    BY <1>1, BeginStep
  <2>2. QED
    BY <1>a, <2>1, QuietKeeps DEF Begin, TypeOK, AtWrite
<1>2. ASSUME NEW k \in Reqs, \/ SweepSelect(k) \/ SweepMark(k) \/ Find(k) \/ Collect(k)
                             \/ List(k) \/ Record(k) \/ Issue(k) \/ UpdateWrite(k)
      PROVE  RowsInv' /\ DefsKept
  <2>1. /\ status' = status /\ UNCHANGED <<row, cur>>
        /\ pc'[k] \notin AtWrite /\ \A j \in Reqs \ {k} : pc'[j] = pc[j]
    BY <1>2 DEF SweepSelect, SweepMark, Find, Collect, List, Record, Issue, UpdateWrite, Entry,
                AtWrite, TypeOK
  <2>2. QED
    BY <1>a, <2>1, QuietKeeps
<1>3. ASSUME NEW k \in Reqs, Get(k) \/ Reread(k) \/ Update(k) \/ Retire(k) \/ Read(k)
                             \/ Verify(k) \/ Settle(k) \/ WriteSections(k) \/ WriteRules(k)
      PROVE  RowsInv' /\ DefsKept
  <2>1. /\ status' = status
        /\ pc'[k] \notin AtWrite
        /\ \A j \in Reqs \ {k} : pc'[j] = pc[j] /\ row'[j] = row[j] /\ cur'[j] = cur[j]
    BY <1>3 DEF Get, Reread, Update, Retire, Read, Verify, Settle, WriteSections, WriteRules,
                Decided, AtWrite, TypeOK
  <2>2. QED
    BY <1>a, <2>1, QuietKeeps
<1>4. ASSUME NEW k \in Reqs, SweepClose(k)
      PROVE  RowsInv' /\ DefsKept
  <2>1. status' = status /\ row' = row
        /\ \A j \in Reqs \ {k} : pc'[j] = pc[j] /\ cur'[j] = cur[j]
    BY <1>4 DEF SweepClose, TypeOK
  <2>2. /\ pc'[k] \notin {"insert", "apply"}
        /\ pc'[k] = "closeWrite" => cur'[k] \in Reqs /\ status[row[cur'[k]]] # "absent"
    BY <1>4 DEF SweepClose, Entry, TypeOK
  <2>3. DefsKept /\ Contiguous' /\ PendingIsLatest'
    BY <2>1, RewritesKeep
  <2>4. QED
    BY <2>1, <2>2, <2>3, WritesKeep
<1>5. ASSUME NEW k \in Reqs, Propose(k)
      PROVE  RowsInv' /\ DefsKept
  <2>1. /\ status' = status /\ cur' = cur
        /\ \A j \in Reqs \ {k} : pc'[j] = pc[j] /\ row'[j] = row[j]
        /\ pc'[k] \notin {"apply", "closeWrite"}
    BY <1>5 DEF Propose, TypeOK
  <2>2. pc'[k] = "insert" /\ row'[k][2] > 1
          => status'[<<row'[k][1], row'[k][2] - 1>>] \notin {"absent", "pending"}
    BY <1>5 DEF Propose, IsNext, Open, TypeOK
  <2>3. DefsKept /\ Contiguous' /\ PendingIsLatest'
    BY <2>1, RewritesKeep
  <2>4. QED
    BY <2>1, <2>2, <2>3, WritesKeep
<1>6. ASSUME NEW k \in Reqs, Fetch(k)
      PROVE  RowsInv' /\ DefsKept
  <2>1. /\ status' = status /\ cur' = cur
        /\ \A j \in Reqs \ {k} : pc'[j] = pc[j] /\ row'[j] = row[j]
        /\ pc'[k] \notin {"insert", "closeWrite"}
    BY <1>6 DEF Fetch, TypeOK
  <2>2. pc'[k] = "apply" => status'[row'[k]] # "absent"
    BY <1>6 DEF Fetch, Needed, TypeOK
  <2>3. DefsKept /\ Contiguous' /\ PendingIsLatest'
    BY <2>1, RewritesKeep
  <2>4. QED
    BY <2>1, <2>2, <2>3, WritesKeep
<1>7. ASSUME NEW k \in Reqs, Insert(k)
      PROVE  RowsInv' /\ DefsKept
  <2>1. /\ UNCHANGED <<row, cur>>
        /\ \A j \in Reqs \ {k} : pc'[j] = pc[j]
        /\ pc'[k] \notin AtWrite
    BY <1>7 DEF Insert, TypeOK, AtWrite
  <2>2. DefsKept /\ Contiguous' /\ PendingIsLatest'
    BY <1>7, InsertKeeps
  <2>3. QED
    BY <2>1, <2>2, WritesKeep DEF AtWrite
<1>8. ASSUME NEW k \in Reqs, Apply(k)
      PROVE  RowsInv' /\ DefsKept
  <2>1. /\ UNCHANGED <<row, cur>>
        /\ \A j \in Reqs \ {k} : pc'[j] = pc[j]
        /\ pc'[k] \notin AtWrite
    BY <1>8 DEF Apply, TypeOK, AtWrite
  <2>2. status[row[k]] # "absent" /\ NewStatus(op[k]) \in {"approved", "rejected", "archived"}
    BY <1>8 DEF Apply, RowsInv, WriteReady, NewStatus
  <2>3. DefsKept /\ Contiguous' /\ PendingIsLatest'
    BY <1>8, <2>2, RewritesKeep DEF Apply, TypeOK
  <2>4. QED
    BY <2>1, <2>3, WritesKeep DEF AtWrite
<1>9. ASSUME NEW k \in Reqs, SweepCloseWrite(k)
      PROVE  RowsInv' /\ DefsKept
  <2>1. /\ row' = row
        /\ \A j \in Reqs \ {k} : pc'[j] = pc[j] /\ cur'[j] = cur[j]
        /\ pc'[k] \notin AtWrite
    BY <1>9 DEF SweepCloseWrite, TypeOK, AtWrite
  <2>2. status[row[cur[k]]] # "absent"
    BY <1>9 DEF SweepCloseWrite, RowsInv, WriteReady
  <2>3. DefsKept /\ Contiguous' /\ PendingIsLatest'
    BY <1>9, <2>2, RewritesKeep DEF SweepCloseWrite, TypeOK
  <2>4. QED
    BY <2>1, <2>3, WritesKeep DEF AtWrite
<1>10. ASSUME NEW S \in SUBSET Reqs, Lose(S)
      PROVE  RowsInv' /\ DefsKept
  <2>1. /\ status' = status
        /\ \A j \in Reqs : pc'[j] \in AtWrite =>
             pc'[j] = pc[j] /\ row'[j] = row[j] /\ cur'[j] = cur[j]
    BY <1>10 DEF Lose, Wiped, AtWrite
  <2>2. QED
    BY <1>a, <2>1, QuietKeeps
<1>11. CASE (\E a \in Reqs : Age(a)) \/ UNCHANGED vars
  <2>1. UNCHANGED <<status, pc, row, cur>>
    BY <1>11 DEF Age, vars
  <2>2. QED
    BY <1>a, <2>1, QuietKeeps
<1>12. QED
  BY <1>1, <1>2, <1>3, <1>4, <1>5, <1>6, <1>7, <1>8, <1>9, <1>10, <1>11
     DEF Next, SweepStep, StoreStep, DecisionStep, Crash, DbFails

LEMMA InitRows == Init => RowsInv
BY InitLinks DEF Init, RowsInv, Contiguous, PendingIsLatest, InsertReady, WriteReady

\* A name has at most one pending definition, its newest: UNIQUE stops the
\* slower of two proposals, and no late write by id reopens a closed row.
THEOREM PendingIsLatestHolds == Spec => []PendingIsLatest
BY InitRows, StepRows, PTL DEF Spec, RowsInv

-----------------------------------------------------------------------------
(* A recorded decision has taken effect *)

Closed(d) == status[d] \notin {"absent", "pending"}

\* A decision stays on the row of its approval, and gets to the record only
\* when that row is closed.
DecisionAim ==
  \A k \in Reqs :
    op[k] \in Decisions =>
      /\ pc[k] \in Sweeping \cup {"read", "verify", "refused"} \cup AuthorizedLabels
      /\ target[k] \in Reqs /\ row[k] = row[target[k]]
      /\ pc[k] \in {"record", "settle"} /\ ForStore(target[k]) => Closed(row[k])

SettledClosed ==
  \A a \in Reqs :
    appr[a] \in {"approved", "rejected"} /\ ForStore(a) => Closed(row[a])

EditApplied ==
  \A a \in Reqs :
    appr[a] = "approved" /\ ~ForStore(a) =>
      \/ applied[a] = "whole"
      \/ \E k \in Reqs : target[k] = a /\ pc[k] \in {"sections", "rules"}
      \/ crashes > 0

DecidedInv == RowsInv /\ DecisionAim /\ SettledClosed /\ EditApplied

\* A step of request k that stays on its way.
Follows(k) ==
  op'[k] \in Decisions =>
    \/ pc'[k] = "sweep" /\ target'[k] \in Reqs /\ row'[k] = row'[target'[k]]
    \/ /\ op'[k] = op[k] /\ target'[k] = target[k] /\ row'[k] = row[k]
       /\ pc'[k] \in Sweeping \cup {"read", "verify", "refused"} \cup AuthorizedLabels
       /\ pc'[k] \in {"record", "settle"} /\ ForStore(target[k])
            => pc[k] \in {"record", "settle"} \/ status'[row[k]] \notin {"absent", "pending"}

LEMMA AimKept ==
  ASSUME DecidedInv, TypeOK', IssuedKept, DefsKept, \A k \in Reqs : Follows(k)
  PROVE  DecisionAim'
<1> SUFFICES ASSUME NEW k \in Reqs, op'[k] \in Decisions
             PROVE  /\ pc'[k] \in Sweeping \cup {"read", "verify", "refused"}
                                  \cup AuthorizedLabels
                    /\ target'[k] \in Reqs /\ row'[k] = row'[target'[k]]
                    /\ pc'[k] \in {"record", "settle"} /\ op'[target'[k]] # "promptEdit"
                         => status'[row'[k]] \notin {"absent", "pending"}
  BY DEF DecisionAim, ForStore, Closed
<1>1. CASE pc'[k] = "sweep" /\ target'[k] \in Reqs /\ row'[k] = row'[target'[k]]
  BY <1>1 DEF Sweeping
<1>2. CASE /\ op'[k] = op[k] /\ target'[k] = target[k] /\ row'[k] = row[k]
           /\ pc'[k] \in Sweeping \cup {"read", "verify", "refused"} \cup AuthorizedLabels
           /\ pc'[k] \in {"record", "settle"} /\ ForStore(target[k])
                => pc[k] \in {"record", "settle"} \/ status'[row[k]] \notin {"absent", "pending"}
  <2>1. /\ target[k] \in Reqs /\ row[k] = row[target[k]] /\ row[k] \in Defs
        /\ target[k] # NoReq
        /\ pc[k] \in {"record", "settle"} /\ ForStore(target[k]) => Closed(row[k])
    BY <1>2 DEF DecidedInv, DecisionAim, RowsInv, LinksInv, TypeOK
  <2>2. row'[target[k]] = row[target[k]] /\ op'[target[k]] = op[target[k]]
    BY <2>1 DEF DecidedInv, RowsInv, LinksInv, Linked, IssuedKept
  <2>3. QED
    BY <1>2, <2>1, <2>2 DEF Closed, ForStore, DefsKept
<1>3. QED
  BY <1>1, <1>2 DEF Follows

LEMMA ClosedKept ==
  ASSUME DecidedInv, IssuedKept, DefsKept,
         \A a \in Reqs : appr'[a] \in {"approved", "rejected"} =>
           /\ appr[a] # "absent"
           /\ appr'[a] = appr[a] \/ (ForStore(a) => Closed(row[a]))
  PROVE  SettledClosed'
<1> SUFFICES ASSUME NEW a \in Reqs, appr'[a] \in {"approved", "rejected"},
                    op'[a] # "promptEdit"
             PROVE  status'[row'[a]] \notin {"absent", "pending"}
  BY DEF SettledClosed, ForStore, Closed
<1>1. row[a] \in Defs
  BY DEF DecidedInv, RowsInv, LinksInv, TypeOK
<1>2. row'[a] = row[a] /\ op'[a] = op[a]
  BY DEF IssuedKept
<1>3. Closed(row[a])
  BY <1>2 DEF ForStore, DecidedInv, SettledClosed
<1>4. QED
  BY <1>1, <1>2, <1>3 DEF Closed, DefsKept

\* A step that takes no edit off its way and approves none.
LEMMA EditsKept ==
  ASSUME DecidedInv, IssuedKept, applied' = applied, crashes' = crashes,
         \A a \in Reqs : appr'[a] = "approved" => appr[a] = "approved",
         \A k \in Reqs : pc[k] \in {"sections", "rules"} =>
                           pc'[k] = pc[k] /\ target'[k] = target[k]
  PROVE  EditApplied'
<1> SUFFICES ASSUME NEW a \in Reqs, appr'[a] = "approved", op'[a] = "promptEdit"
             PROVE  \/ applied'[a] = "whole"
                    \/ \E k \in Reqs : target'[k] = a /\ pc'[k] \in {"sections", "rules"}
                    \/ crashes' > 0
  BY DEF EditApplied, ForStore
<1>1. appr[a] = "approved" /\ op[a] = "promptEdit"
  BY DEF IssuedKept
<1>2. \/ applied[a] = "whole"
      \/ \E k \in Reqs : target[k] = a /\ pc[k] \in {"sections", "rules"}
      \/ crashes > 0
  BY <1>1 DEF DecidedInv, EditApplied, ForStore
<1>3. QED
  BY <1>2

LEMMA StepDecided == DecidedInv /\ [Next]_vars => DecidedInv'
<1> SUFFICES ASSUME DecidedInv, [Next]_vars
             PROVE  DecidedInv'
  OBVIOUS
<1>0. /\ TypeOK /\ TypeOK' /\ RowsInv' /\ DefsKept /\ IssuedKept
      /\ LinksInv /\ RowsInv /\ DecisionAim
  BY StepType, StepLinks, StepRows DEF DecidedInv, RowsInv, LinksInv
<1> USE <1>0 DEF stores, links, asked, local, To, Set
<1>b. ASSUME NEW k \in Reqs, pc[k] \notin {"sections", "rules"},
             applied' = applied, crashes' = crashes,
             \A a \in Reqs : appr'[a] \in {"approved", "rejected"} => appr'[a] = appr[a],
             \A j \in Reqs \ {k} : /\ pc'[j] = pc[j] /\ row'[j] = row[j] /\ op'[j] = op[j]
                                   /\ target'[j] = target[j],
             Follows(k)
      PROVE  DecidedInv'
  <2>1. \A j \in Reqs : Follows(j)
    BY <1>b DEF Follows, DecisionAim
  <2>2. DecisionAim'
    BY <2>1, AimKept
  <2>3. SettledClosed'
    BY <1>b, ClosedKept
  <2>4. EditApplied'
    BY <1>b, EditsKept
  <2>5. QED
    BY <2>2, <2>3, <2>4 DEF DecidedInv
<1>1. ASSUME NEW k \in Reqs, Submit(k) \/ Administer(k) \/ Decide(k) \/ EditPrompt(k)
      PROVE  DecidedInv'
  <2>1. PICK o \in Ops, label \in {"sweep", "get", "fetch", "issue"}, w \in People,
             d \in Defs, x \in Schemas, a \in Reqs \cup {NoReq}, c \in {0} \cup Codes :
          /\ Begin(k, o, label, w, d, x, a, c)
          /\ a # NoReq => appr[a] # "absent"
          /\ o \in Decisions => label = "sweep" /\ a \in Reqs /\ d = row[a]
    BY <1>1, BeginStep
  <2>2. Follows(k)
    <3> SUFFICES ASSUME op'[k] \in Decisions
                 PROVE  pc'[k] = "sweep" /\ target'[k] \in Reqs /\ row'[k] = row'[target'[k]]
      BY DEF Follows
    <3>1. o \in Decisions /\ target'[k] = a /\ row'[k] = d /\ pc'[k] = label
      BY <2>1 DEF Begin, TypeOK
    <3>2. row'[a] = row[a] /\ a \in Reqs
      BY <2>1, <3>1, ApprovalsAssumption DEF IssuedKept
    <3>3. QED
      BY <2>1, <3>1, <3>2
  <2>3. QED
    BY <1>b, <2>1, <2>2 DEF Begin, TypeOK
<1>2. ASSUME NEW k \in Reqs, SweepStep(k)
      PROVE  DecidedInv'
  <2>1. /\ UNCHANGED <<row, op, target, applied, crashes>> /\ pc[k] \in Sweeping
        /\ pc'[k] \in Sweeping \/ pc'[k] = Entry(op[k])
        /\ \A j \in Reqs \ {k} : pc'[j] = pc[j]
        /\ \A a \in Reqs : appr'[a] \in {"approved", "rejected"} => appr'[a] = appr[a]
    BY <1>2 DEF SweepStep, SweepSelect, SweepMark, SweepClose, SweepCloseWrite, Sweeping, TypeOK
  <2>2. Follows(k)
    BY <2>1 DEF Follows, Entry, Decisions, Sweeping
  <2>3. QED
    BY <1>b, <2>1, <2>2 DEF Sweeping
<1>3. ASSUME NEW k \in Reqs, StoreStep(k)
      PROVE  DecidedInv'
  <2>1. /\ UNCHANGED <<target, applied, crashes>>
        /\ op[k] \notin Decisions /\ op'[k] \notin Decisions
        /\ pc[k] \notin {"sections", "rules"}
        /\ \A j \in Reqs \ {k} : pc'[j] = pc[j] /\ op'[j] = op[j] /\ row'[j] = row[j]
    BY <1>3 DEF StoreStep, Get, Propose, Insert, Reread, Issue, Find, Update, UpdateWrite,
                Collect, Retire, TypeOK, DecisionAim, Decisions, Sweeping, AuthorizedLabels
  <2>2. \A a \in Reqs : appr'[a] \in {"approved", "rejected"} => appr'[a] = appr[a]
    BY <1>3 DEF StoreStep, Get, Propose, Insert, Reread, Issue, Find, Update, UpdateWrite,
                Collect, Retire, ExpireAndForget, TypeOK
  <2>3. Follows(k)
    BY <2>1 DEF Follows
  <2>4. QED
    BY <1>b, <2>1, <2>2, <2>3
<1>4. ASSUME NEW k \in Reqs, Read(k) \/ Verify(k)
      PROVE  DecidedInv'
  <2>1. /\ UNCHANGED <<appr, row, op, target, applied, crashes>>
        /\ pc[k] \in {"read", "verify"}
        /\ \/ pc'[k] \in {"refused", "verify", "fetch"}
           \/ pc'[k] = "record" /\ ~ForStore(target[k])
        /\ \A j \in Reqs \ {k} : pc'[j] = pc[j]
    BY <1>4 DEF Read, Verify, Decided, TypeOK
  <2>2. Follows(k)
    BY <2>1 DEF Follows, AuthorizedLabels
  <2>3. QED
    BY <1>b, <2>1, <2>2
<1>5. ASSUME NEW k \in Reqs, Fetch(k)
      PROVE  DecidedInv'
  <2>1. /\ UNCHANGED <<appr, op, target, applied, crashes>>
        /\ pc[k] = "fetch" /\ pc'[k] \in {"apply", "refused"}
        /\ \A j \in Reqs \ {k} : pc'[j] = pc[j] /\ row'[j] = row[j]
        /\ op[k] \in Decisions => row'[k] = row[k]
    BY <1>5 DEF Fetch, Found, TypeOK
  <2>2. Follows(k)
    BY <2>1 DEF Follows, AuthorizedLabels
  <2>3. QED
    BY <1>b, <2>1, <2>2
<1>6. ASSUME NEW k \in Reqs, Apply(k)
      PROVE  DecidedInv'
  <2>1. /\ UNCHANGED <<appr, row, op, target, applied, crashes>>
        /\ pc[k] = "apply"
        /\ \A j \in Reqs \ {k} : pc'[j] = pc[j]
        /\ op[k] \in Decisions => pc'[k] = "record"
        /\ status'[row[k]] \in {"approved", "rejected", "archived"}
    BY <1>6 DEF Apply, NewStatus, Decisions, TypeOK
  <2>2. Follows(k)
    BY <2>1 DEF Follows, AuthorizedLabels
  <2>3. QED
    BY <1>b, <2>1, <2>2
<1>7. ASSUME NEW k \in Reqs, List(k) \/ Record(k)
      PROVE  DecidedInv'
  <2>1. /\ UNCHANGED <<row, op, target, applied, crashes>>
        /\ pc[k] \in {"list", "record", "retract"}
        /\ pc[k] = "record" => pc'[k] \in {"settle", "refused"}
        /\ \A j \in Reqs \ {k} : pc'[j] = pc[j]
        /\ \A a \in Reqs : appr'[a] \in {"approved", "rejected"} => appr'[a] = appr[a]
    BY <1>7 DEF List, Record, ExpireAndForget, TypeOK
  <2>2. Follows(k)
    BY <2>1 DEF Follows, AuthorizedLabels, DecisionAim, Sweeping
  <2>3. QED
    BY <1>b, <2>1, <2>2
<1>8. ASSUME NEW k \in Reqs, Settle(k)
      PROVE  DecidedInv'
  <2> DEFINE s == Settled(k)
  <2>1. /\ UNCHANGED <<row, op, target, applied, crashes>>
        /\ pc[k] = "settle" /\ pc'[k] \in {"retire", "fetch", "sections", "done"}
        /\ op[k] \in Decisions => pc'[k] \in {"sections", "done"}
        /\ op[k] = "approve" /\ ~ForStore(target[k]) => pc'[k] = "sections"
        /\ \A j \in Reqs \ {k} : pc'[j] = pc[j]
        /\ \A a \in Reqs : appr'[a] = IF a = s THEN Settlement(op[k]) ELSE appr[a]
    BY <1>8 DEF Settle, TypeOK, Decisions, Revisers
  <2>2. op[k] \in Decisions =>
          /\ s = target[k] /\ s \in Reqs /\ s # NoReq /\ appr[s] # "absent"
          /\ row[k] = row[s]
          /\ ForStore(s) => Closed(row[s])
    BY <2>1 DEF DecisionAim, Settled, Revisers, Decisions, LinksInv, Linked
  <2>3. /\ op[k] \notin Decisions => Settlement(op[k]) = "retracted"
        /\ Settlement(op[k]) = "approved" => op[k] = "approve"
    BY DEF Settlement, Decisions
  <2>4. \A j \in Reqs : Follows(j)
    BY <2>1 DEF Follows, DecisionAim, AuthorizedLabels
  <2>5. SettledClosed'
    BY <2>1, <2>2, <2>3, ClosedKept DEF Decisions
  <2>6. EditApplied'
    <3> SUFFICES ASSUME NEW a \in Reqs, appr'[a] = "approved", op'[a] = "promptEdit"
                 PROVE  \/ applied'[a] = "whole"
                        \/ \E j \in Reqs : target'[j] = a /\ pc'[j] \in {"sections", "rules"}
                        \/ crashes' > 0
      BY DEF EditApplied, ForStore
    <3>1. CASE a = s
      BY <2>1, <2>2, <2>3, <3>1 DEF Decisions, ForStore
    <3>2. CASE a # s
      <4>1. \/ applied[a] = "whole"
            \/ \E j \in Reqs : target[j] = a /\ pc[j] \in {"sections", "rules"}
            \/ crashes > 0
        BY <2>1, <3>2 DEF DecidedInv, EditApplied, ForStore
      <4>2. QED
        BY <2>1, <4>1
    <3>3. QED
      BY <3>1, <3>2
  <2>7. QED
    BY <2>4, <2>5, <2>6, AimKept DEF DecidedInv
<1>9. ASSUME NEW k \in Reqs, WriteSections(k) \/ WriteRules(k)
      PROVE  DecidedInv'
  <2>1. /\ UNCHANGED <<appr, row, op, target, crashes>>
        /\ pc[k] \in {"sections", "rules"}
        /\ pc'[k] \in {"rules", "done"}
        /\ \A j \in Reqs \ {k} : pc'[j] = pc[j]
        /\ \A a \in Reqs : applied[a] = "whole" => applied'[a] = "whole"
        /\ pc'[k] = "done" /\ target[k] \in Reqs => applied'[target[k]] = "whole"
    BY <1>9 DEF WriteSections, WriteRules, TypeOK
  <2>2. \A j \in Reqs : Follows(j)
    BY <2>1 DEF Follows, DecisionAim, AuthorizedLabels
  <2>3. SettledClosed'
    BY <2>1, ClosedKept
  <2>4. EditApplied'
    <3> SUFFICES ASSUME NEW a \in Reqs, appr[a] = "approved", ~ForStore(a)
                 PROVE  \/ applied'[a] = "whole"
                        \/ \E j \in Reqs : target[j] = a /\ pc'[j] \in {"sections", "rules"}
                        \/ crashes > 0
      BY <2>1 DEF EditApplied, ForStore
    <3>1. \/ applied[a] = "whole"
          \/ \E j \in Reqs : target[j] = a /\ pc[j] \in {"sections", "rules"}
          \/ crashes > 0
      BY DEF DecidedInv, EditApplied
    <3>2. QED
      BY <2>1, <3>1
  <2>5. QED
    BY <2>2, <2>3, <2>4, AimKept DEF DecidedInv
<1>10. ASSUME NEW S \in SUBSET Reqs, Lose(S)
      PROVE  DecidedInv'
  <2>1. \A j \in Reqs : Follows(j)
    BY <1>10 DEF Lose, Wiped, Follows, DecisionAim, Decisions
  <2>2. SettledClosed'
    BY <1>10, ClosedKept DEF Lose
  <2>3. EditApplied'
    BY <1>10 DEF Lose, EditApplied, TypeOK
  <2>4. QED
    BY <2>1, <2>2, <2>3, AimKept DEF DecidedInv
<1>11. CASE (\E a \in Reqs : Age(a)) \/ UNCHANGED vars
  <2>1. UNCHANGED <<appr, pc, row, op, target, applied, crashes>>
    BY <1>11 DEF Age, vars
  <2>2. \A j \in Reqs : Follows(j)
    BY <2>1 DEF Follows, DecisionAim
  <2>3. SettledClosed'
    BY <2>1, ClosedKept
  <2>4. EditApplied'
    BY <2>1, EditsKept
  <2>5. QED
    BY <2>2, <2>3, <2>4, AimKept DEF DecidedInv
<1>12. QED
  BY <1>1, <1>2, <1>3, <1>4, <1>5, <1>6, <1>7, <1>8, <1>9, <1>10, <1>11
     DEF Next, DecisionStep, Crash, DbFails

\* A decision on record has closed its definition, or its prompt edit is
\* written or under way, up to requests that died: decide_approval writes the
\* store before the record and the prompt after it.
THEOREM DecisionsTakeEffectHolds == Spec => []DecisionsTakeEffect
<1>1. Init => DecidedInv
  BY InitRows DEF Init, DecidedInv, DecisionAim, SettledClosed, EditApplied, Decisions
<1>2. DecidedInv => DecisionsTakeEffect
  BY DEF DecidedInv, SettledClosed, EditApplied, Closed, DecisionsTakeEffect
<1>3. QED
  BY <1>1, <1>2, StepDecided, PTL DEF Spec

-----------------------------------------------------------------------------
(* A pending definition is never forgotten *)

\* What a request was asked for decides the steps it takes.
ErrandOf(k) ==
  /\ pc[k] \in {"propose", "insert"} => op[k] = "propose"
  /\ pc[k] \in {"read", "verify", "record"} => op[k] \in Decisions
  /\ pc[k] = "retract" => op[k] = "retract"
  /\ pc[k] \in {"collect", "retire"} => op[k] \in Revisers
  /\ pc[k] = "settle" => op[k] \in Decisions \cup Revisers \cup {"retract"}

\* A revision retires links of the definition it is about, which a withdrawal
\* has closed by then.
RevisionOf(k) ==
  op[k] \in Revisers =>
    /\ pc[k] \in {"retire", "settle"} => \A a \in todo[k] : row[a] = row[k]
    /\ pc[k] = "settle" => cur[k] \in todo[k]
    /\ op[k] = "withdraw" /\ pc[k] \in {"collect", "retire", "settle"} => Closed(row[k])

\* A retraction stays on the row of the approval it takes away.
RetractionOf(k) ==
  op[k] = "retract" =>
    /\ pc[k] \in Sweeping \cup {"retract", "settle", "fetch", "apply", "refused", "done"}
    /\ target[k] \in Reqs /\ row[k] = row[target[k]]

ErrandsKept == \A k \in Reqs : ErrandOf(k) /\ RevisionOf(k) /\ RetractionOf(k)

ServedInv == DecidedInv /\ ErrandsKept /\ PendingIsDecidable

\* A step of request k leaves the errands of the others alone.
LEMMA ErrandsOfOthers ==
  ASSUME DecidedInv, TypeOK', IssuedKept, DefsKept, ErrandsKept, NEW k \in Reqs,
         \A j \in Reqs \ {k} : /\ pc'[j] = pc[j] /\ row'[j] = row[j] /\ op'[j] = op[j]
                               /\ target'[j] = target[j] /\ todo'[j] = todo[j]
                               /\ cur'[j] = cur[j],
         ErrandOf(k)', RevisionOf(k)', RetractionOf(k)'
  PROVE  ErrandsKept'
<1> SUFFICES ASSUME NEW j \in Reqs, j # k
             PROVE  ErrandOf(j)' /\ RevisionOf(j)' /\ RetractionOf(j)'
  BY DEF ErrandsKept
<1>0. /\ pc'[j] = pc[j] /\ row'[j] = row[j] /\ op'[j] = op[j]
      /\ target'[j] = target[j] /\ todo'[j] = todo[j] /\ cur'[j] = cur[j]
      /\ row[j] \in Defs /\ todo[j] \subseteq Reqs
      /\ ErrandOf(j) /\ RevisionOf(j) /\ RetractionOf(j)
  BY DEF ErrandsKept, DecidedInv, RowsInv, LinksInv, TypeOK
<1>1. ErrandOf(j)'
  BY <1>0 DEF ErrandOf
<1>2. RevisionOf(j)'
  <2>1. \A a \in todo[j] : row'[a] = row[a]
    BY <1>0 DEF IssuedKept, DecidedInv, RowsInv, LinksInv, Linked
  <2>2. Closed(row[j]) => status'[row[j]] \notin {"absent", "pending"}
    BY <1>0 DEF DefsKept, Closed
  <2>3. QED
    BY <1>0, <2>1, <2>2 DEF RevisionOf, Closed
<1>3. RetractionOf(j)'
  <2>1. target[j] \in Reqs => row'[target[j]] = row[target[j]]
    BY <1>0 DEF IssuedKept, DecidedInv, RowsInv, LinksInv, Linked
  <2>2. QED
    BY <1>0, <2>1 DEF RetractionOf
<1>4. QED
  BY <1>1, <1>2, <1>3

\* A step of request k that sees to the definitions it touches.
LEMMA ServedOn ==
  ASSUME DecidedInv, IssuedKept, PendingIsDecidable, stranded \subseteq stranded',
         NEW k \in Reqs,
         \A j \in Reqs \ {k} : /\ pc'[j] = pc[j] /\ row'[j] = row[j] /\ op'[j] = op[j]
                               /\ todo'[j] = todo[j],
         \A d \in Defs : status'[d] = "pending" => status[d] = "pending" \/ Owes(k, d)',
         \A a \in Reqs : appr[a] = "pending" /\ ForStore(a) /\ status'[row[a]] = "pending" =>
           appr'[a] = "pending" \/ row[a] \in stranded' \/ Owes(k, row[a])',
         \A d \in Defs : Owes(k, d) /\ status'[d] = "pending" =>
           \/ Owes(k, d)' \/ d \in stranded'
           \/ appr'[k] = "pending" /\ op'[k] # "promptEdit" /\ row'[k] = d
  PROVE  PendingIsDecidable'
<1> SUFFICES ASSUME NEW d \in Defs, status'[d] = "pending"
             PROVE  \/ \E a \in Reqs : ForStore(a)' /\ row'[a] = d /\ appr'[a] = "pending"
                    \/ \E j \in Reqs : Owes(j, d)'
                    \/ d \in stranded'
  BY DEF PendingIsDecidable
<1>1. CASE Owes(k, d)'
  BY <1>1
<1>2. CASE d \in stranded
  BY <1>2
<1>3. ASSUME NEW a \in Reqs, ForStore(a), row[a] = d, appr[a] = "pending"
      PROVE  \/ ForStore(a)' /\ row'[a] = d /\ appr'[a] = "pending"
             \/ Owes(k, d)' \/ d \in stranded'
  <2>1. row'[a] = row[a] /\ op'[a] = op[a]
    BY <1>3 DEF IssuedKept
  <2>2. QED
    BY <1>3, <2>1 DEF ForStore
<1>4. ASSUME NEW j \in Reqs, j # k, Owes(j, d)
      PROVE  Owes(j, d)'
  <2>1. \A a \in todo[j] : row'[a] = row[a]
    BY DEF IssuedKept, DecidedInv, RowsInv, LinksInv, Linked, TypeOK
  <2>2. QED
    BY <1>4, <2>1 DEF Owes
<1>5. CASE Owes(k, d)
  BY <1>5 DEF ForStore
<1>6. QED
  BY <1>1, <1>2, <1>3, <1>4, <1>5 DEF PendingIsDecidable

LEMMA StepServed == ServedInv /\ [Next]_vars => ServedInv'
<1> SUFFICES ASSUME ServedInv, [Next]_vars
             PROVE  ServedInv'
  OBVIOUS
<1>0. /\ TypeOK /\ TypeOK' /\ RowsInv' /\ DefsKept /\ IssuedKept /\ DecidedInv' /\ DecidedInv
      /\ LinksInv /\ RowsInv /\ DecisionAim /\ PendingIsLatest /\ ErrandsKept
      /\ PendingIsDecidable /\ Linked /\ IssuedIsDone
  BY StepType, StepLinks, StepRows, StepDecided DEF ServedInv, DecidedInv, RowsInv, LinksInv
<1> USE <1>0 DEF stores, links, asked, local, To, Set
<1>b. ASSUME NEW k \in Reqs,
             \A j \in Reqs \ {k} : /\ pc'[j] = pc[j] /\ row'[j] = row[j] /\ op'[j] = op[j]
                                   /\ target'[j] = target[j] /\ todo'[j] = todo[j]
                                   /\ cur'[j] = cur[j],
             ErrandOf(k)', RevisionOf(k)', RetractionOf(k)',
             stranded \subseteq stranded',
             \A d \in Defs : status'[d] = "pending" => status[d] = "pending" \/ Owes(k, d)',
             \A a \in Reqs : appr[a] = "pending" /\ ForStore(a) /\ status'[row[a]] = "pending"
               => appr'[a] = "pending" \/ row[a] \in stranded' \/ Owes(k, row[a])',
             \A d \in Defs : Owes(k, d) /\ status'[d] = "pending" =>
               \/ Owes(k, d)' \/ d \in stranded'
               \/ appr'[k] = "pending" /\ op'[k] # "promptEdit" /\ row'[k] = d
      PROVE  ServedInv'
  <2>1. ErrandsKept'
    BY <1>b, ErrandsOfOthers
  <2>2. PendingIsDecidable'
    BY <1>b, ServedOn
  <2>3. QED
    BY <2>1, <2>2 DEF ServedInv
<1>1. ASSUME NEW k \in Reqs, Submit(k) \/ Administer(k) \/ Decide(k) \/ EditPrompt(k)
      PROVE  ServedInv'
  <2>1. /\ UNCHANGED <<status, appr, stranded, todo, cur>>
        /\ pc[k] = "new" /\ pc'[k] \in {"sweep", "get", "fetch", "issue"}
        /\ \A j \in Reqs \ {k} : /\ pc'[j] = pc[j] /\ row'[j] = row[j] /\ op'[j] = op[j]
                                 /\ target'[j] = target[j]
    BY <1>1, BeginStep DEF Begin, TypeOK
  <2>2. op'[k] = "retract" => /\ pc'[k] = "sweep" /\ target'[k] \in Reqs
                              /\ row'[k] = row[target'[k]] /\ appr[target'[k]] # "absent"
    BY <1>1 DEF Submit, Administer, Decide, EditPrompt, Begin, TypeOK
  <2>3. op'[k] = "retract" => row'[target'[k]] = row[target'[k]]
    BY <2>2 DEF IssuedKept
  <2>4. ErrandOf(k)' /\ RevisionOf(k)' /\ RetractionOf(k)'
    BY <2>1, <2>2, <2>3 DEF ErrandOf, RevisionOf, RetractionOf, Sweeping
  <2>5. \A d \in Defs : ~Owes(k, d)
    BY <2>1 DEF Owes
  <2>6. QED
    BY <1>b, <2>1, <2>4, <2>5
<1>2. ASSUME NEW k \in Reqs, SweepSelect(k) \/ SweepMark(k) \/ SweepClose(k) \/ SweepCloseWrite(k)
      PROVE  ServedInv'
  <2>1. /\ UNCHANGED <<row, op, target, stranded>>
        /\ pc[k] \in Sweeping
        /\ pc'[k] \in Sweeping \/ pc'[k] = Entry(op[k])
        /\ \A j \in Reqs \ {k} : pc'[j] = pc[j] /\ todo'[j] = todo[j] /\ cur'[j] = cur[j]
    BY <1>2 DEF SweepSelect, SweepMark, SweepClose, SweepCloseWrite, Sweeping, TypeOK
  <2>2. ErrandOf(k)' /\ RevisionOf(k)' /\ RetractionOf(k)'
    BY <2>1 DEF ErrandsKept, ErrandOf, RevisionOf, RetractionOf, Sweeping, Entry, Decisions,
       Revisers
  <2>3. \A d \in Defs : status'[d] = "pending" => status[d] = "pending"
    BY <1>2 DEF SweepSelect, SweepMark, SweepClose, SweepCloseWrite, TypeOK
  <2>4. \A a \in Reqs : appr[a] = "pending" /\ ForStore(a)
          => appr'[a] = "pending" \/ Owes(k, row[a])'
    BY <1>2, <2>1 DEF SweepSelect, SweepMark, SweepClose, SweepCloseWrite, TypeOK, Owes
  <2>5. \A d \in Defs : Owes(k, d) /\ status'[d] = "pending" => Owes(k, d)'
    BY <1>2, <2>1 DEF SweepSelect, SweepMark, SweepClose, SweepCloseWrite, TypeOK, Owes, Sweeping
  <2>6. QED
    BY <1>b, <2>1, <2>2, <2>3, <2>4, <2>5
<1>3. ASSUME NEW k \in Reqs, Get(k) \/ Propose(k) \/ Update(k) \/ UpdateWrite(k)
      PROVE  ServedInv'
  <2>1. /\ UNCHANGED <<status, appr, stranded, target, todo, cur>>
        /\ pc[k] \in {"get", "propose", "update", "updateWrite"}
        /\ pc'[k] \in {"propose", "find", "insert", "updateWrite", "reread", "refused"}
        /\ op[k] # "retract" /\ op'[k] # "retract"
        /\ pc'[k] \in {"propose", "insert"} => op'[k] = "propose"
        /\ \A j \in Reqs \ {k} : pc'[j] = pc[j] /\ row'[j] = row[j] /\ op'[j] = op[j]
    BY <1>3 DEF Get, Propose, Update, UpdateWrite, TypeOK, ErrandsKept, ErrandOf, RetractionOf,
                Sweeping
  <2>2. ErrandOf(k)' /\ RevisionOf(k)' /\ RetractionOf(k)'
    BY <2>1 DEF ErrandOf, RevisionOf, RetractionOf
  <2>3. \A d \in Defs : ~Owes(k, d)
    BY <2>1 DEF Owes
  <2>4. QED
    BY <1>b, <2>1, <2>2, <2>3
<1>4. ASSUME NEW k \in Reqs, Insert(k)
      PROVE  ServedInv'
  <2>1. /\ UNCHANGED <<appr, stranded, op, row, target, todo, cur>>
        /\ pc[k] = "insert" /\ op[k] = "propose" /\ pc'[k] \in {"reread", "refused"}
        /\ \A j \in Reqs \ {k} : pc'[j] = pc[j]
    BY <1>4 DEF Insert, TypeOK, ErrandsKept, ErrandOf
  <2>2. ErrandOf(k)' /\ RevisionOf(k)' /\ RetractionOf(k)'
    BY <2>1 DEF ErrandOf, RevisionOf, RetractionOf, Revisers
  <2>3. \A d \in Defs : status'[d] = "pending" => status[d] = "pending" \/ Owes(k, d)'
    BY <1>4, <2>1 DEF Insert, TypeOK, Owes
  <2>4. \A d \in Defs : ~Owes(k, d)
    BY <2>1 DEF Owes
  <2>5. QED
    BY <1>b, <2>1, <2>2, <2>3, <2>4
<1>5. ASSUME NEW k \in Reqs, Reread(k)
      PROVE  ServedInv'
  <2>1. PICK e \in Defs :
          /\ e[1] = row[k][1] /\ IsLatest(e) /\ row' = [row EXCEPT ![k] = e]
          /\ \/ op[k] = "patch" /\ To(k, "collect")
             \/ op[k] # "patch" /\ To(k, "fetch")
             \/ op[k] # "patch" /\ To(k, IF status[e] = "pending" THEN "issue" ELSE "done")
    BY <1>5 DEF Reread
  <2>2. /\ UNCHANGED <<status, appr, stranded, op, target, todo, cur>>
        /\ pc[k] = "reread" /\ op[k] # "retract"
        /\ \A j \in Reqs \ {k} : pc'[j] = pc[j] /\ row'[j] = row[j]
    BY <1>5 DEF Reread, TypeOK, ErrandsKept, RetractionOf, Sweeping
  <2>3. ErrandOf(k)' /\ RevisionOf(k)' /\ RetractionOf(k)'
    BY <2>1, <2>2 DEF ErrandOf, RevisionOf, RetractionOf, TypeOK, Revisers
  <2>4. ASSUME NEW d \in Defs, Owes(k, d), status[d] = "pending"
        PROVE  Owes(k, d)'
    <3>1. row[k] = d /\ op[k] = "propose"
      BY <2>2, <2>4 DEF Owes
    <3>2. IsLatest(d)
      BY <2>4 DEF PendingIsLatest
    <3>3. e = d
      <4>1. /\ e = <<e[1], e[2]>> /\ d = <<d[1], d[2]>> /\ e[1] = d[1]
            /\ e[2] \in Versions /\ d[2] \in Versions
        BY <2>1, <3>1, DefParts DEF Versions
      <4>2. e[2] <= d[2] /\ d[2] <= e[2]
        BY <2>1, <3>2, <4>1 DEF IsLatest
      <4>3. QED
        BY <4>1, <4>2 DEF Versions
    <3>4. QED
      BY <2>1, <2>2, <2>4, <3>1, <3>3 DEF Owes, TypeOK
  <2>5. QED
    BY <1>b, <2>2, <2>3, <2>4
<1>6. ASSUME NEW k \in Reqs, Issue(k)
      PROVE  ServedInv'
  <2>1. /\ UNCHANGED <<status, stranded, op, row, target, todo, cur>>
        /\ pc[k] = "issue" /\ pc'[k] = "done" /\ op[k] # "retract"
        /\ \A j \in Reqs \ {k} : pc'[j] = pc[j] /\ appr'[j] = appr[j]
        /\ appr'[k] = "pending"
    BY <1>6 DEF Issue, TypeOK, ErrandsKept, RetractionOf, Sweeping
  <2>2. ErrandOf(k)' /\ RevisionOf(k)' /\ RetractionOf(k)'
    BY <2>1 DEF ErrandOf, RevisionOf, RetractionOf
  <2>3. \A d \in Defs : Owes(k, d) => op[k] # "promptEdit" /\ row[k] = d
    BY <2>1 DEF Owes
  <2>4. QED
    BY <1>b, <2>1, <2>2, <2>3
<1>7. ASSUME NEW k \in Reqs, Find(k) \/ Collect(k) \/ List(k) \/ Record(k)
      PROVE  ServedInv'
  <2>1. /\ UNCHANGED <<status, op, row, target, cur>>
        /\ pc[k] \in {"find", "collect", "list", "record", "retract"}
        /\ \A j \in Reqs \ {k} : pc'[j] = pc[j] /\ todo'[j] = todo[j]
        /\ stranded \subseteq stranded'
        /\ \A a \in Reqs : appr[a] = "pending" /\ ForStore(a)
             => appr'[a] = "pending" \/ row[a] \in stranded'
    BY <1>7 DEF Find, Collect, List, Record, ExpireAndForget, TypeOK
  <2>2. /\ \/ pc'[k] \in {"fetch", "update", "done", "refused"}
           \/ pc[k] \in {"record", "retract"} /\ pc'[k] = "settle"
           \/ pc[k] = "collect" /\ pc'[k] = "retire" /\ \A a \in todo'[k] : row[a] = row[k]
        /\ op[k] = "retract" => pc'[k] \in {"done", "refused", "settle"}
    BY <1>7 DEF Find, Collect, List, Record, TypeOK, LiveLinks, ErrandsKept, ErrandOf,
                RetractionOf, Sweeping
  <2>3. ErrandOf(k)' /\ RevisionOf(k)' /\ RetractionOf(k)'
    BY <2>1, <2>2 DEF ErrandsKept, ErrandOf, RevisionOf, RetractionOf, Closed, Decisions, Revisers
  <2>4. \A d \in Defs : ~Owes(k, d)
    BY <2>1 DEF Owes
  <2>5. QED
    BY <1>b, <2>1, <2>3, <2>4
<1>8. ASSUME NEW k \in Reqs, Retire(k)
      PROVE  ServedInv'
  <2>1. /\ UNCHANGED <<status, op, row, target, todo>>
        /\ pc[k] = "retire" /\ op[k] \in Revisers
        /\ pc'[k] \in {"issue", "done", "settle", "refused"}
        /\ \A j \in Reqs \ {k} : pc'[j] = pc[j] /\ cur'[j] = cur[j]
        /\ stranded \subseteq stranded'
        /\ \A a \in Reqs : appr[a] = "pending" /\ ForStore(a)
             => appr'[a] = "pending" \/ row[a] \in stranded'
    BY <1>8 DEF Retire, ExpireAndForget, TypeOK, ErrandsKept, ErrandOf
  <2>2. /\ pc'[k] = "settle" => cur'[k] \in todo[k]
        /\ op[k] = "patch" => pc'[k] \in {"issue", "settle"} \/ row[k] \in stranded'
    BY <1>8 DEF Retire, TypeOK
  <2>3. ErrandOf(k)' /\ RevisionOf(k)' /\ RetractionOf(k)'
    BY <2>1, <2>2 DEF ErrandsKept, ErrandOf, RevisionOf, RetractionOf, Closed, Revisers
  <2>4. \A d \in Defs : Owes(k, d) => Owes(k, d)' \/ d \in stranded'
    BY <2>1, <2>2 DEF Owes
  <2>5. QED
    BY <1>b, <2>1, <2>3, <2>4
<1>9. ASSUME NEW k \in Reqs, Read(k) \/ Verify(k) \/ WriteSections(k) \/ WriteRules(k)
      PROVE  ServedInv'
  <2>1. /\ UNCHANGED <<status, appr, stranded, op, row, target, todo, cur>>
        /\ pc[k] \in {"read", "verify", "sections", "rules"}
        /\ pc'[k] \in {"refused", "verify", "fetch", "record", "rules", "done"}
        /\ pc'[k] \in {"verify", "record"} => op[k] \in Decisions
        /\ op[k] # "retract"
        /\ \A j \in Reqs \ {k} : pc'[j] = pc[j]
    BY <1>9 DEF Read, Verify, WriteSections, WriteRules, Decided, TypeOK, ErrandsKept, ErrandOf,
                RetractionOf, Sweeping
  <2>2. ErrandOf(k)' /\ RevisionOf(k)' /\ RetractionOf(k)'
    BY <2>1 DEF ErrandOf, RevisionOf, RetractionOf
  <2>3. \A d \in Defs : ~Owes(k, d)
    BY <2>1 DEF Owes
  <2>4. QED
    BY <1>b, <2>1, <2>2, <2>3
<1>10. ASSUME NEW k \in Reqs, Fetch(k)
      PROVE  ServedInv'
  <2>1. /\ UNCHANGED <<status, appr, stranded, op, target, todo, cur>>
        /\ pc[k] = "fetch" /\ pc'[k] \in {"apply", "refused"}
        /\ \A j \in Reqs \ {k} : pc'[j] = pc[j] /\ row'[j] = row[j]
        /\ op[k] = "retract" => row'[k] = row[k]
    BY <1>10 DEF Fetch, Found, TypeOK
  <2>2. op[k] = "retract" => row'[target[k]] = row[target[k]]
    BY DEF ErrandsKept, RetractionOf, IssuedKept, Linked
  <2>3. ErrandOf(k)' /\ RevisionOf(k)' /\ RetractionOf(k)'
    BY <2>1, <2>2 DEF ErrandsKept, ErrandOf, RevisionOf, RetractionOf
  <2>4. ASSUME NEW d \in Defs, Owes(k, d), status[d] = "pending"
        PROVE  Owes(k, d)'
    <3>1. row[k] = d /\ op[k] \in {"propose", "retract"} /\ IsLatest(d)
      BY <2>1, <2>4 DEF Owes, PendingIsLatest
    <3>2. \A e \in Defs : Found(k, e) => e = d
      <4> SUFFICES ASSUME NEW e \in Defs, Found(k, e), op[k] = "propose"
                   PROVE  e = d
        BY <3>1 DEF Found
      <4>1. /\ e = <<e[1], e[2]>> /\ d = <<d[1], d[2]>> /\ e[1] = d[1] /\ IsLatest(e)
            /\ e[2] \in Versions /\ d[2] \in Versions
        BY <3>1, DefParts DEF Versions, Found, Decisions
      <4>2. e[2] <= d[2] /\ d[2] <= e[2]
        BY <3>1, <4>1 DEF IsLatest
      <4>3. QED
        BY <4>1, <4>2 DEF Versions
    <3>3. Found(k, d) /\ Needed(op[k]) = "pending"
      BY <3>1 DEF Found, Needed, Decisions
    <3>4. pc'[k] = "apply" /\ row'[k] = d
      BY <1>10, <2>4, <3>2, <3>3 DEF Fetch, TypeOK
    <3>5. QED
      BY <2>1, <3>1, <3>4 DEF Owes
  <2>5. QED
    BY <1>b, <2>1, <2>3, <2>4
<1>11. ASSUME NEW k \in Reqs, Apply(k)
      PROVE  ServedInv'
  <2>1. /\ UNCHANGED <<appr, stranded, op, row, target, todo, cur>>
        /\ pc[k] = "apply"
        /\ pc'[k] = IF op[k] \in Decisions THEN "record"
                    ELSE IF op[k] = "withdraw" THEN "collect" ELSE "done"
        /\ \A j \in Reqs \ {k} : pc'[j] = pc[j]
        /\ status'[row[k]] \in {"approved", "rejected", "archived"}
        /\ \A d \in Defs : d # row[k] => status'[d] = status[d]
    BY <1>11 DEF Apply, NewStatus, Decisions, TypeOK
  <2>2. ErrandOf(k)' /\ RevisionOf(k)' /\ RetractionOf(k)'
    BY <2>1 DEF ErrandsKept, ErrandOf, RevisionOf, RetractionOf, Decisions, Revisers, Closed
  <2>3. \A d \in Defs : Owes(k, d) => d = row[k]
    BY <2>1 DEF Owes
  <2>4. QED
    BY <1>b, <2>1, <2>2, <2>3
<1>12. ASSUME NEW k \in Reqs, Settle(k)
      PROVE  ServedInv'
  <2> DEFINE s == Settled(k)
  <2>1. /\ UNCHANGED <<status, stranded, op, row, target>>
        /\ pc[k] = "settle"
        /\ op[k] \in Revisers => pc'[k] = "retire"
        /\ op[k] = "retract" /\ ForStore(target[k]) => pc'[k] = "fetch"
        /\ op[k] = "retract" => pc'[k] \in {"fetch", "done"}
        /\ pc'[k] \in {"retire", "fetch", "sections", "done"}
        /\ pc'[k] = "retire" => op[k] \in Revisers
        /\ todo'[k] \subseteq todo[k]
        /\ \A j \in Reqs \ {k} : pc'[j] = pc[j] /\ cur'[j] = cur[j] /\ todo'[j] = todo[j]
        /\ \A a \in Reqs : a # s => appr'[a] = appr[a]
    BY <1>12 DEF Settle, TypeOK, Revisers
  <2>2. ErrandOf(k)' /\ RevisionOf(k)' /\ RetractionOf(k)'
    BY <2>1 DEF ErrandsKept, ErrandOf, RevisionOf, RetractionOf, Sweeping, Closed
  <2>3. ASSUME NEW a \in Reqs, a = s, appr[a] = "pending", ForStore(a),
               status[row[a]] = "pending"
        PROVE  Owes(k, row[a])'
    <3>1. CASE op[k] \in Decisions
      BY <2>1, <2>3, <3>1 DEF DecisionAim, Settled, Revisers, Decisions, Closed
    <3>2. CASE op[k] \in Revisers
      BY <2>1, <2>3, <3>2 DEF ErrandsKept, RevisionOf, Settled, Revisers, Closed, Owes
    <3>3. CASE op[k] = "retract"
      BY <2>1, <2>3, <3>3 DEF ErrandsKept, RetractionOf, Settled, Revisers, Owes
    <3>4. QED
      BY <2>1, <3>1, <3>2, <3>3 DEF ErrandsKept, ErrandOf
  <2>4. \A d \in Defs : Owes(k, d) => Owes(k, d)'
    BY <2>1 DEF Owes, Revisers
  <2>5. QED
    BY <1>b, <2>1, <2>2, <2>3, <2>4
<1>13. ASSUME NEW S \in SUBSET Reqs, Lose(S), \A k \in S : Active(k)
      PROVE  ServedInv'
  <2>1. /\ status' = status /\ appr' = appr
        /\ stranded' = stranded \cup UNION {Handled(k) : k \in S}
        /\ \A j \in Reqs \ S : /\ pc'[j] = pc[j] /\ row'[j] = row[j] /\ op'[j] = op[j]
                               /\ target'[j] = target[j] /\ todo'[j] = todo[j]
                               /\ cur'[j] = cur[j]
        /\ \A j \in S : pc'[j] = "lost" /\ op'[j] = "none"
    BY <1>13 DEF Lose, Wiped
  <2>2. ErrandsKept'
    <3> SUFFICES ASSUME NEW j \in Reqs
                 PROVE  ErrandOf(j)' /\ RevisionOf(j)' /\ RetractionOf(j)'
      BY DEF ErrandsKept
    <3>1. CASE j \in S
      BY <2>1, <3>1 DEF ErrandOf, RevisionOf, RetractionOf, Revisers
    <3>2. CASE j \notin S
      <4>1. /\ \A a \in todo[j] : row'[a] = row[a]
            /\ target[j] \in Reqs => row'[target[j]] = row[target[j]]
        BY DEF IssuedKept, Linked, TypeOK
      <4>2. QED
        BY <2>1, <3>2, <4>1 DEF ErrandsKept, ErrandOf, RevisionOf, RetractionOf, Closed
    <3>3. QED
      BY <3>1, <3>2
  <2>3. PendingIsDecidable'
    <3> SUFFICES ASSUME NEW d \in Defs, status'[d] = "pending"
                 PROVE  \/ \E a \in Reqs : ForStore(a)' /\ row'[a] = d /\ appr'[a] = "pending"
                        \/ \E j \in Reqs : Owes(j, d)'
                        \/ d \in stranded'
      BY DEF PendingIsDecidable
    <3>1. ASSUME NEW a \in Reqs, ForStore(a), row[a] = d, appr[a] = "pending"
          PROVE  ForStore(a)' /\ row'[a] = d /\ appr'[a] = "pending"
      BY <2>1, <3>1 DEF IssuedKept, ForStore
    <3>2. ASSUME NEW j \in Reqs, Owes(j, d)
          PROVE  Owes(j, d)' \/ d \in stranded'
      <4>1. CASE j \in S
        BY <2>1, <3>2, <4>1 DEF Owes, Handled
      <4>2. CASE j \notin S
        <5>1. \A a \in todo[j] : row'[a] = row[a]
          BY DEF IssuedKept, Linked, TypeOK
        <5>2. QED
          BY <2>1, <3>2, <4>2, <5>1 DEF Owes
      <4>3. QED
        BY <4>1, <4>2
    <3>3. QED
      BY <2>1, <3>1, <3>2 DEF PendingIsDecidable
  <2>4. QED
    BY <2>2, <2>3 DEF ServedInv
<1>14. CASE (\E a \in Reqs : Age(a)) \/ UNCHANGED vars
  <2>1. UNCHANGED <<status, appr, pc, row, op, target, todo, cur, stranded>>
    BY <1>14 DEF Age, vars
  <2>2. QED
    BY <2>1 DEF ServedInv, ErrandsKept, ErrandOf, RevisionOf, RetractionOf, Closed,
                PendingIsDecidable, Owes, ForStore
<1>15. QED
  BY <1>1, <1>2, <1>3, <1>4, <1>5, <1>6, <1>7, <1>8, <1>9, <1>10, <1>11, <1>12, <1>13, <1>14
     DEF Next, SweepStep, StoreStep, DecisionStep, Crash, DbFails

LEMMA InitDecided == Init => DecidedInv
BY InitRows DEF Init, DecidedInv, DecisionAim, SettledClosed, EditApplied, Decisions

\* A pending definition has a link that decides it or a request that will see
\* to it, up to the requests that died and the expiries nobody followed up:
\* every route that takes an approval away closes the definition or issues
\* another one.
THEOREM PendingIsDecidableHolds == Spec => []PendingIsDecidable
<1>1. Init => ServedInv
  BY InitDecided DEF Init, ServedInv, ErrandsKept, ErrandOf, RevisionOf, RetractionOf,
                     PendingIsDecidable, Revisers
<1>2. QED
  BY <1>1, StepServed, PTL DEF Spec, ServedInv
=============================================================================
