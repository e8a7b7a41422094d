---------------------- MODULE AuthorizationServersProofs ----------------------
(***************************************************************************)
(* Proofs about AuthorizationServers, for any number of threads, nonces,   *)
(* codes, forms and publishers, and any time, limits and faults.           *)
(*                                                                         *)
(* The invariant ServersInv has one part for each promise: the files of    *)
(* the snapshots (SnapInv), the nonces (NonceInv), the codes of the        *)
(* authenticator (OpenInv), the limiters (HitsInv), the forms that wait    *)
(* (AwaitInv).  Each part is inductive given the types alone; PromiseInv   *)
(* adds what the refinement of Grants needs.                               *)
(***************************************************************************)
EXTENDS AuthorizationServers, FiniteSetTheorems, WellFoundedInduction, TLAPS

USE GateAssumption, ServersAssumption, SnapshotsAssumption

-----------------------------------------------------------------------------
(* Types *)

Types == GateTypesOK(Forms) /\ ServerTypesOK

\* The lists of hits are finite, and so are the copies requests hold.
HitsFinite ==
  /\ \A d \in Doors : IsFiniteSet(hits[d])
  /\ \A t \in Threads : At(t, "count") => IsFiniteSet(work[t].hits)

LEMMA InitTypes == Init => Types /\ SnapshotsTypeOK
<1> SUFFICES ASSUME Init
             PROVE  Types /\ SnapshotsTypeOK
  OBVIOUS
<1>1. GateTypesOK(Forms)
  <2>1. work \in [Threads -> Jobs(Forms)]
    BY DEF Init, InitGate, Jobs
  <2>2. - Drift \in Counters \cup {- Drift}
    OBVIOUS
  <2>3. QED
    BY <2>1, <2>2 DEF Init, InitGate, GateTypesOK, Unsigned
<1>2. ServerTypesOK
  BY DEF Init, ServerTypesOK, None
<1>3. SnapshotsTypeOK
  BY DEF Init, InitSnapshots, SnapshotsTypeOK, Off
<1>4. QED
  BY <1>1, <1>2, <1>3 DEF Types

\* The parts of Jobs, by what the thread is at.
LEMMA JobParts ==
  ASSUME NEW j \in Jobs(Forms)
  PROVE  /\ j.at \in {"idle", "verify", "sweep", "count", "check", "replied"}
         /\ j.at = "idle" => j = Nothing
         /\ j.at \in {"verify", "sweep"} =>
              /\ j \in [at : {"verify", "sweep"}, nonce : Nonces, now : 1 .. clock,
                        moved : BOOLEAN]
              /\ j.nonce \in Nonces /\ j.now \in 1 .. clock /\ j.moved \in BOOLEAN
         /\ j.at = "count" =>
              /\ j.door \in Doors /\ j.for \in Forms \cup {Nobody}
              /\ j.hit \in Attempts /\ j.hits \in SUBSET Attempts
         /\ j.at = "check" => j = [at |-> "check", for |-> j.for] /\ j.for \in Forms \cup {Nobody}
         /\ j.at = "replied" =>
              j = [at |-> "replied", for |-> j.for, ok |-> j.ok] /\ j.for \in Forms
                /\ j.ok \in BOOLEAN
<1>1. CASE j = Nothing
  BY <1>1 DEF Nothing
<1>2. CASE j \in [at : {"verify", "sweep"}, nonce : Nonces, now : 1 .. clock, moved : BOOLEAN]
  BY <1>2
<1>3. CASE j \in [at : {"count"}, door : Doors, for : Forms \cup {Nobody}, hit : Attempts,
                  hits : SUBSET Attempts]
  BY <1>3
<1>4. CASE j \in [at : {"check"}, for : Forms \cup {Nobody}]
  BY <1>4
<1>5. CASE j \in [at : {"replied"}, for : Forms, ok : BOOLEAN]
  BY <1>5
<1>6. QED
  BY <1>1, <1>2, <1>3, <1>4, <1>5 DEF Jobs

\* What a thread can begin or go on with.
LEMMA SomeJobs ==
  /\ Nothing \in Jobs(Forms)
  /\ \A n \in Nonces, c \in 1 .. clock, b \in BOOLEAN, s \in {"verify", "sweep"} :
       [at |-> s, nonce |-> n, now |-> c, moved |-> b] \in Jobs(Forms)
  /\ \A d \in Doors, f \in Forms \cup {Nobody}, x \in Attempts, h \in SUBSET Attempts :
       [at |-> "count", door |-> d, for |-> f, hit |-> x, hits |-> h] \in Jobs(Forms)
  /\ \A f \in Forms \cup {Nobody} : [at |-> "check", for |-> f] \in Jobs(Forms)
  /\ \A f \in Forms, b \in BOOLEAN : [at |-> "replied", for |-> f, ok |-> b] \in Jobs(Forms)
BY DEF Jobs

\* Adding or removing a nonce lets every thread go on with what it does.
LEMMA DisturbedIs ==
  ASSUME Types, NEW u \in Threads
  PROVE  /\ Disturbed(u) \in Jobs(Forms)
         /\ \/ Disturbed(u) = work[u]
            \/ /\ At(u, "sweep") /\ Disturbed(u).at = "sweep"
               /\ Disturbed(u).nonce = work[u].nonce
<1> DEFINE V == [at : {"verify", "sweep"}, nonce : Nonces, now : 1 .. clock, moved : BOOLEAN]
<1>1. work[u] \in Jobs(Forms)
  BY DEF Types, GateTypesOK
<1>2. CASE ~At(u, "sweep")
  BY <1>1, <1>2 DEF Disturbed
<1>3. CASE At(u, "sweep")
  <2>1. work[u] \in V
    BY <1>1, <1>3, JobParts DEF At
  <2>2. \A j \in V : LET i == [j EXCEPT !.moved = TRUE] IN
          i \in V /\ i.at = j.at /\ i.nonce = j.nonce
    OBVIOUS
  <2>3. V \subseteq Jobs(Forms)
    BY DEF Jobs
  <2>4. Disturbed(u) = [work[u] EXCEPT !.moved = TRUE]
    BY <1>3 DEF Disturbed
  <2>5. QED
    BY <1>3, <2>1, <2>2, <2>3, <2>4 DEF At
<1>4. QED
  BY <1>2, <1>3

\* What the threads do after a nonce was stored, and after a sweep.
LEMMA NonceSteps ==
  ASSUME Types, NEW t \in Threads, StoreNonce(t) \/ Sweep(t)
  PROVE  /\ work' \in [Threads -> Jobs(Forms)]
         /\ \A u \in Threads \ {t} :
              \/ work'[u] = work[u]
              \/ /\ At(u, "sweep") /\ work'[u].at = "sweep"
                 /\ work'[u].nonce = work[u].nonce
         /\ StoreNonce(t) =>
              /\ At(t, "verify") /\ work'[t].at = "sweep" /\ work'[t].nonce = work[t].nonce
         /\ Sweep(t) => At(t, "sweep") /\ work'[t] = Nothing
<1> DEFINE V == [at : {"verify", "sweep"}, nonce : Nonces, now : 1 .. clock, moved : BOOLEAN]
<1>1. work \in [Threads -> Jobs(Forms)]
  BY DEF Types, GateTypesOK
<1>2. CASE StoreNonce(t)
  <2>1. work[t] \in V /\ At(t, "verify")
    BY <1>1, <1>2, JobParts DEF StoreNonce, At
  <2>2. \A j \in V : LET i == [j EXCEPT !.at = "sweep"] IN
          i \in V /\ i.at = "sweep" /\ i.nonce = j.nonce
    OBVIOUS
  <2>3. V \subseteq Jobs(Forms)
    BY DEF Jobs
  <2>4. work' = [u \in Threads |->
                   IF u = t THEN [work[t] EXCEPT !.at = "sweep"] ELSE Disturbed(u)]
    BY <1>2 DEF StoreNonce
  <2>5. /\ [work[t] EXCEPT !.at = "sweep"] \in Jobs(Forms)
        /\ [work[t] EXCEPT !.at = "sweep"].at = "sweep"
        /\ [work[t] EXCEPT !.at = "sweep"].nonce = work[t].nonce
    BY <2>1, <2>2, <2>3
  <2>6. ~Sweep(t)
    BY <2>1 DEF Sweep, At
  <2>7. QED
    BY <1>2, <2>1, <2>4, <2>5, <2>6, DisturbedIs
<1>3. CASE Sweep(t)
  <2>1. At(t, "sweep") /\ ~StoreNonce(t)
    BY <1>3 DEF Sweep, StoreNonce, At
  <2>2. work' = [u \in Threads |->
                   IF u = t THEN Nothing
                   ELSE IF DOMAIN cache' # DOMAIN cache THEN Disturbed(u) ELSE work[u]]
    BY <1>3 DEF Sweep
  <2>3. QED
    BY <1>1, <2>1, <2>2, DisturbedIs, SomeJobs
<1>4. QED
  BY <1>2, <1>3

LEMMA FaultTypes ==
  ASSUME Types, Fault \/ NoFault
  PROVE  faults' \in 0 .. MaxFaults /\ troubled' \in BOOLEAN
<1>1. faults' \in 0 .. MaxFaults
  BY DEF Fault, NoFault, Types, GateTypesOK
<1>2. troubled' \in BOOLEAN
  <2>1. CASE Fault
    BY <2>1 DEF Fault
  <2>2. CASE NoFault
    BY <2>2 DEF NoFault, Types, ServerTypesOK
  <2>3. QED
    BY <2>1, <2>2
<1>3. QED
  BY <1>1, <1>2

LEMMA StepTypes == Types /\ HitsFinite /\ [Next]_vars => Types'
<1> SUFFICES ASSUME Types, HitsFinite, [Next]_vars
             PROVE  Types'
  OBVIOUS
<1> USE DEF nonceVars, totpVars, gateVars, serverVars, Backend, Request
<1>0. /\ GateTypesOK(Forms) /\ ServerTypesOK
      /\ clock \in Nat /\ clock >= 1 /\ MaxClock \in Nat /\ Nobody \notin Forms
  BY DEF GateTypesOK, Types
<1>c. UNCHANGED <<clock, run>> =>
        Jobs(Forms)' = Jobs(Forms) /\ Attempts' = Attempts /\ AllAttempts' = AllAttempts
  BY DEF Jobs, Attempts, AllAttempts
<1>s. Attempts \subseteq AllAttempts
  BY <1>0 DEF Attempts, AllAttempts, GateTypesOK
<1>w. \A t \in Threads : work[t] \in Jobs(Forms)
  BY <1>0 DEF GateTypesOK
<1>g. ASSUME UNCHANGED serverVars, GateTypesOK(Forms)'
      PROVE  Types'
  BY <1>0, <1>g DEF ServerTypesOK, Types
<1>1. ASSUME NEW t \in Threads, NEW n \in Nonces, Arrive(t, n)
      PROVE  GateTypesOK(Forms)'
  <2>0. [at |-> "verify", nonce |-> n, now |-> clock, moved |-> FALSE] \in Jobs(Forms)
    BY <1>0 DEF Jobs
  <2>1. work' \in [Threads -> Jobs(Forms)]
    BY <1>0, <1>1, <2>0 DEF Arrive, Begin, GateTypesOK
  <2>2. stamp' \in [Nonces -> 0 .. MaxClock] /\ reqs' \in 0 .. MaxReqs
    BY <1>0, <1>1 DEF Arrive, Begin, GateTypesOK
  <2>3. QED
    BY <1>0, <1>1, <1>c, <2>1, <2>2 DEF Arrive, GateTypesOK
<1>2. ASSUME NEW t \in Threads, BadSignature(t) \/ SweepFails(t)
      PROVE  GateTypesOK(Forms)'
  <2>1. work' \in [Threads -> Jobs(Forms)]
    BY <1>0, <1>2, SomeJobs DEF BadSignature, SweepFails, GateTypesOK
  <2>2. QED
    BY <1>0, <1>2, <1>c, <2>1 DEF BadSignature, SweepFails, GateTypesOK
<1>3. ASSUME NEW t \in Threads, StoreNonce(t)
      PROVE  GateTypesOK(Forms)'
  <2>2. work' \in [Threads -> Jobs(Forms)]
    BY <1>3, NonceSteps
  <2>3. work[t].nonce \in Nonces /\ work[t].now \in 1 .. clock
    BY <1>3, <1>w, JobParts DEF StoreNonce, At
  <2>4. DOMAIN cache' \subseteq Nonces /\ cache' \in [DOMAIN cache' -> 1 .. clock]
    BY <1>0, <1>3, <2>3 DEF StoreNonce, GateTypesOK
  <2>5. QED
    BY <1>0, <1>3, <1>c, <2>2, <2>4 DEF StoreNonce, GateTypesOK
<1>4. ASSUME NEW t \in Threads, Sweep(t)
      PROVE  GateTypesOK(Forms)'
  <2>1. work' \in [Threads -> Jobs(Forms)]
    BY <1>4, NonceSteps
  <2>2. work[t].nonce \in Nonces
    BY <1>4, <1>w, JobParts DEF Sweep, At
  <2>3. DOMAIN cache' \subseteq Nonces /\ cache' \in [DOMAIN cache' -> 1 .. clock]
    BY <1>0, <1>4 DEF Sweep, GateTypesOK
  <2>4. accepted' \in [Nonces -> Nat]
    BY <1>0, <1>4, <2>2 DEF Sweep, GateTypesOK
  <2>5. QED
    BY <1>0, <1>4, <1>c, <2>1, <2>3, <2>4 DEF Sweep, GateTypesOK
<1>a. ASSUME NEW d \in Doors
      PROVE  Attempt(d) \in Attempts /\ Recent(hits[d]) \in SUBSET Attempts
  <2>1. IsFiniteSet({x \in hits[d] : x.at = clock})
    BY <1>0, FS_Subset DEF HitsFinite, GateTypesOK
  <2>2. Cardinality({x \in hits[d] : x.at = clock}) \in Nat
    BY <2>1, FS_CardinalityType
  <2>3. QED
    BY <1>0, <2>2 DEF Attempt, Attempts, Recent, GateTypesOK
<1>5. ASSUME NEW t \in Threads, NEW d \in Doors, NEW f \in Forms \cup {Nobody}, Ask(t, d, f)
      PROVE  GateTypesOK(Forms)'
  <2>1. work' \in [Threads -> Jobs(Forms)]
    BY <1>0, <1>5, <1>a, SomeJobs DEF Ask, Begin, GateTypesOK
  <2>2. QED
    BY <1>0, <1>5, <1>c, <2>1 DEF Ask, Begin, GateTypesOK
<1>r. ASSUME NEW t \in Threads, NEW ok \in BOOLEAN, Answer(t, ok),
             At(t, "count") \/ At(t, "check")
      PROVE  work' \in [Threads -> Jobs(Forms)]
  <2>1. work[t].for \in Forms \cup {Nobody}
    BY <1>r, <1>w, JobParts DEF At
  <2>2. QED
    BY <1>0, <1>r, <2>1, SomeJobs DEF Answer, GateTypesOK
<1>6. ASSUME NEW t \in Threads, CountHit(t)
      PROVE  GateTypesOK(Forms)'
  <2>1. /\ work[t].door \in Doors /\ work[t].for \in Forms \cup {Nobody}
        /\ work[t].hit \in Attempts /\ work[t].hits \in SUBSET Attempts
    BY <1>6, <1>w, JobParts DEF CountHit, At
  <2>2. work' \in [Threads -> Jobs(Forms)]
    BY <1>0, <1>6, <1>r, <2>1, SomeJobs DEF CountHit, GateTypesOK
  <2>3. hits' \in [Doors -> SUBSET Attempts] /\ through' \in [Doors -> SUBSET AllAttempts]
    <3>1. /\ hits' = [hits EXCEPT ![work[t].door] = work[t].hits \cup {work[t].hit}]
          /\ \/ through' = through
             \/ through' = [through EXCEPT ![work[t].door] = @ \cup {work[t].hit}]
      BY <1>6 DEF CountHit
    <3>2. QED
      BY <1>0, <1>s, <2>1, <3>1 DEF GateTypesOK
  <2>4. QED
    BY <1>0, <1>6, <1>c, <2>2, <2>3 DEF CountHit, GateTypesOK
<1>7. ASSUME NEW t \in Threads, AskUnlock(t)
      PROVE  GateTypesOK(Forms)'
  <2>1. "unlock" \in Doors
    BY DEF Doors
  <2>2. work' \in [Threads -> Jobs(Forms)]
    BY <1>0, <1>7, SomeJobs DEF AskUnlock, GateTypesOK
  <2>3. hits' \in [Doors -> SUBSET Attempts] /\ through' \in [Doors -> SUBSET AllAttempts]
    BY <1>0, <1>7, <1>a, <1>s, <2>1 DEF AskUnlock, GateTypesOK
  <2>4. QED
    BY <1>0, <1>7, <1>c, <2>2, <2>3 DEF AskUnlock, GateTypesOK
<1>8. ASSUME NEW t \in Threads, AskInspect(t)
      PROVE  GateTypesOK(Forms)'
  <2>1. work' \in [Threads -> Jobs(Forms)]
    BY <1>0, <1>8, SomeJobs DEF AskInspect, Begin, GateTypesOK
  <2>2. QED
    BY <1>0, <1>8, <1>c, <2>1 DEF AskInspect, Begin, GateTypesOK
<1>9. ASSUME NEW t \in Threads, CheckFails(t)
      PROVE  GateTypesOK(Forms)'
  BY <1>0, <1>9, <1>c, <1>r DEF CheckFails, GateTypesOK
<1>10. ASSUME NEW t \in Threads, CheckCode(t)
       PROVE  GateTypesOK(Forms)'
  <2>1. PICK c \in clock - Drift .. clock + Drift :
          used' = c /\ opened' = [opened EXCEPT ![c] = @ + 1]
    BY <1>10 DEF CheckCode
  <2>2. c \in Counters
    BY <1>0 DEF Counters, GateTypesOK
  <2>3. QED
    <3>1. opened' \in [Counters -> Nat] /\ used' \in Counters
      BY <1>0, <2>1, <2>2 DEF GateTypesOK
    <3>2. work' \in [Threads -> Jobs(Forms)]
      BY <1>10, <1>r DEF CheckCode
    <3>3. Counters' = Counters
      BY DEF Counters
    <3>4. QED
      BY <1>0, <1>10, <1>c, <3>1, <3>2, <3>3 DEF CheckCode, GateTypesOK
<1>11. ASSUME RestartBackend
       PROVE  GateTypesOK(Forms)'
  <2> DEFINE Left == {Nothing} \cup [at : {"replied"}, for : Forms, ok : BOOLEAN]
  <2>1. ASSUME NEW t \in Threads
        PROVE  work'[t] \in Left
    <3>1. CASE Idle(t) \/ At(t, "replied") \/ work[t].at \in {"verify", "sweep"}
      <4>1. Idle(t) \/ At(t, "replied") => work[t] \in Left
        BY <1>w, JobParts DEF Idle, At
      <4>2. QED
        BY <1>11, <3>1, <4>1 DEF RestartBackend
    <3>2. CASE At(t, "count") \/ At(t, "check")
      <4>1. work[t].for \in Forms \cup {Nobody}
        BY <1>w, <3>2, JobParts DEF At
      <4>2. ~Idle(t) /\ ~At(t, "replied") /\ work[t].at \notin {"verify", "sweep"}
        BY <3>2 DEF Idle, At, Nothing
      <4>3. QED
        BY <1>11, <4>1, <4>2 DEF RestartBackend
    <3>3. QED
      BY <1>w, <3>1, <3>2, JobParts DEF At, Idle
  <2>2. work' \in [Threads -> Jobs(Forms)']
    <3>1. work' \in [Threads -> Left]
      BY <1>11, <2>1 DEF RestartBackend
    <3>2. Left \subseteq Jobs(Forms)'
      BY DEF Jobs
    <3>3. QED
      BY <3>1, <3>2
  <2>3. /\ hits' \in [Doors -> SUBSET Attempts'] /\ run' \in Nat
        /\ faults' \in 0 .. MaxFaults
        /\ cache' = [n \in {} |-> 0]
    BY <1>0, <1>11 DEF RestartBackend, GateTypesOK
  <2>4. cache' \in [DOMAIN cache' -> 1 .. clock] /\ DOMAIN cache' = {}
    BY <2>3
  <2>5. through' \in [Doors -> SUBSET AllAttempts']
    <3>1. AllAttempts \subseteq AllAttempts'
      BY <1>0, <1>11 DEF AllAttempts, RestartBackend, GateTypesOK
    <3>2. QED
      BY <1>0, <1>11, <3>1 DEF RestartBackend, GateTypesOK
  <2>6. QED
    BY <1>0, <1>11, <2>2, <2>3, <2>4, <2>5 DEF RestartBackend, GateTypesOK
<1>12. ASSUME NEW t \in Threads, GateStep(t)
       PROVE  GateTypesOK(Forms)'
  <2>1. "verify" \in Doors /\ "code only" \in Doors
    BY DEF Doors, Pooled
  <2>2. QED
    BY <1>1, <1>2, <1>3, <1>4, <1>5, <1>6, <1>7, <1>8, <1>9, <1>10, <1>12, <2>1
       DEF GateStep, AskCodeOnly
<1>13. ASSUME NEW t \in Threads, NEW f \in Forms, NEW c \in Clients, AskConsent(t, f, c)
       PROVE  Types'
  <2>1. GateTypesOK(Forms)'
    <3>1. "verify" \in Doors
      BY DEF Doors, Pooled
    <3>2. QED
      BY <1>5, <1>13, <3>1 DEF AskConsent, AskVerify
  <2>2. forms' \in [Forms -> SUBSET Clients]
    BY <1>0, <1>13 DEF AskConsent, ServerTypesOK
  <2>3. QED
    BY <1>0, <1>13, <2>1, <2>2 DEF AskConsent, ServerTypesOK, Types
<1>14. ASSUME NEW t \in Threads, Consented(t) \/ NotConsented(t)
       PROVE  Types'
  <2>1. work[t].for \in Forms
    BY <1>14, <1>w, JobParts DEF Consented, NotConsented, Take, At
  <2>2. forms' \in [Forms -> SUBSET Clients] /\ work' \in [Threads -> Jobs(Forms)]
    BY <1>0, <1>14, <2>1, SomeJobs DEF Consented, NotConsented, Take, GateTypesOK, ServerTypesOK
  <2>3. GateTypesOK(Forms)'
    BY <1>0, <1>14, <1>c, <2>2 DEF Consented, NotConsented, Take, GateTypesOK
  <2>4. /\ issued' \subseteq Codes /\ DOMAIN codes' \subseteq issued'
        /\ codes' \in [DOMAIN codes' -> Grant]
    <3>1. CASE NotConsented(t)
      BY <1>0, <3>1 DEF NotConsented, ServerTypesOK
    <3>2. CASE Consented(t)
      <4>1. PICK k \in Fresh, c \in forms[work[t].for] :
              codes' = With(codes, k, c) /\ issued' = issued \cup {k}
        BY <3>2 DEF Consented
      <4>2. k \in Codes /\ Code(c) \in Grant
        BY <1>0, <2>1, <4>1 DEF Fresh, Code, Grant, ServerTypesOK, GateTypesOK
      <4>3. QED
        BY <1>0, <4>1, <4>2 DEF With, ServerTypesOK
    <3>3. QED
      BY <1>14, <3>1, <3>2
  <2>5. QED
    BY <1>0, <1>14, <2>2, <2>3, <2>4 DEF Consented, NotConsented, Take, ServerTypesOK, Types
<1>15. ASSUME NEW c \in Clients, Register(c)
       PROVE  Types'
  <2>1. /\ told' \subseteq Clients /\ clients' \subseteq told' /\ saved' \subseteq told'
        /\ issued' = issued /\ codes' \in {codes, None}
        /\ reqs' \in 0 .. MaxReqs
        /\ Fault \/ NoFault
    BY <1>0, <1>15 DEF Register, RegisterMcp, RegisterLife, ReadState,
                       ServerTypesOK, GateTypesOK
  <2>f. faults' \in 0 .. MaxFaults /\ troubled' \in BOOLEAN
    BY <2>1, FaultTypes
  <2>2. GateTypesOK(Forms)'
    BY <1>0, <1>15, <1>c, <2>1, <2>f DEF Register, GateTypesOK
  <2>3. DOMAIN codes' \subseteq issued' /\ codes' \in [DOMAIN codes' -> Grant]
    BY <1>0, <2>1 DEF None, ServerTypesOK
  <2>4. QED
    BY <1>0, <1>15, <2>1, <2>2, <2>3, <2>f DEF Register, ServerTypesOK, Types
<1>16. ASSUME NEW c \in Clients, ConsentLife(c)
       PROVE  Types'
  <2>1. PICK k \in Fresh, cs \in SUBSET clients, ks \in {codes, None} :
          /\ ReadState(cs, ks)
          /\ clients' = cs /\ codes' = With(ks, k, c) /\ issued' = issued \cup {k}
    BY <1>16 DEF ConsentLife
  <2>2. faults' \in 0 .. MaxFaults /\ troubled' \in BOOLEAN
    BY <2>1, FaultTypes DEF ReadState
  <2>3. GateTypesOK(Forms)'
    BY <1>0, <1>16, <1>c, <2>2 DEF ConsentLife, GateTypesOK
  <2>4. /\ issued' \subseteq Codes /\ DOMAIN codes' \subseteq issued'
        /\ codes' \in [DOMAIN codes' -> Grant]
    <3>1. k \in Codes /\ Code(c) \in Grant
      BY <1>0, <2>1 DEF Fresh, Code, Grant, GateTypesOK
    <3>2. DOMAIN ks \subseteq issued /\ ks \in [DOMAIN ks -> Grant]
      BY <1>0, <2>1 DEF None, ServerTypesOK
    <3>3. QED
      BY <1>0, <2>1, <3>1, <3>2 DEF With, ServerTypesOK
  <2>5. QED
    BY <1>0, <1>16, <2>1, <2>2, <2>3, <2>4 DEF ConsentLife, ServerTypesOK, Types
<1>17. ASSUME NEW k \in Codes, Redeem(k)
       PROVE  Types'
  <2>1. /\ clients' \in {clients, {}} /\ codes' \in {codes, None, Spent(k)}
        /\ tokens' \in {tokens, [tokens EXCEPT ![k] = @ + 1]}
        /\ Fault \/ NoFault
    BY <1>17 DEF Redeem, RedeemMcp, RedeemLife
  <2>f. faults' \in 0 .. MaxFaults /\ troubled' \in BOOLEAN /\ reqs' \in 0 .. MaxReqs
    BY <1>0, <1>17, <2>1, FaultTypes DEF Redeem, GateTypesOK
  <2>2. tokens' \in [Codes -> Nat]
    BY <1>0, <2>1 DEF ServerTypesOK
  <2>3. GateTypesOK(Forms)'
    BY <1>0, <1>17, <1>c, <2>f DEF Redeem, GateTypesOK
  <2>4. DOMAIN codes' \subseteq issued /\ codes' \in [DOMAIN codes' -> Grant]
    BY <1>0, <2>1 DEF None, Spent, Without, ServerTypesOK
  <2>5. QED
    BY <1>0, <1>17, <2>1, <2>2, <2>3, <2>4, <2>f DEF Redeem, ServerTypesOK, Types
<1>v. ASSUME NEW S \in SUBSET Forms, work' = Abandoned(S)
      PROVE  work' \in [Threads -> Jobs(Forms)]
  <2>1. ASSUME NEW t \in Threads
        PROVE  work'[t] \in Jobs(Forms)
    <3>1. CASE work'[t] \in {work[t], Nothing}
      BY <1>w, <3>1, SomeJobs
    <3>2. CASE At(t, "check") /\ work'[t] = [work[t] EXCEPT !.for = Nobody]
      BY <1>w, <3>2, JobParts, SomeJobs DEF At
    <3>3. CASE At(t, "count") /\ work'[t] = [work[t] EXCEPT !.for = Nobody]
      <4> DEFINE C == [at : {"count"}, door : Doors, for : Forms \cup {Nobody}, hit : Attempts,
                       hits : SUBSET Attempts]
      <4>1. work[t] \in C
        BY <1>w, <3>3 DEF Jobs, At, Nothing
      <4>2. \A j \in C : [j EXCEPT !.for = Nobody] \in C
        OBVIOUS
      <4>3. QED
        BY <3>3, <4>1, <4>2 DEF Jobs
    <3>4. \/ work'[t] \in {work[t], Nothing}
          \/ (At(t, "count") \/ At(t, "check")) /\ work'[t] = [work[t] EXCEPT !.for = Nobody]
      BY <1>v, JobParts DEF Abandoned, At
    <3>5. QED
      BY <3>1, <3>2, <3>3, <3>4
  <2>2. QED
    BY <1>v, <2>1 DEF Abandoned
<1>18. ASSUME NEW f \in Forms, GiveUp(f)
       PROVE  Types'
  <2>1. work' \in [Threads -> Jobs(Forms)]
    BY <1>18, <1>v DEF GiveUp
  <2>2. forms' \in [Forms -> SUBSET Clients] /\ faults' \in 0 .. MaxFaults
    BY <1>0, <1>18 DEF GiveUp, ServerTypesOK, GateTypesOK
  <2>3. GateTypesOK(Forms)'
    BY <1>0, <1>18, <1>c, <2>1, <2>2 DEF GiveUp, GateTypesOK
  <2>4. QED
    BY <1>0, <1>18, <2>2, <2>3 DEF GiveUp, ServerTypesOK, Types
<1>19. CASE RestartServer
  <2>1. work' \in [Threads -> Jobs(Forms)]
    BY <1>19, <1>v DEF RestartServer
  <2>2. /\ forms' \in [Forms -> SUBSET Clients] /\ faults' \in 0 .. MaxFaults
        /\ boots' \in Nat
        /\ clients' \in {clients, saved, {}} /\ codes' \in {codes, None}
    BY <1>0, <1>19 DEF RestartServer, ServerTypesOK, GateTypesOK
  <2>b. troubled' \in BOOLEAN
    <3>1. troubled' = troubled \/ troubled' = TRUE
      BY <1>19 DEF RestartServer
    <3>2. QED
      BY <1>0, <3>1, Zenon DEF ServerTypesOK
  <2>3. GateTypesOK(Forms)'
    BY <1>0, <1>19, <1>c, <2>1, <2>2 DEF RestartServer, GateTypesOK
  <2>4. DOMAIN codes' \subseteq issued /\ codes' \in [DOMAIN codes' -> Grant]
    BY <1>0, <2>2 DEF None, ServerTypesOK
  <2>5. QED
    BY <1>0, <1>19, <2>2, <2>b, <2>3, <2>4 DEF RestartServer, ServerTypesOK, Types
<1>20. CASE Tick
  <2>1. clock' \in 1 .. MaxClock /\ \A c \in 1 .. clock : c \in 1 .. clock'
    BY <1>0, <1>20 DEF Tick, GateTypesOK
  <2>2. Attempts \subseteq Attempts' /\ AllAttempts \subseteq AllAttempts'
    BY <1>20, <2>1 DEF Attempts, AllAttempts, Tick
  <2>3. Jobs(Forms) \subseteq Jobs(Forms)'
    BY <2>1, <2>2 DEF Jobs
  <2>4. GateTypesOK(Forms)'
    BY <1>0, <1>20, <2>1, <2>2, <2>3 DEF Tick, GateTypesOK, Counters
  <2>5. QED
    BY <1>0, <1>20, <2>4 DEF Tick, ServerTypesOK, Types
<1>21. CASE ServerStep
  BY <1>g, <1>11, <1>12, <1>13, <1>14, <1>15, <1>16, <1>17, <1>18, <1>19, <1>20, <1>21
     DEF ServerStep
<1>22. CASE PublishStep
  <2>1. reqs' \in 0 .. MaxReqs /\ faults' \in 0 .. MaxFaults
    BY <1>0, <1>22 DEF PublishStep, GateTypesOK
  <2>2. GateTypesOK(Forms)'
    BY <1>0, <1>22, <1>c, <2>1 DEF PublishStep, GateTypesOK
  <2>3. QED
    BY <1>g, <1>22, <2>2 DEF PublishStep
<1>23. CASE UNCHANGED vars
  BY <1>0, <1>c, <1>g, <1>23 DEF vars, GateTypesOK
<1>24. QED
  BY <1>21, <1>22, <1>23 DEF Next

-----------------------------------------------------------------------------
(* The history of snapshots is kept *)

\* Files are never removed, and a publication names as previous what was current
\* when it began: that has its file, and what is written in current.json has one
\* too, because the file is written first.
FilesInv ==
  /\ shown = {} \/ current.id # Nowhere
  /\ \A v \in DOMAIN versions : versions[v] \in DOMAIN versions \cup {Nowhere}
  /\ current.id \in DOMAIN versions \cup {Nowhere}
  /\ current.prev \in DOMAIN versions \cup {Nowhere}
  /\ \A p \in Publishers :
       /\ ~Stage(p, "off") => pub[p].prev \in DOMAIN versions \cup {Nowhere}
       /\ Stage(p, "current") => pub[p].id \in DOMAIN versions

\* While no publication overtook another: the file of the current snapshot and
\* current.json name the same previous one, and what is closed under previous
\* and contains the current snapshot contains every one that was current.
LinksInv ==
  ~unlinked =>
    /\ current.id # Nowhere => versions[current.id] = current.prev
    /\ \A S \in SUBSET Snapshots :
         current.id \in S \cup {Nowhere} /\ ClosedUnderPrevious(S) => shown \subseteq S

SnapInv == SnapshotsTypeOK /\ FilesInv /\ LinksInv

LEMMA SnapInvImplies == SnapInv => HistoryIsKept
BY DEF SnapInv, SnapshotsTypeOK, FilesInv, LinksInv, HistoryIsKept

LEMMA InitSnap == InitSnapshots => SnapInv
<1> SUFFICES ASSUME InitSnapshots
             PROVE  SnapInv
  OBVIOUS
<1>1. SnapshotsTypeOK
  BY DEF InitSnapshots, SnapshotsTypeOK, Off
<1>2. FilesInv
  BY DEF InitSnapshots, FilesInv, Stage, Off
<1>3. LinksInv
  BY DEF InitSnapshots, LinksInv
<1>4. QED
  BY <1>1, <1>2, <1>3 DEF SnapInv

\* A publication in flight names a snapshot and its previous one.
LEMMA InFlight ==
  ASSUME SnapshotsTypeOK, NEW p \in Publishers, ~Stage(p, "off")
  PROVE  /\ pub[p].id \in Snapshots /\ pub[p].prev \in Snapshots \cup {Nowhere}
         /\ \A s \in {"find", "version", "current"} :
              [pub[p] EXCEPT !.at = s] = [at |-> s, id |-> pub[p].id, prev |-> pub[p].prev]
BY DEF SnapshotsTypeOK, Stage, Off

LEMMA StepSnap ==
  ASSUME SnapInv,
         \/ UNCHANGED snapshotVars
         \/ \E p \in Publishers, s \in Snapshots : LoadCurrent(p, s)
         \/ \E p \in Publishers :
              FindVersion(p) \/ WriteVersion(p) \/ WriteCurrent(p) \/ Quit(p)
  PROVE  SnapInv'
<1>0. SnapshotsTypeOK /\ FilesInv /\ LinksInv
  BY DEF SnapInv
<1>t. /\ current.id \in Snapshots \cup {Nowhere} /\ current.prev \in Snapshots \cup {Nowhere}
      /\ DOMAIN versions \subseteq Snapshots
      /\ pub \in [Publishers -> {Off} \cup
                    [at : {"find", "version", "current"}, id : Snapshots,
                     prev : Snapshots \cup {Nowhere}]]
  BY <1>0 DEF SnapshotsTypeOK
<1>1. CASE UNCHANGED snapshotVars
  BY <1>0, <1>1 DEF snapshotVars, SnapInv, SnapshotsTypeOK, FilesInv, LinksInv,
                    ClosedUnderPrevious, Stage
<1>2. ASSUME NEW p \in Publishers, NEW j, pub' = [pub EXCEPT ![p] = j],
             UNCHANGED <<current, versions, shown, unlinked>>,
             \/ j = Off
             \/ /\ j.at \in {"find", "version", "current"}
                /\ j = [at |-> j.at, id |-> j.id, prev |-> j.prev]
                /\ j.id \in Snapshots /\ j.prev \in DOMAIN versions \cup {Nowhere}
                /\ j.at = "current" => j.id \in DOMAIN versions
      PROVE  SnapInv'
  <2>1. SnapshotsTypeOK'
    <3>1. j \in {Off} \cup [at : {"find", "version", "current"}, id : Snapshots,
                            prev : Snapshots \cup {Nowhere}]
      BY <1>2, <1>t
    <3>2. QED
      BY <1>0, <1>2, <3>1 DEF SnapshotsTypeOK
  <2>2. FilesInv'
    <3>1. \A q \in Publishers \ {p} : pub'[q] = pub[q]
      BY <1>2, <1>t
    <3>2. pub'[p] = j
      BY <1>2, <1>t
    <3>3. QED
      BY <1>0, <1>2, <3>1, <3>2 DEF FilesInv, Stage, Off
  <2>3. LinksInv'
    BY <1>0, <1>2 DEF LinksInv, ClosedUnderPrevious
  <2>4. QED
    BY <2>1, <2>2, <2>3 DEF SnapInv
<1>3. ASSUME NEW p \in Publishers, NEW s \in Snapshots, LoadCurrent(p, s)
      PROVE  SnapInv'
  BY <1>0, <1>2, <1>3 DEF LoadCurrent, FilesInv
<1>4. ASSUME NEW p \in Publishers, FindVersion(p)
      PROVE  SnapInv'
  <2> DEFINE s == IF HasVersion(pub[p].id) THEN "current" ELSE "version"
             j == [at |-> s, id |-> pub[p].id, prev |-> pub[p].prev]
  <2>1. ~Stage(p, "off")
    BY <1>4 DEF FindVersion, Stage
  <2>2. pub' = [pub EXCEPT ![p] = j] /\ pub[p].id \in Snapshots
    BY <1>0, <1>4, <1>t, <2>1, InFlight DEF FindVersion, Enter
  <2>3. j.prev \in DOMAIN versions \cup {Nowhere} /\ (s = "current" => j.id \in DOMAIN versions)
    BY <1>0, <2>1 DEF FilesInv, HasVersion
  <2>4. QED
    BY <1>2, <1>4, <2>2, <2>3 DEF FindVersion
<1>5. ASSUME NEW p \in Publishers, WriteVersion(p)
      PROVE  SnapInv'
  <2> DEFINE s == pub[p].id
             j == [at |-> "current", id |-> s, prev |-> pub[p].prev]
  <2>1. ~Stage(p, "off")
    BY <1>5 DEF WriteVersion, Stage
  <2>2. /\ pub' = [pub EXCEPT ![p] = j] /\ s \in Snapshots
        /\ j.prev \in Snapshots \cup {Nowhere} /\ j.prev \in DOMAIN versions \cup {Nowhere}
    BY <1>0, <1>5, <1>t, <2>1, InFlight DEF WriteVersion, Enter, FilesInv
  <2>3. /\ DOMAIN versions' = DOMAIN versions \cup {s} /\ versions'[s] = j.prev
        /\ \A v \in DOMAIN versions \ {s} : versions'[v] = versions[v]
        /\ versions' = [v \in DOMAIN versions' |-> versions'[v]]
        /\ UNCHANGED <<current, shown>>
        /\ ~unlinked' => ~unlinked /\ (s \in DOMAIN versions => versions[s] = j.prev)
    BY <1>5 DEF WriteVersion
  <2>4. SnapshotsTypeOK'
    <3>1. unlinked' \in BOOLEAN
      BY <1>5 DEF WriteVersion
    <3>2. versions' \in [DOMAIN versions' -> Snapshots \cup {Nowhere}]
      BY <1>0, <2>2, <2>3 DEF SnapshotsTypeOK
    <3>3. pub' \in [Publishers -> {Off} \cup
                      [at : {"find", "version", "current"}, id : Snapshots,
                       prev : Snapshots \cup {Nowhere}]]
      BY <1>t, <2>2
    <3>4. QED
      BY <1>0, <2>2, <2>3, <3>1, <3>2, <3>3 DEF SnapshotsTypeOK
  <2>5. FilesInv'
    <3>1. \A q \in Publishers \ {p} : pub'[q] = pub[q]
      BY <1>t, <2>2
    <3>2. pub'[p] = j
      BY <1>t, <2>2
    <3>3. QED
      BY <1>0, <2>2, <2>3, <3>1, <3>2 DEF FilesInv, Stage
  <2>6. LinksInv'
    <3> SUFFICES ASSUME ~unlinked'
                 PROVE  /\ current.id # Nowhere => versions'[current.id] = current.prev
                        /\ \A S \in SUBSET Snapshots :
                             current.id \in S \cup {Nowhere} /\ ClosedUnderPrevious(S)'
                               => shown \subseteq S
      BY <2>3 DEF LinksInv
    <3>1. \A v \in DOMAIN versions : versions'[v] = versions[v]
      BY <2>3
    <3>2. \A S \in SUBSET Snapshots : ClosedUnderPrevious(S)' => ClosedUnderPrevious(S)
      BY <2>3, <3>1 DEF ClosedUnderPrevious
    <3>3. QED
      BY <1>0, <2>3, <3>1, <3>2 DEF LinksInv, FilesInv
  <2>7. QED
    BY <2>4, <2>5, <2>6 DEF SnapInv
<1>6. ASSUME NEW p \in Publishers, WriteCurrent(p)
      PROVE  SnapInv'
  <2> DEFINE j == pub[p]
  <2>1. ~Stage(p, "off")
    BY <1>6 DEF WriteCurrent, Stage
  <2>2. /\ pub' = [pub EXCEPT ![p] = Off] /\ UNCHANGED versions
        /\ current' = [id |-> j.id, prev |-> j.prev] /\ shown' = shown \cup {j.id}
        /\ ~unlinked' => ~unlinked /\ j.prev = current.id /\ versions[j.id] = j.prev
        /\ unlinked' \in BOOLEAN
    BY <1>0, <1>6 DEF WriteCurrent, FilesInv
  <2>3. /\ j.id \in Snapshots /\ j.prev \in Snapshots \cup {Nowhere}
        /\ j.id \in DOMAIN versions /\ j.prev \in DOMAIN versions \cup {Nowhere}
    BY <1>0, <1>6, <2>1, InFlight DEF WriteCurrent, FilesInv
  <2>4. SnapshotsTypeOK'
    BY <1>0, <1>t, <2>2, <2>3 DEF SnapshotsTypeOK
  <2>5. FilesInv'
    <3>1. \A q \in Publishers \ {p} : pub'[q] = pub[q]
      BY <1>t, <2>2
    <3>2. pub'[p] = Off
      BY <1>t, <2>2
    <3>3. QED
      BY <1>0, <2>2, <2>3, <3>1, <3>2 DEF FilesInv, Stage, Off
  <2>6. LinksInv'
    <3> SUFFICES ASSUME ~unlinked', NEW S \in SUBSET Snapshots,
                        j.id \in S, ClosedUnderPrevious(S)
                 PROVE  shown \subseteq S
      <4>1. j.id # Nowhere
        BY <2>3
      <4>2. \A S \in SUBSET Snapshots : ClosedUnderPrevious(S)' <=> ClosedUnderPrevious(S)
        BY <2>2 DEF ClosedUnderPrevious
      <4>3. QED
        BY <2>2, <2>3, <4>1, <4>2 DEF LinksInv
    <3>1. current.id \in S \cup {Nowhere}
      BY <2>2, <2>3 DEF ClosedUnderPrevious
    <3>2. QED
      BY <1>0, <2>2, <3>1 DEF LinksInv
  <2>7. QED
    BY <2>4, <2>5, <2>6 DEF SnapInv
<1>7. ASSUME NEW p \in Publishers, Quit(p)
      PROVE  SnapInv'
  BY <1>2, <1>7 DEF Quit
<1>8. QED
  BY <1>1, <1>3, <1>4, <1>5, <1>6, <1>7

-----------------------------------------------------------------------------
(* Steps at the gate *)

\* What a step can be for the gate: one of a thread of the backend, a restart of
\* it, a consent form that is asked about, or an answer that is taken or given up.
LEMMA StepForms ==
  ASSUME Types, [Next]_vars
  PROVE  \/ \E t \in Threads : GateStep(t)
         \/ RestartBackend
         \/ \E t \in Threads, f \in Forms : AskVerify(t, f)
         \/ \E t \in Threads : /\ At(t, "replied") /\ work' = [work EXCEPT ![t] = Nothing]
                               /\ UNCHANGED <<clock, nonceVars, totpVars>>
         \/ \E S \in SUBSET Forms : /\ work' = Abandoned(S)
                                    /\ UNCHANGED <<clock, nonceVars, totpVars>>
         \/ UNCHANGED <<work, nonceVars, totpVars>> /\ clock' >= clock
<1> USE DEF gateVars, Backend
<1>0. clock \in Nat
  BY DEF Types, GateTypesOK
<1>1. CASE ServerStep
  <2>1. CASE \E t \in Threads : Consented(t) \/ NotConsented(t)
    BY <2>1 DEF Consented, NotConsented, Take
  <2>2. CASE \E f \in Forms : GiveUp(f)
    BY <2>2 DEF GiveUp
  <2>3. CASE RestartServer
    BY <2>3 DEF RestartServer
  <2>4. CASE \/ \E c \in Clients : Register(c) \/ ConsentLife(c)
             \/ \E k \in Codes : Redeem(k)
    BY <1>0, <2>4 DEF Register, ConsentLife, Redeem
  <2>5. CASE Tick
    BY <1>0, <2>5 DEF Tick
  <2>6. QED
    BY <1>1, <2>1, <2>2, <2>3, <2>4, <2>5 DEF ServerStep, AskConsent
<1>2. CASE PublishStep
  BY <1>0, <1>2 DEF PublishStep
<1>3. CASE UNCHANGED vars
  BY <1>0, <1>3 DEF vars
<1>4. QED
  BY <1>1, <1>2, <1>3 DEF Next

-----------------------------------------------------------------------------
(* A signed request is accepted once *)

Single(S) == \A x, y \in S : x = y

\* Copies of a request between the test of the nonce and its storing, and
\* between its storing and the acceptance.
Tested(n) == {t \in Threads : At(t, "verify") /\ work[t].nonce = n}
Stored(n) == {t \in Threads : At(t, "sweep") /\ work[t].nonce = n}

\* The timestamp was within the skew when the request came, and stays.
StampHolds(n) ==
  /\ n \in DOMAIN cache => stamp[n] # Unsigned /\ cache[n] >= stamp[n] - Skew
  /\ \A t \in Tested(n) : stamp[n] # Unsigned /\ work[t].now >= stamp[n] - Skew
  /\ \A t \in Stored(n) : stamp[n] # Unsigned
  /\ accepted[n] > 0 => stamp[n] # Unsigned

\* Once a nonce is stored, no copy passes the test: the nonce is in the cache,
\* or the timestamp is too old.
NonceKept(n) ==
  /\ StampHolds(n)
  /\ Single(Tested(n)) /\ Single(Stored(n))
  /\ accepted[n] <= 1
  /\ accepted[n] > 0 => Stored(n) = {}
  /\ accepted[n] > 0 \/ Stored(n) # {} =>
       Tested(n) = {} /\ (n \in DOMAIN cache \/ clock > stamp[n] + Skew)

NonceInv == \A n \in Nonces \ excused : NonceKept(n)

\* A step that leaves signed requests alone.
NonceQuiet ==
  /\ UNCHANGED nonceVars /\ clock' >= clock
  /\ \A n \in Nonces : Tested(n)' = Tested(n) /\ Stored(n)' = Stored(n)
  /\ \A t \in Threads : At(t, "verify") => work'[t] = work[t]

LEMMA NonceQuietKeeps ==
  ASSUME Types, Types', NonceInv, NonceQuiet
  PROVE  NonceInv'
<1> SUFFICES ASSUME NEW n \in Nonces \ excused
             PROVE  NonceKept(n)'
  BY DEF NonceInv, NonceQuiet, nonceVars
<1>1. NonceKept(n)
  BY DEF NonceInv
<1>2. stamp[n] \in Nat /\ clock \in Nat /\ clock' \in Nat /\ Skew \in Nat
  BY DEF Types, GateTypesOK
<1>3. \A t \in Tested(n) : work'[t] = work[t]
  BY DEF NonceQuiet, Tested
<1>4. StampHolds(n)'
  BY <1>1, <1>3 DEF NonceKept, NonceQuiet, nonceVars, StampHolds
<1>5. clock > stamp[n] + Skew => clock' > stamp[n] + Skew
  BY <1>2 DEF NonceQuiet
<1>6. QED
  BY <1>1, <1>2, <1>4, <1>5 DEF NonceKept, NonceQuiet, nonceVars

LEMMA StepNonce == Types /\ HitsFinite /\ NonceInv /\ [Next]_vars => NonceInv'
<1> SUFFICES ASSUME Types, HitsFinite, NonceInv, [Next]_vars
             PROVE  NonceInv'
  OBVIOUS
<1> USE DEF nonceVars, totpVars, gateVars, serverVars, Backend, Request
<1>0. /\ Types' /\ GateTypesOK(Forms) /\ ServerTypesOK
      /\ clock \in Nat /\ clock >= 1 /\ MaxClock \in Nat /\ Nobody \notin Forms
      /\ stamp \in [Nonces -> 0 .. MaxClock] /\ accepted \in [Nonces -> Nat]
      /\ DOMAIN cache \subseteq Nonces /\ cache \in [DOMAIN cache -> 1 .. clock]
      /\ work \in [Threads -> Jobs(Forms)]
  BY StepTypes DEF GateTypesOK, Types
<1>w. \A t \in Threads : work[t] \in Jobs(Forms)
  BY <1>0
<1>1. ASSUME NEW t \in Threads, NEW m \in Nonces, Arrive(t, m)
      PROVE  NonceInv'
  <2> SUFFICES ASSUME NEW n \in Nonces, n \notin excused'
               PROVE  NonceKept(n)'
    BY DEF NonceInv
  <2>1. /\ UNCHANGED <<clock, cache, accepted>> /\ work[t] = Nothing /\ n \notin excused
        /\ work' = [work EXCEPT ![t] = [at |-> "verify", nonce |-> m, now |-> clock,
                                        moved |-> FALSE]]
        /\ \A x \in Nonces \ {m} : stamp'[x] = stamp[x]
        /\ stamp[m] # Unsigned => stamp'[m] = stamp[m]
        /\ stamp'[m] # Unsigned /\ stamp'[m] \in Nat
        /\ clock <= stamp'[m] + Skew /\ clock >= stamp'[m] - Skew /\ m \notin DOMAIN cache
    BY <1>0, <1>1 DEF Arrive, Begin, Idle, InSkew, Unsigned
  <2>2. NonceKept(n)
    BY <2>1 DEF NonceInv
  <2>3. CASE n # m
    <3>1. Tested(n)' = Tested(n) /\ Stored(n)' = Stored(n)
      BY <1>0, <2>1, <2>3 DEF Tested, Stored, At, Nothing
    <3>2. \A u \in Tested(n) : work'[u] = work[u]
      BY <1>0, <2>1 DEF Tested, At, Nothing
    <3>3. QED
      BY <2>1, <2>2, <2>3, <3>1, <3>2 DEF NonceKept, StampHolds
  <2>4. CASE n = m
    <3>1. ~(accepted[n] > 0 \/ Stored(n) # {})
      <4> SUFFICES ASSUME accepted[n] > 0 \/ Stored(n) # {}
                   PROVE  FALSE
        OBVIOUS
      <4>1. stamp[n] # Unsigned /\ (n \in DOMAIN cache \/ clock > stamp[n] + Skew)
        BY <2>2 DEF NonceKept, StampHolds
      <4>2. QED
        BY <1>0, <2>1, <2>4, <4>1
    <3>2. Tested(n) = {}
      BY <1>1, <2>4 DEF Arrive, Tested
    <3>3. Stored(n)' = {} /\ Tested(n)' = {t}
      BY <1>0, <2>1, <2>4, <3>1, <3>2 DEF Tested, Stored, At
    <3>4. work'[t].now = clock
      BY <1>0, <2>1
    <3>5. QED
      BY <1>0, <2>1, <2>4, <3>1, <3>3, <3>4 DEF NonceKept, StampHolds, Single
  <2>5. QED
    BY <2>3, <2>4
<1>2. ASSUME NEW t \in Threads, BadSignature(t) \/ SweepFails(t)
      PROVE  NonceInv'
  <2> SUFFICES ASSUME NEW n \in Nonces \ excused
               PROVE  NonceKept(n)'
    BY <1>2 DEF NonceInv, BadSignature, SweepFails
  <2>1. /\ UNCHANGED <<clock, stamp, cache, accepted>>
        /\ work' = [work EXCEPT ![t] = Nothing]
    BY <1>2 DEF BadSignature, SweepFails
  <2>2. Tested(n)' \subseteq Tested(n) /\ Stored(n)' \subseteq Stored(n)
    BY <1>0, <2>1 DEF Tested, Stored, At, Nothing
  <2>3. \A u \in Tested(n)' : work'[u] = work[u]
    BY <1>0, <2>1 DEF Tested, At, Nothing
  <2>4. NonceKept(n)
    BY DEF NonceInv
  <2>5. QED
    BY <2>1, <2>2, <2>3, <2>4 DEF NonceKept, StampHolds, Single
<1>3. ASSUME NEW t \in Threads, StoreNonce(t)
      PROVE  NonceInv'
  <2> SUFFICES ASSUME NEW n \in Nonces \ excused
               PROVE  NonceKept(n)'
    BY <1>3 DEF NonceInv, StoreNonce
  <2> DEFINE m == work[t].nonce
  <2>1. /\ UNCHANGED <<clock, stamp, accepted>> /\ At(t, "verify") /\ m \in Nonces
        /\ DOMAIN cache' = DOMAIN cache \cup {m} /\ cache'[m] = work[t].now
        /\ \A x \in DOMAIN cache \ {m} : cache'[x] = cache[x]
    BY <1>3, <1>w, JobParts DEF StoreNonce, At
  <2>2. /\ \A u \in Threads \ {t} :
             \/ work'[u] = work[u]
             \/ /\ At(u, "sweep") /\ work'[u].at = "sweep"
                /\ work'[u].nonce = work[u].nonce
        /\ work'[t].at = "sweep" /\ work'[t].nonce = work[t].nonce
    BY <1>0, <1>3, NonceSteps DEF Types
  <2>3. /\ Tested(n)' = Tested(n) \ {t}
        /\ Stored(n)' = IF n = m THEN Stored(n) \cup {t} ELSE Stored(n)
        /\ \A u \in Tested(n)' : work'[u] = work[u]
    BY <2>1, <2>2 DEF Tested, Stored, At
  <2>4. NonceKept(n)
    BY DEF NonceInv
  <2>5. CASE n # m
    BY <2>1, <2>3, <2>4, <2>5 DEF NonceKept, StampHolds, Single
  <2>6. CASE n = m
    <3>1. t \in Tested(n)
      BY <2>1, <2>6 DEF Tested
    <3>2. /\ Stored(n) = {} /\ ~(accepted[n] > 0) /\ Tested(n) = {t}
          /\ stamp[n] # Unsigned /\ work[t].now >= stamp[n] - Skew
      BY <2>4, <3>1 DEF NonceKept, Single, StampHolds
    <3>3. Tested(n)' = {} /\ Stored(n)' = {t}
      BY <2>3, <2>6, <3>2
    <3>4. QED
      BY <2>1, <2>4, <2>6, <3>2, <3>3 DEF NonceKept, StampHolds, Single
  <2>7. QED
    BY <2>5, <2>6
<1>4. ASSUME NEW t \in Threads, Sweep(t)
      PROVE  NonceInv'
  <2> SUFFICES ASSUME NEW n \in Nonces \ excused
               PROVE  NonceKept(n)'
    BY <1>4 DEF NonceInv, Sweep
  <2> DEFINE m == work[t].nonce
  <2>1. /\ UNCHANGED <<clock, stamp>> /\ At(t, "sweep") /\ m \in Nonces
        /\ work[t].now \in 1 .. clock
        /\ accepted' = [accepted EXCEPT ![m] = @ + 1]
        /\ DOMAIN cache' \subseteq DOMAIN cache
        /\ \A x \in DOMAIN cache : x \notin DOMAIN cache' => cache[x] < work[t].now - KeptFor
        /\ \A x \in DOMAIN cache' : cache'[x] = cache[x]
    BY <1>0, <1>4, <1>w, JobParts DEF Sweep, At, KeptFor
  <2>a. /\ \A u \in Threads \ {t} :
             \/ work'[u] = work[u]
             \/ /\ At(u, "sweep") /\ work'[u].at = "sweep"
                /\ work'[u].nonce = work[u].nonce
        /\ work'[t] = Nothing
    BY <1>0, <1>4, NonceSteps DEF Types
  <2>2. /\ Tested(n)' = Tested(n) /\ Stored(n)' = Stored(n) \ {t}
        /\ \A u \in Tested(n) : work'[u] = work[u]
    BY <2>1, <2>a DEF Tested, Stored, At, Nothing
  <2>3. NonceKept(n)
    BY DEF NonceInv
  <2>4. n \in DOMAIN cache => n \in DOMAIN cache' \/ clock > stamp[n] + Skew
    <3> SUFFICES ASSUME n \in DOMAIN cache, n \notin DOMAIN cache'
                 PROVE  clock > stamp[n] + Skew
      OBVIOUS
    <3>1. /\ cache[n] < work[t].now - 2 * Skew /\ cache[n] >= stamp[n] - Skew
          /\ work[t].now <= clock /\ cache[n] \in Nat /\ stamp[n] \in Nat
          /\ work[t].now \in Nat /\ Skew \in Nat
      BY <1>0, <2>1, <2>3 DEF KeptFor, NonceKept, StampHolds
    <3>2. QED
      BY <1>0, <3>1
  <2>5. StampHolds(n)'
    <3>1. accepted'[n] > 0 => stamp[n] # Unsigned
      <4>1. CASE n = m
        <5>1. t \in Stored(n)
          BY <2>1, <4>1 DEF Stored
        <5>2. QED
          BY <2>3, <5>1 DEF NonceKept, StampHolds
      <4>2. CASE n # m
        BY <1>0, <2>1, <2>3, <4>2 DEF NonceKept, StampHolds
      <4>3. QED
        BY <4>1, <4>2
    <3>2. QED
      BY <2>1, <2>2, <2>3, <3>1 DEF NonceKept, StampHolds
  <2>6. CASE n = m
    <3>1. t \in Stored(n)
      BY <2>1, <2>6 DEF Stored
    <3>2. accepted[n] = 0 /\ Stored(n) = {t} /\ Tested(n) = {}
      BY <1>0, <2>3, <3>1 DEF NonceKept, Single
    <3>3. accepted'[n] = 1 /\ Stored(n)' = {}
      BY <1>0, <2>1, <2>2, <2>6, <3>2
    <3>4. QED
      BY <2>1, <2>2, <2>3, <2>4, <2>5, <3>1, <3>2, <3>3 DEF NonceKept, Single
  <2>7. CASE n # m
    <3>1. accepted'[n] = accepted[n] /\ Stored(n)' = Stored(n)
      BY <1>0, <2>1, <2>2, <2>7 DEF Stored
    <3>2. QED
      BY <2>1, <2>2, <2>3, <2>4, <2>5, <3>1 DEF NonceKept
  <2>8. QED
    BY <2>6, <2>7
<1>5. ASSUME RestartBackend
      PROVE  NonceInv'
  <2> SUFFICES ASSUME NEW n \in Nonces, n \notin excused'
               PROVE  NonceKept(n)'
    BY DEF NonceInv
  <2>1. /\ UNCHANGED <<clock, stamp, accepted>> /\ n \notin excused /\ n \notin DOMAIN cache
        /\ DOMAIN cache' = {}
    BY <1>5 DEF RestartBackend
  <2>2. Tested(n)' = {} /\ Stored(n)' = {}
    BY <1>5 DEF RestartBackend, Tested, Stored, At, Idle, Nothing
  <2>3. NonceKept(n)
    BY <2>1 DEF NonceInv
  <2>4. QED
    BY <2>1, <2>2, <2>3 DEF NonceKept, StampHolds, Single
<1>n. ASSUME UNCHANGED <<stamp, cache, accepted, excused>>, clock' >= clock,
             \A t \in Threads : /\ At(t, "verify") \/ At(t, "sweep") => work'[t] = work[t]
                                /\ work'[t].at \in {"verify", "sweep"} => work'[t] = work[t]
      PROVE  NonceInv'
  <2>1. \A n \in Nonces : Tested(n)' = Tested(n) /\ Stored(n)' = Stored(n)
    BY <1>n DEF Tested, Stored, At
  <2>2. QED
    BY <1>0, <1>n, <2>1, NonceQuietKeeps DEF NonceQuiet
<1>6. ASSUME NEW t \in Threads, \/ \E d \in Doors, f \in Forms \cup {Nobody} : Ask(t, d, f)
                                \/ AskUnlock(t) \/ AskInspect(t)
      PROVE  NonceInv'
  <2>1. /\ UNCHANGED <<stamp, cache, accepted, excused, clock>>
        /\ work[t] = Nothing /\ work'[t].at \notin {"verify", "sweep"}
        /\ \A u \in Threads \ {t} : work'[u] = work[u]
    BY <1>0, <1>6 DEF Ask, AskUnlock, AskInspect, Begin, Idle, Nothing
  <2>2. QED
    BY <1>0, <1>n, <2>1 DEF At, Nothing
<1>7. ASSUME NEW t \in Threads, CountHit(t) \/ CheckFails(t) \/ CheckCode(t)
      PROVE  NonceInv'
  <2>1. /\ UNCHANGED <<stamp, cache, accepted, excused, clock>>
        /\ At(t, "count") \/ At(t, "check")
        /\ work'[t].at \notin {"verify", "sweep"}
        /\ \A u \in Threads \ {t} : work'[u] = work[u]
    BY <1>0, <1>7 DEF CountHit, CheckFails, CheckCode, Answer, Nothing
  <2>2. QED
    BY <1>0, <1>n, <2>1 DEF At
<1>8. ASSUME NEW t \in Threads, GateStep(t)
      PROVE  NonceInv'
  <2>1. "verify" \in Doors /\ "code only" \in Doors
    BY DEF Doors, Pooled
  <2>2. QED
    BY <1>1, <1>2, <1>3, <1>4, <1>6, <1>7, <1>8, <2>1 DEF GateStep, AskCodeOnly
<1>9. ASSUME NEW t \in Threads, NEW f \in Forms, AskVerify(t, f)
      PROVE  NonceInv'
  <2>1. "verify" \in Doors
    BY DEF Doors, Pooled
  <2>2. QED
    BY <1>6, <1>9, <2>1 DEF AskVerify
<1>10. ASSUME NEW t \in Threads, At(t, "replied"), work' = [work EXCEPT ![t] = Nothing],
              UNCHANGED <<clock, nonceVars>>
       PROVE  NonceInv'
  <2>1. /\ UNCHANGED <<stamp, cache, accepted, excused>> /\ clock' >= clock
        /\ work'[t].at \notin {"verify", "sweep"} /\ ~At(t, "verify") /\ ~At(t, "sweep")
    BY <1>0, <1>10 DEF At, Nothing
  <2>2. \A u \in Threads \ {t} : work'[u] = work[u]
    BY <1>0, <1>10
  <2>3. QED
    BY <1>n, <2>1, <2>2
<1>11. ASSUME NEW S \in SUBSET Forms, work' = Abandoned(S), UNCHANGED <<clock, nonceVars>>
       PROVE  NonceInv'
  <2>1. \A t \in Threads : work[t].at \notin {"count", "check", "replied"} => work'[t] = work[t]
    BY <1>11 DEF Abandoned
  <2>2. \A t \in Threads : work[t].at \in {"count", "check", "replied"}
          => work'[t].at \in {"count", "check", "replied", "idle"}
    BY <1>11, <1>w, JobParts DEF Abandoned, At, Nothing
  <2>3. QED
    BY <1>0, <1>11, <1>n, <2>1, <2>2 DEF At
<1>12. CASE UNCHANGED <<work, nonceVars>> /\ clock' >= clock
  BY <1>n, <1>12
<1>13. QED
  BY <1>5, <1>8, <1>9, <1>10, <1>11, <1>12, StepForms

-----------------------------------------------------------------------------
(* A code of the authenticator opens one thing *)

\* Answers that allow a consent and were not taken, and codes that opened
\* something.
Granted == {t \in Threads : At(t, "replied") /\ work[t].ok}
Opening == {c \in Counters : opened[c] > 0}

\* No code opens twice, because only a later one than the last used opens.
OnceEach == \A c \in Counters : opened[c] <= 1 /\ (opened[c] > 0 => c <= used)

\* Each authorization code, and each consent that was allowed, was opened by a
\* code of its own.
OwnOpening ==
  kind = "mcp" =>
    /\ IsFiniteSet(issued) /\ IsFiniteSet(Granted)
    /\ Cardinality(issued) + Cardinality(Granted) <= Cardinality(Opening)

OpenInv == OnceEach /\ OwnOpening

\* The codes of a run are finitely many.
LEMMA OpeningFinite == IsFiniteSet(Opening) /\ Cardinality(Opening) \in Nat
<1>1. 1 - Drift \in Int /\ MaxClock + Drift \in Int
  OBVIOUS
<1>2. IsFiniteSet(Counters)
  BY <1>1, FS_Interval DEF Counters
<1>3. QED
  BY <1>2, FS_Subset, FS_CardinalityType DEF Opening

LEMMA OpenInvImplies == OpenInv => CodesOpenOnce
<1> SUFFICES ASSUME OpenInv, kind = "mcp"
             PROVE  Cardinality(issued) <= Cardinality({c \in Counters : opened[c] > 0})
  BY DEF OpenInv, OnceEach, CodesOpenOnce
<1>1. Cardinality(issued) \in Nat /\ Cardinality(Granted) \in Nat
  BY FS_CardinalityType DEF OpenInv, OwnOpening
<1>2. QED
  BY <1>1, OpeningFinite DEF OpenInv, OwnOpening, Opening

\* A step that hands out no code and opens nothing allows no consent.
LEMMA OpenQuietKeeps ==
  ASSUME OpenInv, UNCHANGED <<kind, issued, used, opened>>, Granted' \subseteq Granted
  PROVE  OpenInv'
<1>1. OnceEach'
  BY DEF OpenInv, OnceEach, Counters
<1>2. OwnOpening'
  <2> SUFFICES ASSUME kind = "mcp"
               PROVE  /\ IsFiniteSet(issued) /\ IsFiniteSet(Granted')
                      /\ Cardinality(issued) + Cardinality(Granted') <= Cardinality(Opening)
    BY DEF OwnOpening, Opening, Counters
  <2>1. /\ IsFiniteSet(issued) /\ IsFiniteSet(Granted)
        /\ Cardinality(issued) + Cardinality(Granted) <= Cardinality(Opening)
    BY DEF OpenInv, OwnOpening
  <2>2. IsFiniteSet(Granted') /\ Cardinality(Granted') <= Cardinality(Granted)
    BY <2>1, FS_Subset
  <2>3. /\ Cardinality(issued) \in Nat /\ Cardinality(Granted) \in Nat
        /\ Cardinality(Granted') \in Nat
    BY <2>1, <2>2, FS_CardinalityType
  <2>4. QED
    BY <2>1, <2>2, <2>3, OpeningFinite
<1>3. QED
  BY <1>1, <1>2 DEF OpenInv

LEMMA InitOpen == Init => OpenInv
<1> SUFFICES ASSUME Init
             PROVE  OpenInv
  OBVIOUS
<1>1. /\ \A c \in Counters : opened[c] = 0
      /\ Granted = {} /\ issued = {}
  BY DEF Init, InitGate, Granted, At, Nothing
<1>2. QED
  BY <1>1, FS_EmptySet, OpeningFinite DEF OpenInv, OnceEach, OwnOpening

LEMMA StepOpen == Types /\ OpenInv /\ [Next]_vars => OpenInv'
<1> SUFFICES ASSUME Types, OpenInv, [Next]_vars
             PROVE  OpenInv'
  OBVIOUS
<1> USE DEF nonceVars, totpVars, gateVars, serverVars, Backend, Request
<1>0. /\ GateTypesOK(Forms) /\ ServerTypesOK /\ Nobody \notin Forms
      /\ clock \in 1 .. MaxClock /\ MaxClock \in Nat
      /\ work \in [Threads -> Jobs(Forms)]
      /\ used \in Counters \cup {- Drift} /\ opened \in [Counters -> Nat]
  BY DEF GateTypesOK, Types
<1>w. \A t \in Threads : work[t] \in Jobs(Forms)
  BY <1>0
<1>q. ASSUME NEW t \in Threads, UNCHANGED <<kind, issued, used, opened>>,
             \A u \in Threads \ {t} : work'[u] = work[u],
             \/ work'[t].at # "replied"
             \/ work'[t] = work[t]
             \/ work'[t] = [at |-> "replied", for |-> work[t].for, ok |-> FALSE]
      PROVE  OpenInv'
  <2>1. Granted' \subseteq Granted
    BY <1>q DEF Granted, At
  <2>2. QED
    BY <1>q, <2>1, OpenQuietKeeps
<1>1. ASSUME NEW t \in Threads, CheckCode(t), UNCHANGED serverVars
      PROVE  OpenInv'
  <2>1. PICK c \in clock - Drift .. clock + Drift :
          c > used /\ used' = c /\ opened' = [opened EXCEPT ![c] = @ + 1]
    BY <1>1 DEF CheckCode
  <2>2. c \in Counters /\ \A d \in Counters : d \in Int
    BY <1>0 DEF Counters
  <2>3. c \in Int /\ used \in Int
    BY <1>0, <2>2
  <2>4. opened[c] = 0 /\ opened'[c] = 1
    BY <1>0, <2>1, <2>2, <2>3 DEF OpenInv, OnceEach
  <2>5. \A d \in Counters \ {c} : opened'[d] = opened[d]
    BY <1>0, <2>1, <2>2
  <2>6. OnceEach'
    <3> SUFFICES ASSUME NEW d \in Counters
                 PROVE  opened'[d] <= 1 /\ (opened'[d] > 0 => d <= used')
      BY DEF OnceEach, Counters
    <3>1. CASE d = c
      BY <2>1, <2>3, <2>4, <3>1
    <3>2. CASE d # c
      BY <2>1, <2>2, <2>3, <2>5, <3>2 DEF OpenInv, OnceEach
    <3>3. QED
      BY <3>1, <3>2
  <2>7. OwnOpening'
    <3> SUFFICES ASSUME kind = "mcp"
                 PROVE  /\ IsFiniteSet(issued) /\ IsFiniteSet(Granted')
                        /\ Cardinality(issued) + Cardinality(Granted') <= Cardinality(Opening')
      BY <1>1 DEF OwnOpening
    <3>1. /\ IsFiniteSet(issued) /\ IsFiniteSet(Granted)
          /\ Cardinality(issued) + Cardinality(Granted) <= Cardinality(Opening)
      BY DEF OpenInv, OwnOpening
    <3>2. c \notin Opening /\ Opening' = Opening \cup {c}
      BY <2>2, <2>4, <2>5 DEF Opening, Counters
    <3>3. Cardinality(Opening') = Cardinality(Opening) + 1
      BY <3>2, OpeningFinite, FS_AddElement
    <3>4. Granted' \subseteq Granted \cup {t}
      BY <1>0, <1>1 DEF CheckCode, Answer, Granted, At
    <3>5. /\ IsFiniteSet(Granted \cup {t})
          /\ Cardinality(Granted \cup {t}) <= Cardinality(Granted) + 1
      <4>1. Cardinality(Granted) \in Nat
        BY <3>1, FS_CardinalityType
      <4>2. /\ IsFiniteSet(Granted \cup {t})
            /\ Cardinality(Granted \cup {t})
                 = IF t \in Granted THEN Cardinality(Granted) ELSE Cardinality(Granted) + 1
        BY <3>1, FS_AddElement
      <4>3. QED
        BY <4>1, <4>2
    <3>6. IsFiniteSet(Granted') /\ Cardinality(Granted') <= Cardinality(Granted \cup {t})
      BY <3>4, <3>5, FS_Subset
    <3>7. /\ Cardinality(issued) \in Nat /\ Cardinality(Granted) \in Nat
          /\ Cardinality(Granted') \in Nat /\ Cardinality(Granted \cup {t}) \in Nat
      BY <3>1, <3>5, <3>6, FS_CardinalityType
    <3>8. QED
      BY <3>1, <3>3, <3>5, <3>6, <3>7, OpeningFinite
  <2>8. QED
    BY <2>6, <2>7 DEF OpenInv
<1>2. ASSUME NEW t \in Threads, CheckFails(t), UNCHANGED serverVars
      PROVE  OpenInv'
  BY <1>0, <1>2, <1>q DEF CheckFails, Answer, Nothing
<1>3. ASSUME NEW t \in Threads, CountHit(t), UNCHANGED serverVars
      PROVE  OpenInv'
  <2>1. UNCHANGED <<kind, issued, used, opened>> /\ \A u \in Threads \ {t} : work'[u] = work[u]
    BY <1>0, <1>3 DEF CountHit, Answer
  <2>2. work'[t].at # "replied" \/ work'[t] = [at |-> "replied", for |-> work[t].for, ok |-> FALSE]
    <3>1. \/ Answer(t, FALSE)
          \/ work' = [work EXCEPT ![t] = [at |-> "check", for |-> work[t].for]]
      BY <1>0, <1>3 DEF CountHit
    <3>2. CASE Answer(t, FALSE)
      <4>1. \/ work'[t] = Nothing
            \/ work'[t] = [at |-> "replied", for |-> work[t].for, ok |-> FALSE]
        BY <1>0, <3>2 DEF Answer
      <4>2. QED
        BY <4>1 DEF Nothing
    <3>3. CASE work' = [work EXCEPT ![t] = [at |-> "check", for |-> work[t].for]]
      BY <1>0, <3>3
    <3>4. QED
      BY <3>1, <3>2, <3>3
  <2>3. QED
    BY <1>q, <2>1, <2>2
<1>4. ASSUME NEW t \in Threads, UNCHANGED <<kind, issued>>,
             \/ \E n \in Nonces : Arrive(t, n)
             \/ \E d \in Doors, f \in Forms \cup {Nobody} : Ask(t, d, f)
             \/ AskUnlock(t) \/ AskInspect(t) \/ BadSignature(t) \/ SweepFails(t)
      PROVE  OpenInv'
  <2>1. UNCHANGED <<used, opened>> /\ \A u \in Threads \ {t} : work'[u] = work[u]
    BY <1>0, <1>4 DEF Arrive, Ask, AskUnlock, AskInspect, BadSignature, SweepFails, Begin
  <2>2. work'[t].at # "replied"
    BY <1>0, <1>4 DEF Arrive, Ask, AskUnlock, AskInspect, BadSignature, SweepFails,
                      Begin, Nothing, Idle
  <2>3. QED
    BY <1>4, <1>q, <2>1, <2>2
<1>5. ASSUME NEW t \in Threads, StoreNonce(t) \/ Sweep(t), UNCHANGED serverVars
      PROVE  OpenInv'
  <2>1. \A u \in Threads : work'[u] = work[u] \/ work'[u].at \in {"idle", "sweep"}
    BY <1>5, NonceSteps DEF Nothing
  <2>2. Granted' \subseteq Granted
    BY <2>1 DEF Granted, At
  <2>3. QED
    BY <1>5, <2>2, OpenQuietKeeps DEF StoreNonce, Sweep
<1>6. ASSUME RestartBackend, UNCHANGED serverVars
      PROVE  OpenInv'
  <2>1. Granted' \subseteq Granted
    BY <1>6 DEF RestartBackend, Granted, At, Nothing, Idle
  <2>2. QED
    BY <1>6, <2>1, OpenQuietKeeps DEF RestartBackend
<1>7. ASSUME NEW t \in Threads, GateStep(t), UNCHANGED serverVars
      PROVE  OpenInv'
  <2>1. "code only" \in Doors
    BY DEF Doors, Pooled
  <2>2. QED
    BY <1>1, <1>2, <1>3, <1>4, <1>5, <1>7, <2>1 DEF GateStep, AskCodeOnly
<1>8. ASSUME NEW t \in Threads, NEW f \in Forms, NEW c \in Clients, AskConsent(t, f, c)
      PROVE  OpenInv'
  <2>1. "verify" \in Doors
    BY DEF Doors, Pooled
  <2>2. QED
    BY <1>4, <1>8, <2>1 DEF AskConsent, AskVerify
<1>9. ASSUME NEW t \in Threads, NotConsented(t)
      PROVE  OpenInv'
  BY <1>0, <1>9, <1>q DEF NotConsented, Take, Nothing
<1>10. ASSUME NEW t \in Threads, Consented(t)
       PROVE  OpenInv'
  <2>1. PICK k \in Fresh : issued' = issued \cup {k}
    BY <1>10 DEF Consented
  <2>2. /\ UNCHANGED <<kind, used, opened>> /\ t \in Granted
        /\ work' = [work EXCEPT ![t] = Nothing]
    BY <1>10 DEF Consented, Take, Granted
  <2>3. Granted' = Granted \ {t}
    BY <1>0, <2>2 DEF Granted, At, Nothing
  <2>4. OnceEach'
    BY <2>2 DEF OpenInv, OnceEach, Counters
  <2>5. OwnOpening'
    <3> SUFFICES ASSUME kind = "mcp"
                 PROVE  /\ IsFiniteSet(issued') /\ IsFiniteSet(Granted')
                        /\ Cardinality(issued') + Cardinality(Granted') <= Cardinality(Opening)
      BY <2>2 DEF OwnOpening, Opening, Counters
    <3>1. /\ IsFiniteSet(issued) /\ IsFiniteSet(Granted)
          /\ Cardinality(issued) + Cardinality(Granted) <= Cardinality(Opening)
      BY DEF OpenInv, OwnOpening
    <3>2. IsFiniteSet(issued') /\ Cardinality(issued') = Cardinality(issued) + 1
      BY <2>1, <3>1, FS_AddElement DEF Fresh
    <3>3. IsFiniteSet(Granted') /\ Cardinality(Granted') = Cardinality(Granted) - 1
      BY <2>2, <2>3, <3>1, FS_RemoveElement
    <3>4. Cardinality(issued) \in Nat /\ Cardinality(Granted) \in Nat
      BY <3>1, FS_CardinalityType
    <3>5. QED
      BY <3>1, <3>2, <3>3, <3>4, OpeningFinite
  <2>6. QED
    BY <2>4, <2>5 DEF OpenInv
<1>11. ASSUME NEW c \in Clients, ConsentLife(c)
       PROVE  OpenInv'
  BY <1>11 DEF ConsentLife, OpenInv, OnceEach, OwnOpening, Counters
<1>12. ASSUME \/ \E f \in Forms : GiveUp(f)
              \/ RestartServer
       PROVE  OpenInv'
  <2>1. PICK S \in SUBSET Forms : work' = Abandoned(S)
    BY <1>12 DEF GiveUp, RestartServer
  <2>2. \A t \in Threads : At(t, "count") \/ At(t, "check")
          => [work[t] EXCEPT !.for = Nobody].at # "replied"
    BY <1>w, JobParts DEF At
  <2>3. \A t \in Threads : work'[t] = work[t] \/ work'[t].at # "replied"
    BY <2>1, <2>2 DEF Abandoned, At, Nothing
  <2>4. Granted' \subseteq Granted
    BY <2>3 DEF Granted, At
  <2>5. UNCHANGED <<kind, issued, used, opened>>
    BY <1>12 DEF GiveUp, RestartServer
  <2>6. QED
    BY <2>4, <2>5, OpenQuietKeeps
<1>13. ASSUME UNCHANGED <<work, kind, issued, used, opened>>
       PROVE  OpenInv'
  BY <1>13, OpenQuietKeeps DEF Granted, At
<1>14. CASE ServerStep
  <2>1. ASSUME \/ \E c \in Clients : Register(c)
               \/ \E k \in Codes : Redeem(k)
               \/ Tick
        PROVE  OpenInv'
    BY <1>13, <2>1 DEF Register, Redeem, Tick
  <2>2. QED
    BY <1>6, <1>7, <1>8, <1>9, <1>10, <1>11, <1>12, <1>14, <2>1 DEF ServerStep
<1>15. CASE PublishStep
  BY <1>13, <1>15 DEF PublishStep
<1>16. CASE UNCHANGED vars
  BY <1>13, <1>16 DEF vars
<1>17. QED
  BY <1>14, <1>15, <1>16 DEF Next

-----------------------------------------------------------------------------
(* Attempts stay within the limit *)

\* The requests between the reading of the hits of a door and their counting.
Counting(d) == {t \in Threads : At(t, "count") /\ work[t].door = d}

\* What one run of the backend has let through in a window.
InWindow(d, s, r) == {x \in through[d] : x.run = r /\ x.at \in s .. s + Window - 1}

\* What a request has read of the hits holds what this run let through before it,
\* as far as it is recent.
ReadsAll(d, t) ==
  \A x \in through[d] : x.run = run =>
    /\ x.at <= work[t].hit.at
    /\ x.at > work[t].hit.at - Window => x \in work[t].hits

\* One request of a door is counted at a time, the hits hold every recent attempt
\* that this run let through, and in no window has a run let in more than the limit.
DoorKept(d) ==
  /\ Single(Counting(d))
  /\ \A x \in through[d] : x.run = run /\ x.at > clock - Window => x \in hits[d]
  /\ \A t \in Counting(d) : ReadsAll(d, t)
  /\ \A s \in 1 .. MaxClock, r \in Nat : Cardinality(InWindow(d, s, r)) <= Limit

\* All of this while no two attempts of the door were counted at the same time;
\* those of the pages are counted in one step.
HitsInv ==
  /\ HitsFinite
  /\ \A d \in Doors : IsFiniteSet(through[d])
  /\ Counting("unlock") = {}
  /\ \A d \in Doors \ crowded : DoorKept(d)

\* Sets of naturals that hold 0 and every successor hold all.
LEMMA NatSetInduction ==
  ASSUME NEW S \in SUBSET Nat, 0 \in S, \A n \in S : n + 1 \in S
  PROVE  S = Nat
<1> DEFINE R == OpToRel(<, Nat)
<1> DEFINE T == Nat \ S
<1>1. IsWellFoundedOn(R, Nat)
  BY NatLessThanWellFounded
<1>2. \A x, y \in Nat : x < y => <<x, y>> \in R
  BY DEF OpToRel
<1> SUFFICES ASSUME T # {} PROVE FALSE
  OBVIOUS
<1> HIDE DEF R
<1>3. PICK x \in T : \A y \in T : ~ (<<y, x>> \in R)
  BY <1>1, WFMin
<1>4. x # 0 /\ x - 1 \in Nat /\ x - 1 < x
  OBVIOUS
<1>5. x - 1 \in T
  OBVIOUS
<1>6. QED
  BY <1>2, <1>3, <1>4, <1>5

\* A finite set of attempts with at most L of each run has at most L for each of
\* the runs in it: by the number of runs, taking one away.
LEMMA SumOverRuns ==
  ASSUME NEW S, IsFiniteSet(S), NEW L \in Nat,
         \A r : Cardinality({x \in S : x.run = r}) <= L
  PROVE  Cardinality(S) <= L * Cardinality({x.run : x \in S})
<1> DEFINE Runs(T) == {x.run : x \in T}
<1> DEFINE P == {n \in Nat : \A T \in SUBSET S :
                   Cardinality(Runs(T)) = n => Cardinality(T) <= L * n}
<1>1. ASSUME NEW T \in SUBSET S
      PROVE  /\ IsFiniteSet(T) /\ IsFiniteSet(Runs(T))
             /\ Cardinality(T) \in Nat /\ Cardinality(Runs(T)) \in Nat
  <2>1. IsFiniteSet(T)
    BY FS_Subset
  <2>2. IsFiniteSet(Runs(T))
    <3> DEFINE f == [x \in T |-> x.run]
    <3>1. f \in Surjection(T, Runs(T))
      BY DEF Surjection
    <3>2. QED
      BY <2>1, <3>1, FS_Surjection
  <2>3. QED
    BY <2>1, <2>2, FS_CardinalityType
<1>2. 0 \in P
  <2> SUFFICES ASSUME NEW T \in SUBSET S, Cardinality(Runs(T)) = 0
               PROVE  Cardinality(T) <= L * 0
    OBVIOUS
  <2>1. Runs(T) = {}
    BY <1>1, FS_EmptySet
  <2>2. T = {}
    BY <2>1
  <2>3. QED
    BY <2>2, FS_EmptySet
<1>3. ASSUME NEW n \in P
      PROVE  n + 1 \in P
  <2> SUFFICES ASSUME NEW T \in SUBSET S, Cardinality(Runs(T)) = n + 1
               PROVE  Cardinality(T) <= L * (n + 1)
    OBVIOUS
  <2>1. Runs(T) # {} /\ n \in Nat
    <3>1. n \in Nat
      OBVIOUS
    <3> HIDE DEF Runs, P
    <3>2. CASE Runs(T) = {}
      <4>1. Cardinality(Runs(T)) = 0
        BY <3>2, FS_EmptySet
      <4>2. QED
        BY <3>1, <4>1
    <3>3. QED
      BY <3>1, <3>2
  <2>2. PICK r \in Runs(T) : TRUE
    BY <2>1
  <2> DEFINE Own == {x \in T : x.run = r}
             Rest == T \ Own
  <2>3. /\ Own \in SUBSET S /\ Rest \in SUBSET S
        /\ Own \cup Rest = T /\ Own \cap Rest = {}
        /\ Runs(Rest) = Runs(T) \ {r}
        /\ Own \subseteq {x \in S : x.run = r}
    OBVIOUS
  <2> HIDE DEF Own, Rest, Runs
  <2>4. /\ IsFiniteSet(Own) /\ IsFiniteSet(Rest) /\ IsFiniteSet(Runs(T))
        /\ Cardinality(Own) \in Nat /\ Cardinality(Rest) \in Nat
    BY <1>1, <2>3
  <2>5. Cardinality(Rest) <= L * n
    <3>1. Cardinality(Runs(T) \ {r}) = Cardinality(Runs(T)) - 1
      BY <2>2, <2>4, FS_RemoveElement
    <3>2. Cardinality(Runs(Rest)) = n
      BY <2>1, <2>3, <3>1
    <3>3. QED
      BY <2>3, <3>2
  <2>6. Cardinality(Own) <= L
    <3> DEFINE Whole == {x \in S : x.run = r}
    <3>1. IsFiniteSet(Whole) /\ Cardinality(Whole) <= L
      BY FS_Subset
    <3>2. Cardinality(Own) <= Cardinality(Whole) /\ Cardinality(Whole) \in Nat
      BY <2>3, <3>1, FS_Subset, FS_CardinalityType
    <3> HIDE DEF Whole
    <3>3. QED
      BY <2>4, <3>1, <3>2
  <2>7. Cardinality(T) = Cardinality(Own) + Cardinality(Rest)
    <3>1. Cardinality(Own \cup Rest)
            = Cardinality(Own) + Cardinality(Rest) - Cardinality(Own \cap Rest)
      BY <2>4, FS_Union
    <3>2. Cardinality(Own \cap Rest) = 0
      BY <2>3, FS_EmptySet
    <3>3. Cardinality(T) = Cardinality(Own) + Cardinality(Rest) - 0
      BY <2>3, <3>1, <3>2, Zenon
    <3>4. QED
      BY <2>4, <3>3
  <2>8. L * (n + 1) = L * n + L /\ L * n \in Int
    BY <2>1
  <2>9. QED
    BY <2>4, <2>5, <2>6, <2>7, <2>8
<1>4. P = Nat
  <2> HIDE DEF P
  <2>1. P \in SUBSET Nat
    BY DEF P
  <2>2. QED
    BY <1>2, <1>3, <2>1, NatSetInduction
<1>5. QED
  BY <1>1, <1>4

LEMMA HitsInvImplies == Types /\ HitsInv => AttemptsBounded
<1> SUFFICES ASSUME Types, HitsInv, NEW d \in Doors \ crowded, NEW s \in 1 .. MaxClock
             PROVE  LET inside == {x \in through[d] : x.at \in s .. s + Window - 1} IN
                    Cardinality(inside) <= Limit * Cardinality({x.run : x \in inside})
  BY DEF AttemptsBounded
<1> DEFINE inside == {x \in through[d] : x.at \in s .. s + Window - 1}
<1>1. IsFiniteSet(inside)
  BY FS_Subset DEF HitsInv
<1>2. ASSUME NEW r
      PROVE  Cardinality({x \in inside : x.run = r}) <= Limit
  <2>1. CASE r \in Nat
    <3>1. {x \in inside : x.run = r} = InWindow(d, s, r)
      BY DEF InWindow
    <3>2. QED
      BY <2>1, <3>1 DEF HitsInv, DoorKept
  <2>2. CASE r \notin Nat
    <3>1. \A x \in through[d] : x.run \in Nat
      BY DEF Types, GateTypesOK, AllAttempts
    <3>2. {x \in inside : x.run = r} = {}
      BY <2>2, <3>1
    <3>3. QED
      BY <3>2, FS_EmptySet
  <2>3. QED
    BY <2>1, <2>2
<1>3. QED
  BY <1>1, <1>2, SumOverRuns

LEMMA InitHits == Init => HitsInv
<1> SUFFICES ASSUME Init
             PROVE  HitsInv
  OBVIOUS
<1>1. /\ \A d \in Doors : hits[d] = {} /\ through[d] = {} /\ Counting(d) = {}
      /\ \A t \in Threads : ~At(t, "count")
      /\ "unlock" \in Doors
  BY DEF Init, InitGate, Counting, At, Nothing, Doors
<1>2. \A d \in Doors, s \in 1 .. MaxClock, r \in Nat : Cardinality(InWindow(d, s, r)) <= Limit
  <2>1. \A d \in Doors, s \in 1 .. MaxClock, r \in Nat : InWindow(d, s, r) = {}
    BY <1>1 DEF InWindow
  <2>2. QED
    BY <2>1, FS_EmptySet
<1>3. QED
  BY <1>1, <1>2, FS_EmptySet DEF HitsInv, HitsFinite, DoorKept, Single

\* A step that counts nothing and lets nothing through: requests that are being
\* counted stay, or are given up by the backend.
HitsQuiet ==
  /\ UNCHANGED <<hits, run, through, crowded>> /\ clock' >= clock
  /\ \A t \in Threads : At(t, "count")' =>
       /\ At(t, "count")
       /\ work'[t].door = work[t].door /\ work'[t].hit = work[t].hit
       /\ work'[t].hits = work[t].hits

LEMMA HitsQuietKeeps ==
  ASSUME Types, Types', HitsInv, HitsQuiet
  PROVE  HitsInv'
<1>1. \A d \in Doors : Counting(d)' \subseteq Counting(d)
  BY DEF HitsQuiet, Counting
<1>2. "unlock" \in Doors
  BY DEF Doors
<1>3. \A d \in Doors, s \in 1 .. MaxClock, r \in Nat : InWindow(d, s, r)' = InWindow(d, s, r)
  BY DEF HitsQuiet, InWindow
<1>4. HitsFinite'
  BY DEF HitsQuiet, HitsInv, HitsFinite
<1>5. ASSUME NEW d \in Doors \ crowded
      PROVE  DoorKept(d)'
  <2>1. DoorKept(d)
    BY DEF HitsInv
  <2>2. Single(Counting(d))'
    BY <1>1, <2>1 DEF DoorKept, Single
  <2>3. \A x \in through'[d] : x.run = run' /\ x.at > clock' - Window => x \in hits'[d]
    <3> SUFFICES ASSUME NEW x \in through[d], x.run = run, x.at > clock' - Window
                 PROVE  x \in hits[d]
      BY DEF HitsQuiet
    <3>1. x.at \in Int /\ clock \in Int /\ clock' \in Int /\ Window \in Int /\ clock' >= clock
      BY DEF Types, GateTypesOK, AllAttempts, HitsQuiet
    <3>2. QED
      BY <2>1, <3>1 DEF DoorKept
  <2>4. \A t \in Counting(d)' : ReadsAll(d, t)'
    <3> SUFFICES ASSUME NEW t \in Counting(d)'
                 PROVE  ReadsAll(d, t)'
      OBVIOUS
    <3>1. /\ t \in Counting(d) /\ work'[t].hit = work[t].hit /\ work'[t].hits = work[t].hits
          /\ through' = through /\ run' = run
      BY <1>1 DEF Counting, HitsQuiet
    <3>2. QED
      BY <2>1, <3>1 DEF DoorKept, ReadsAll
  <2>5. QED
    BY <1>3, <2>1, <2>2, <2>3, <2>4 DEF DoorKept
<1>6. QED
  BY <1>1, <1>2, <1>4, <1>5 DEF HitsInv, HitsQuiet

\* The count of a request: read is what it has read of the hits of its door, hit
\* the entry it makes, and no other request of the door is being counted.
LEMMA CountedWithin ==
  ASSUME Types, NEW d \in Doors, NEW hit \in Attempts, NEW read \in SUBSET Attempts,
         IsFiniteSet(read), IsFiniteSet(through[d]), DoorKept(d),
         \A x \in through[d] : x.run = run =>
           x.at <= hit.at /\ (x.at > hit.at - Window => x \in read),
         UNCHANGED <<clock, run>>, hits'[d] = read \cup {hit},
         \/ through'[d] = through[d]
         \/ Cardinality(read \cup {hit}) <= Limit /\ through'[d] = through[d] \cup {hit}
  PROVE  /\ IsFiniteSet(hits'[d]) /\ IsFiniteSet(through'[d])
         /\ \A x \in through'[d] : x.run = run' /\ x.at > clock' - Window => x \in hits'[d]
         /\ \A s \in 1 .. MaxClock, r \in Nat : Cardinality(InWindow(d, s, r)') <= Limit
<1>0. /\ clock \in Nat /\ hit.at \in 1 .. clock /\ Window \in Nat /\ Limit \in Nat
      /\ hit.run = run
      /\ \A x \in through[d] : x.at \in 1 .. clock
  BY DEF Types, GateTypesOK, Attempts, AllAttempts
<1>1. IsFiniteSet(hits'[d]) /\ IsFiniteSet(through'[d])
  <2>1. IsFiniteSet(read \cup {hit}) /\ IsFiniteSet(through[d] \cup {hit})
    BY FS_AddElement
  <2>2. QED
    BY <2>1
<1>2. \A x \in through'[d] : x.run = run' /\ x.at > clock' - Window => x \in hits'[d]
  BY <1>0
<1>3. ASSUME NEW s \in 1 .. MaxClock, NEW r \in Nat
      PROVE  Cardinality(InWindow(d, s, r)') <= Limit
  <2>1. CASE through'[d] = through[d] \/ hit.at \notin s .. s + Window - 1 \/ r # run
    <3>1. InWindow(d, s, r)' = InWindow(d, s, r)
      BY <1>0, <2>1 DEF InWindow
    <3>2. QED
      BY <3>1 DEF DoorKept
  <2>2. CASE /\ Cardinality(read \cup {hit}) <= Limit /\ through'[d] = through[d] \cup {hit}
             /\ hit.at \in s .. s + Window - 1 /\ r = run
    <3>1. InWindow(d, s, r)' \subseteq read \cup {hit}
      <4> SUFFICES ASSUME NEW x \in through[d], x.run = run, x.at \in s .. s + Window - 1
                   PROVE  x \in read
        BY <2>2 DEF InWindow
      <4>1. x.at > hit.at - Window
        BY <1>0, <2>2
      <4>2. QED
        BY <4>1
    <3>2. IsFiniteSet(read \cup {hit})
      BY FS_AddElement
    <3>3. /\ IsFiniteSet(InWindow(d, s, r)')
          /\ Cardinality(InWindow(d, s, r)') <= Cardinality(read \cup {hit})
      BY <3>1, <3>2, FS_Subset
    <3>4. Cardinality(InWindow(d, s, r)') \in Nat /\ Cardinality(read \cup {hit}) \in Nat
      BY <3>2, <3>3, FS_CardinalityType
    <3>5. QED
      BY <1>0, <2>2, <3>3, <3>4
  <2>3. QED
    BY <2>1, <2>2
<1>4. QED
  BY <1>1, <1>2, <1>3

LEMMA StepHits == Types /\ HitsInv /\ [Next]_vars => HitsInv'
<1> SUFFICES ASSUME Types, HitsInv, [Next]_vars
             PROVE  HitsInv'
  OBVIOUS
<1> USE DEF nonceVars, totpVars, gateVars
<1>0. /\ Types' /\ GateTypesOK(Forms) /\ HitsFinite
      /\ clock \in Nat /\ clock >= 1 /\ Nobody \notin Forms
      /\ hits \in [Doors -> SUBSET Attempts] /\ through \in [Doors -> SUBSET AllAttempts]
      /\ work \in [Threads -> Jobs(Forms)]
      /\ "unlock" \in Doors
  BY StepTypes DEF GateTypesOK, Types, HitsInv, Doors
<1>w. \A t \in Threads : work[t] \in Jobs(Forms)
  BY <1>0
<1>q. ASSUME UNCHANGED <<hits, run, through, crowded>>, clock' >= clock,
             \A t \in Threads : At(t, "count")' => work'[t] = work[t]
      PROVE  HitsInv'
  BY <1>0, <1>q, HitsQuietKeeps DEF HitsQuiet, At
<1>1. ASSUME NEW t \in Threads, UNCHANGED <<hits, run, through, crowded, clock>>,
             \A u \in Threads \ {t} : work'[u] = work[u], work'[t].at # "count"
      PROVE  HitsInv'
  BY <1>0, <1>1, <1>q DEF At
<1>2. ASSUME NEW t \in Threads,
             \/ \E n \in Nonces : Arrive(t, n)
             \/ BadSignature(t) \/ SweepFails(t)
             \/ AskInspect(t) \/ CheckFails(t) \/ CheckCode(t)
      PROVE  HitsInv'
  <2>1. UNCHANGED <<hits, run, through, crowded, clock>> /\ \A u \in Threads \ {t} : work'[u] = work[u]
    BY <1>0, <1>2 DEF Arrive, BadSignature, SweepFails, AskInspect, CheckFails, CheckCode,
                      Begin, Answer
  <2>2. CASE CheckFails(t) \/ CheckCode(t)
    <3>1. \/ work'[t] = Nothing
          \/ \E ok \in BOOLEAN : work'[t] = [at |-> "replied", for |-> work[t].for, ok |-> ok]
      BY <1>0, <2>2 DEF CheckFails, CheckCode, Answer
    <3>2. work'[t].at \in {"idle", "replied"}
      <4>1. CASE work'[t] = Nothing
        BY <4>1 DEF Nothing
      <4>2. ASSUME NEW ok \in BOOLEAN,
                   work'[t] = [at |-> "replied", for |-> work[t].for, ok |-> ok]
            PROVE  work'[t].at = "replied"
        BY <4>2
      <4>3. QED
        BY <3>1, <4>1, <4>2
    <3>3. QED
      BY <1>1, <2>1, <3>2
  <2>3. CASE ~(CheckFails(t) \/ CheckCode(t))
    <3>1. \/ work'[t] = Nothing
          \/ work'[t] = [at |-> "check", for |-> Nobody]
          \/ \E n \in Nonces : work'[t] = [at |-> "verify", nonce |-> n, now |-> clock,
                                          moved |-> FALSE]
      BY <1>0, <1>2, <2>3 DEF Arrive, BadSignature, SweepFails, AskInspect, Begin
    <3>2. work'[t].at \in {"idle", "check", "verify"}
      <4>1. CASE work'[t] = Nothing
        BY <4>1 DEF Nothing
      <4>2. CASE work'[t] = [at |-> "check", for |-> Nobody]
        BY <4>2
      <4>3. ASSUME NEW n \in Nonces,
                   work'[t] = [at |-> "verify", nonce |-> n, now |-> clock, moved |-> FALSE]
            PROVE  work'[t].at = "verify"
        BY <4>3
      <4>4. QED
        BY <3>1, <4>1, <4>2, <4>3
    <3>3. QED
      BY <1>1, <2>1, <3>2
  <2>4. QED
    BY <2>2, <2>3
<1>3. ASSUME NEW t \in Threads, StoreNonce(t) \/ Sweep(t)
      PROVE  HitsInv'
  <2>1. \A u \in Threads : work'[u] = work[u] \/ work'[u].at \in {"idle", "sweep"}
    BY <1>3, NonceSteps DEF Nothing
  <2>2. \A u \in Threads : At(u, "count")' => work'[u] = work[u]
    BY <2>1 DEF At
  <2>3. QED
    BY <1>0, <1>3, <1>q, <2>2 DEF StoreNonce, Sweep
<1>4. ASSUME NEW t \in Threads, NEW d \in Pooled, NEW f \in Forms \cup {Nobody}, Ask(t, d, f)
      PROVE  HitsInv'
  <2>1. /\ d \in Doors /\ d # "unlock"
        /\ UNCHANGED <<hits, run, through, clock>>
        /\ work' = [work EXCEPT ![t] = [at |-> "count", door |-> d, for |-> f,
                                        hit |-> Attempt(d), hits |-> Recent(hits[d])]]
        /\ work[t] = Nothing
        /\ crowded \subseteq crowded' /\ (d \notin crowded' => Counting(d) = {})
    BY <1>4 DEF Ask, Begin, Idle, Doors, Pooled, Counting
  <2>2. /\ Counting(d)' = Counting(d) \cup {t}
        /\ \A e \in Doors \ {d} : Counting(e)' = Counting(e)
        /\ \A u \in Threads \ {t} : work'[u] = work[u]
        /\ work'[t].hit.at = clock /\ work'[t].hits = Recent(hits[d])
    BY <1>0, <2>1 DEF Counting, At, Nothing, Attempt
  <2>3. HitsFinite'
    <3>1. IsFiniteSet(Recent(hits[d]))
      BY <1>0, <2>1, FS_Subset DEF HitsFinite, Recent
    <3>2. QED
      BY <1>0, <2>1, <2>2, <3>1 DEF HitsFinite, At
  <2>4. ASSUME NEW e \in Doors, e \notin crowded'
        PROVE  DoorKept(e)'
    <3>1. DoorKept(e)
      BY <2>1, <2>4 DEF HitsInv
    <3>2. CASE e # d
      <4>1. \A u \in Counting(e) : work'[u] = work[u]
        BY <2>1, <2>2 DEF Counting, At, Nothing
      <4>2. QED
        BY <2>1, <2>2, <3>1, <3>2, <4>1 DEF DoorKept, ReadsAll, InWindow
    <3>3. CASE e = d
      <4>1. Counting(d)' = {t}
        BY <2>1, <2>2, <2>4, <3>3
      <4>2. ReadsAll(d, t)'
        <5> SUFFICES ASSUME NEW x \in through[d], x.run = run
                     PROVE  x.at <= clock /\ (x.at > clock - Window => x \in Recent(hits[d]))
          BY <2>1, <2>2 DEF ReadsAll
        <5>1. x.at \in 1 .. clock
          BY <1>0, <2>1 DEF AllAttempts
        <5>2. QED
          BY <1>0, <3>1, <3>3, <5>1 DEF DoorKept, Recent
      <4>3. QED
        BY <2>1, <3>1, <3>3, <4>1, <4>2 DEF DoorKept, InWindow, Single
    <3>4. QED
      BY <3>2, <3>3
  <2>5. QED
    BY <1>0, <2>1, <2>2, <2>3, <2>4 DEF HitsInv
<1>5. ASSUME NEW t \in Threads, CountHit(t)
      PROVE  HitsInv'
  <2> DEFINE d == work[t].door
             read == work[t].hits
             hit == work[t].hit
  <2>1. /\ At(t, "count") /\ d \in Doors /\ hit \in Attempts /\ read \in SUBSET Attempts
        /\ UNCHANGED <<clock, run, crowded>>
        /\ hits' = [hits EXCEPT ![d] = read \cup {hit}]
        /\ \/ Answer(t, FALSE) /\ through' = through
           \/ /\ Cardinality(read \cup {hit}) <= Limit
              /\ work' = [work EXCEPT ![t] = [at |-> "check", for |-> work[t].for]]
              /\ through' = [through EXCEPT ![d] = through[d] \cup {hit}]
    <3>1. Cardinality(read \cup {hit}) \in Nat
      <4>1. IsFiniteSet(read)
        BY <1>0, <1>5 DEF CountHit, HitsFinite
      <4>2. QED
        BY <4>1, FS_AddElement, FS_CardinalityType
    <3>2. At(t, "count") /\ d \in Doors /\ hit \in Attempts /\ read \in SUBSET Attempts
      BY <1>5, <1>w, JobParts DEF CountHit, At
    <3>3. /\ UNCHANGED <<clock, run, crowded>>
          /\ hits' = [hits EXCEPT ![d] = read \cup {hit}]
          /\ IF Cardinality(read \cup {hit}) > Limit
             THEN Answer(t, FALSE) /\ through' = through
             ELSE /\ work' = [work EXCEPT ![t] = [at |-> "check", for |-> @.for]]
                  /\ through' = [through EXCEPT ![d] = @ \cup {hit}]
      BY <1>5 DEF CountHit, TooMany
    <3>4. CASE Cardinality(read \cup {hit}) > Limit
      BY <3>2, <3>3, <3>4
    <3>5. CASE ~(Cardinality(read \cup {hit}) > Limit)
      <4>1. Cardinality(read \cup {hit}) <= Limit
        BY <3>1, <3>5
      <4>2. work' = [work EXCEPT ![t] = [at |-> "check", for |-> work[t].for]]
        BY <1>0, <3>3, <3>5
      <4>3. through' = [through EXCEPT ![d] = through[d] \cup {hit}]
        BY <1>0, <3>2, <3>3, <3>5
      <4>4. QED
        BY <3>2, <3>3, <4>1, <4>2, <4>3
    <3>6. QED
      BY <3>4, <3>5
  <2>2. work'[t].at # "count" /\ \A u \in Threads \ {t} : work'[u] = work[u]
    <3>1. CASE Answer(t, FALSE)
      <4>1. \/ work'[t] = Nothing
            \/ work'[t] = [at |-> "replied", for |-> work[t].for, ok |-> FALSE]
        BY <1>0, <3>1 DEF Answer
      <4>2. \A u \in Threads \ {t} : work'[u] = work[u]
        BY <1>0, <3>1 DEF Answer
      <4>3. QED
        BY <4>1, <4>2 DEF Nothing
    <3>2. CASE work' = [work EXCEPT ![t] = [at |-> "check", for |-> work[t].for]]
      BY <1>0, <3>2
    <3>3. QED
      BY <2>1, <3>1, <3>2
  <2>3. /\ \A e \in Doors : Counting(e)' = Counting(e) \ {t}
        /\ t \in Counting(d)
    BY <2>1, <2>2 DEF Counting, At
  <2>4. /\ hits'[d] = read \cup {hit}
        /\ \/ through'[d] = through[d]
           \/ Cardinality(read \cup {hit}) <= Limit /\ through'[d] = through[d] \cup {hit}
        /\ \A e \in Doors \ {d} : hits'[e] = hits[e] /\ through'[e] = through[e]
    BY <1>0, <2>1
  <2>5. IsFiniteSet(read) /\ IsFiniteSet(through[d])
    BY <1>0, <2>1 DEF HitsInv, HitsFinite
  <2>6. HitsFinite' /\ \A e \in Doors : IsFiniteSet(through'[e])
    <3>1. IsFiniteSet(hits'[d]) /\ IsFiniteSet(through'[d])
      <4>1. IsFiniteSet(read \cup {hit}) /\ IsFiniteSet(through[d] \cup {hit})
        BY <2>5, FS_AddElement
      <4>2. QED
        BY <2>4, <2>5, <4>1
    <3>2. \A u \in Threads : At(u, "count")' => IsFiniteSet(work'[u].hits)
      BY <1>0, <2>2 DEF HitsFinite, At
    <3>3. QED
      BY <1>0, <2>4, <3>1, <3>2 DEF HitsInv, HitsFinite
  <2>7. ASSUME NEW e \in Doors, e \notin crowded'
        PROVE  DoorKept(e)'
    <3>1. DoorKept(e)
      BY <2>1, <2>7 DEF HitsInv
    <3>2. CASE e # d
      <4>1. \A u \in Counting(e)' : work'[u] = work[u] /\ u \in Counting(e)
        BY <2>2, <2>3 DEF Counting
      <4>2. Single(Counting(e))'
        BY <3>1, <4>1 DEF DoorKept, Single
      <4>3. QED
        BY <2>1, <2>4, <3>1, <3>2, <4>1, <4>2 DEF DoorKept, ReadsAll, InWindow
    <3>3. CASE e = d
      <4>1. Counting(e)' = {}
        BY <2>3, <3>1, <3>3 DEF DoorKept, Single
      <4>2. \A x \in through[e] : x.run = run =>
              x.at <= hit.at /\ (x.at > hit.at - Window => x \in read)
        BY <2>3, <3>1, <3>3 DEF DoorKept, ReadsAll
      <4>3. /\ \A x \in through'[e] : x.run = run' /\ x.at > clock' - Window => x \in hits'[e]
            /\ \A s \in 1 .. MaxClock, r \in Nat : Cardinality(InWindow(e, s, r)') <= Limit
        BY <2>1, <2>4, <2>5, <3>1, <3>3, <4>2, CountedWithin
      <4>4. QED
        BY <4>1, <4>3 DEF DoorKept, Single
    <3>4. QED
      BY <3>2, <3>3
  <2>8. QED
    BY <1>0, <2>3, <2>6, <2>7 DEF HitsInv
<1>6. ASSUME NEW t \in Threads, AskUnlock(t)
      PROVE  HitsInv'
  <2> DEFINE d == "unlock"
             read == Recent(hits[d])
             hit == Attempt(d)
  <2>1. IsFiniteSet(read) /\ IsFiniteSet(through[d]) /\ read \in SUBSET Attempts
    BY <1>0, FS_Subset DEF HitsInv, HitsFinite, Recent
  <2>a. hit \in Attempts /\ hit.at = clock
    <3>1. IsFiniteSet({x \in hits[d] : x.at = clock})
      BY <1>0, FS_Subset DEF HitsFinite
    <3>2. Cardinality({x \in hits[d] : x.at = clock}) \in Nat
      BY <3>1, FS_CardinalityType
    <3>3. QED
      BY <1>0, <3>2 DEF Attempt, Attempts
  <2>2. /\ UNCHANGED <<clock, run, crowded>> /\ work[t] = Nothing
        /\ hits' = [hits EXCEPT ![d] = read \cup {hit}]
        /\ \/ work' = work /\ through' = through
           \/ /\ Cardinality(read \cup {hit}) <= Limit
              /\ work' = [work EXCEPT ![t] = [at |-> "check", for |-> Nobody]]
              /\ through' = [through EXCEPT ![d] = through[d] \cup {hit}]
    <3>1. Cardinality(read \cup {hit}) \in Nat
      BY <2>1, FS_AddElement, FS_CardinalityType
    <3>2. QED
      BY <1>0, <1>6, <3>1 DEF AskUnlock, Idle, TooMany
  <2>3. /\ \A u \in Threads : At(u, "count")' => work'[u] = work[u]
        /\ \A e \in Doors : Counting(e)' = Counting(e)
    BY <1>0, <2>2 DEF Counting, At, Nothing
  <2>4. /\ hits'[d] = read \cup {hit}
        /\ \/ through'[d] = through[d]
           \/ Cardinality(read \cup {hit}) <= Limit /\ through'[d] = through[d] \cup {hit}
        /\ \A e \in Doors \ {d} : hits'[e] = hits[e] /\ through'[e] = through[e]
    BY <1>0, <2>2
  <2>5. HitsFinite' /\ \A e \in Doors : IsFiniteSet(through'[e])
    <3>1. IsFiniteSet(hits'[d]) /\ IsFiniteSet(through'[d])
      BY <2>1, <2>4, FS_AddElement
    <3>2. \A u \in Threads : At(u, "count")' => IsFiniteSet(work'[u].hits)
      BY <1>0, <2>3 DEF HitsFinite, At
    <3>3. QED
      BY <1>0, <2>4, <3>1, <3>2 DEF HitsInv, HitsFinite
  <2>6. ASSUME NEW e \in Doors, e \notin crowded'
        PROVE  DoorKept(e)'
    <3>1. DoorKept(e)
      BY <2>2, <2>6 DEF HitsInv
    <3>2. CASE e # d
      <4>1. \A u \in Counting(e)' : work'[u] = work[u]
        BY <2>3 DEF Counting
      <4>2. QED
        BY <2>2, <2>3, <2>4, <3>1, <3>2, <4>1 DEF DoorKept, ReadsAll, InWindow
    <3>3. CASE e = d
      <4>1. Counting(d)' = {}
        BY <1>0, <2>3 DEF HitsInv
      <4>2. \A x \in through[d] : x.run = run =>
              x.at <= hit.at /\ (x.at > hit.at - Window => x \in read)
        <5> SUFFICES ASSUME NEW x \in through[d], x.run = run
                     PROVE  x.at <= clock /\ (x.at > clock - Window => x \in read)
          BY <2>a
        <5>1. x.at \in 1 .. clock
          BY <1>0 DEF AllAttempts
        <5>2. QED
          BY <1>0, <3>1, <3>3, <5>1 DEF DoorKept, Recent
      <4>3. /\ \A x \in through'[d] : x.run = run' /\ x.at > clock' - Window => x \in hits'[d]
            /\ \A s \in 1 .. MaxClock, r \in Nat : Cardinality(InWindow(d, s, r)') <= Limit
        BY <1>0, <2>1, <2>2, <2>4, <2>a, <3>1, <3>3, <4>2, CountedWithin
      <4>4. QED
        BY <3>3, <4>1, <4>3 DEF DoorKept, Single
    <3>4. QED
      BY <3>2, <3>3
  <2>7. QED
    BY <1>0, <2>3, <2>5, <2>6 DEF HitsInv
<1>7. ASSUME RestartBackend
      PROVE  HitsInv'
  <2>1. /\ \A d \in Doors : hits'[d] = {} /\ through'[d] = through[d]
        /\ \A t \in Threads : ~At(t, "count")'
        /\ run' = run + 1 /\ crowded' = crowded /\ run \in Nat
    BY <1>0, <1>7 DEF RestartBackend, At, Idle, Nothing, GateTypesOK
  <2>2. \A d \in Doors : Counting(d)' = {}
    BY <2>1 DEF Counting
  <2>3. HitsFinite' /\ \A d \in Doors : IsFiniteSet(through'[d])
    BY <2>1, FS_EmptySet DEF HitsInv, HitsFinite
  <2>4. ASSUME NEW d \in Doors \ crowded
        PROVE  DoorKept(d)'
    <3>1. \A x \in through[d] : x.run # run'
      BY <1>0, <2>1 DEF AllAttempts
    <3>2. \A s \in 1 .. MaxClock, r \in Nat : InWindow(d, s, r)' = InWindow(d, s, r)
      BY <2>1 DEF InWindow
    <3>3. \A s \in 1 .. MaxClock, r \in Nat : Cardinality(InWindow(d, s, r)') <= Limit
      BY <3>2 DEF HitsInv, DoorKept
    <3>4. QED
      BY <2>1, <2>2, <3>1, <3>3 DEF DoorKept, Single
  <2>5. QED
    BY <1>0, <2>1, <2>2, <2>3, <2>4 DEF HitsInv
<1>8. ASSUME NEW t \in Threads, GateStep(t)
      PROVE  HitsInv'
  <2>1. "code only" \in Pooled
    BY DEF Pooled
  <2>2. QED
    BY <1>2, <1>3, <1>4, <1>5, <1>6, <1>8, <2>1 DEF GateStep, AskCodeOnly
<1>9. ASSUME NEW t \in Threads, NEW f \in Forms, AskVerify(t, f)
      PROVE  HitsInv'
  <2>1. "verify" \in Pooled
    BY DEF Pooled
  <2>2. QED
    BY <1>4, <1>9, <2>1 DEF AskVerify
<1>10. ASSUME NEW t \in Threads, work' = [work EXCEPT ![t] = Nothing],
              UNCHANGED <<clock, totpVars>>
       PROVE  HitsInv'
  BY <1>0, <1>1, <1>10 DEF Nothing
<1>11. ASSUME NEW S \in SUBSET Forms, work' = Abandoned(S), UNCHANGED <<clock, totpVars>>
       PROVE  HitsInv'
  <2>1. \A t \in Threads : At(t, "count") =>
          LET j == [work[t] EXCEPT !.for = Nobody] IN
          /\ j.door = work[t].door /\ j.hit = work[t].hit /\ j.hits = work[t].hits
    OBVIOUS
  <2>2. \A t \in Threads : At(t, "check") => [work[t] EXCEPT !.for = Nobody].at = "check"
    BY <1>w, JobParts DEF At
  <2>3. \A t \in Threads : At(t, "count")' =>
          /\ At(t, "count")
          /\ work'[t] = work[t] \/ work'[t] = [work[t] EXCEPT !.for = Nobody]
    BY <1>11, <2>2 DEF Abandoned, At, Nothing
  <2>4. HitsQuiet
    <3>1. UNCHANGED <<hits, run, through, crowded>> /\ clock' >= clock
      BY <1>0, <1>11
    <3>2. QED
      BY <2>1, <2>3, <3>1 DEF HitsQuiet
  <2>5. QED
    BY <1>0, <2>4, HitsQuietKeeps
<1>12. CASE UNCHANGED <<work, totpVars>> /\ clock' >= clock
  BY <1>12, <1>q DEF At
<1>13. QED
  BY <1>7, <1>8, <1>9, <1>10, <1>11, <1>12, StepForms

-----------------------------------------------------------------------------
(* Every form that waits has one request at the backend *)

\* Neither a form nor a request for it is there alone, or twice.
AwaitInv ==
  \A f \in Forms :
    /\ Single(Awaited(f)) /\ Single(forms[f])
    /\ Awaited(f) = {} <=> forms[f] = {}

LEMMA AwaitInvImplies ==
  AwaitInv => \A f \in Forms : Cardinality(Awaited(f)) = Cardinality(forms[f])
<1> SUFFICES ASSUME AwaitInv, NEW f \in Forms
             PROVE  Cardinality(Awaited(f)) = Cardinality(forms[f])
  OBVIOUS
<1>1. CASE forms[f] = {}
  BY <1>1 DEF AwaitInv
<1>2. CASE forms[f] # {}
  <2>1. PICK t, c : Awaited(f) = {t} /\ forms[f] = {c}
    BY <1>2 DEF AwaitInv, Single
  <2>2. QED
    BY <2>1, FS_Singleton
<1>3. QED
  BY <1>1, <1>2

LEMMA InitAwait == Init => AwaitInv
<1> SUFFICES ASSUME Init, NEW f \in Forms
             PROVE  Awaited(f) = {} /\ forms[f] = {}
  BY DEF AwaitInv, Single
<1>1. QED
  BY DEF Init, InitGate, Awaited, Nothing

\* A request that goes on is still the one of its form.
LEMMA SameRequests ==
  ASSUME AwaitInv, forms' = forms,
         \A t \in Threads :
           \/ work'[t] = work[t]
           \/ /\ work'[t].at \notin {"count", "check", "replied"}
              /\ \/ work[t].at \notin {"count", "check", "replied"}
                 \/ work[t].for \notin Forms
           \/ /\ work[t].at \notin {"count", "check", "replied"}
              /\ work'[t].for \notin Forms
           \/ /\ work'[t].at \in {"count", "check", "replied"}
              /\ work[t].at \in {"count", "check", "replied"}
              /\ work'[t].for = work[t].for
  PROVE  AwaitInv'
<1>1. \A f \in Forms : Awaited(f)' = Awaited(f)
  BY DEF Awaited
<1>2. QED
  BY <1>1 DEF AwaitInv

LEMMA StepAwait == Types /\ AwaitInv /\ [Next]_vars => AwaitInv'
<1> SUFFICES ASSUME Types, AwaitInv, [Next]_vars
             PROVE  AwaitInv'
  OBVIOUS
<1> USE DEF nonceVars, totpVars, gateVars, serverVars, Backend, Request
<1>0. /\ GateTypesOK(Forms) /\ ServerTypesOK /\ Nobody \notin Forms
      /\ work \in [Threads -> Jobs(Forms)] /\ forms \in [Forms -> SUBSET Clients]
  BY DEF GateTypesOK, ServerTypesOK, Types
<1>w. \A t \in Threads : work[t] \in Jobs(Forms)
  BY <1>0
<1>1. ASSUME NEW t \in Threads, NEW ok \in BOOLEAN, Answer(t, ok), forms' = forms,
             At(t, "count") \/ At(t, "check")
      PROVE  AwaitInv'
  <2>1. \A u \in Threads \ {t} : work'[u] = work[u]
    BY <1>0, <1>1 DEF Answer
  <2>2. CASE work[t].for = Nobody
    <3>1. work'[t] = Nothing
      BY <1>0, <1>1, <2>2 DEF Answer
    <3>2. work'[t].at \notin {"count", "check", "replied"} /\ work[t].for \notin Forms
      BY <1>0, <2>2, <3>1 DEF Nothing
    <3>3. QED
      BY <1>1, <2>1, <3>2, SameRequests
  <2>3. CASE work[t].for # Nobody
    <3>1. work'[t] = [at |-> "replied", for |-> work[t].for, ok |-> ok]
      BY <1>0, <1>1, <2>3 DEF Answer
    <3>2. work'[t].at = "replied" /\ work'[t].for = work[t].for
      BY <3>1
    <3>3. work[t].at \in {"count", "check", "replied"}
      BY <1>1 DEF At
    <3>4. QED
      BY <1>1, <2>1, <3>2, <3>3, SameRequests
  <2>4. QED
    BY <2>2, <2>3
<1>2. ASSUME NEW t \in Threads, CheckFails(t) \/ CheckCode(t), forms' = forms
      PROVE  AwaitInv'
  BY <1>1, <1>2 DEF CheckFails, CheckCode
<1>3. ASSUME NEW t \in Threads, CountHit(t), forms' = forms
      PROVE  AwaitInv'
  <2>1. \/ Answer(t, FALSE)
        \/ work' = [work EXCEPT ![t] = [at |-> "check", for |-> work[t].for]]
    BY <1>0, <1>3 DEF CountHit
  <2>2. CASE work' = [work EXCEPT ![t] = [at |-> "check", for |-> work[t].for]]
    <3>1. work'[t].at = "check" /\ work'[t].for = work[t].for
      BY <1>0, <2>2
    <3>2. work[t].at = "count" /\ \A u \in Threads \ {t} : work'[u] = work[u]
      BY <1>0, <1>3, <2>2 DEF CountHit, At
    <3>3. QED
      BY <1>3, <3>1, <3>2, SameRequests
  <2>3. CASE Answer(t, FALSE)
    BY <1>1, <1>3, <2>3 DEF CountHit
  <2>4. QED
    BY <2>1, <2>2, <2>3
<1>4. ASSUME NEW t \in Threads, forms' = forms,
             \/ \E n \in Nonces : Arrive(t, n)
             \/ BadSignature(t) \/ SweepFails(t)
      PROVE  AwaitInv'
  <2>1. \A u \in Threads \ {t} : work'[u] = work[u]
    BY <1>0, <1>4 DEF Arrive, BadSignature, SweepFails, Begin
  <2>2. work[t].at \notin {"count", "check", "replied"}
    BY <1>4 DEF Arrive, BadSignature, SweepFails, Begin, Idle, At, Nothing
  <2>3. \/ work'[t] = Nothing
        \/ \E n \in Nonces :
             work'[t] = [at |-> "verify", nonce |-> n, now |-> clock, moved |-> FALSE]
    BY <1>0, <1>4 DEF Arrive, BadSignature, SweepFails, Begin
  <2>4. work'[t].at \notin {"count", "check", "replied"}
    <3>1. CASE work'[t] = Nothing
      BY <3>1 DEF Nothing
    <3>2. ASSUME NEW n \in Nonces,
                 work'[t] = [at |-> "verify", nonce |-> n, now |-> clock, moved |-> FALSE]
          PROVE  work'[t].at \notin {"count", "check", "replied"}
      BY <3>2
    <3>3. QED
      BY <2>3, <3>1, <3>2
  <2>5. QED
    BY <1>4, <2>1, <2>2, <2>4, SameRequests
<1>5. ASSUME NEW t \in Threads, StoreNonce(t) \/ Sweep(t), forms' = forms
      PROVE  AwaitInv'
  <2>2. \A u \in Threads :
          \/ work'[u] = work[u]
          \/ work[u].at \in {"verify", "sweep"} /\ work'[u].at \in {"idle", "sweep"}
    BY <1>5, NonceSteps DEF At, Nothing
  <2>3. QED
    BY <1>5, <2>2, SameRequests
\* A thread that was idle begins what nobody waits for.
<1>6. ASSUME NEW t \in Threads, forms' = forms,
             AskCodeOnly(t) \/ AskUnlock(t) \/ AskInspect(t)
      PROVE  AwaitInv'
  <2>1. /\ \A u \in Threads \ {t} : work'[u] = work[u]
        /\ work[t] = Nothing
    BY <1>0, <1>6 DEF AskCodeOnly, Ask, AskUnlock, AskInspect, Begin, Idle
  <2>2. work'[t] = work[t] \/ work'[t].for = Nobody
    <3>1. CASE AskCodeOnly(t)
      BY <1>0, <3>1 DEF AskCodeOnly, Ask, Begin
    <3>2. CASE AskUnlock(t)
      <4>1. work' = work \/ work' = [work EXCEPT ![t] = [at |-> "check", for |-> Nobody]]
        BY <3>2 DEF AskUnlock
      <4>2. QED
        BY <1>0, <4>1
    <3>3. CASE AskInspect(t)
      BY <1>0, <3>3 DEF AskInspect, Begin
    <3>4. QED
      BY <1>6, <3>1, <3>2, <3>3
  <2>3. work[t].at \notin {"count", "check", "replied"}
    BY <2>1 DEF Nothing
  <2>4. QED
    BY <1>0, <1>6, <2>1, <2>2, <2>3, SameRequests
<1>7. ASSUME RestartBackend, forms' = forms
      PROVE  AwaitInv'
  <2> SUFFICES ASSUME NEW t \in Threads
               PROVE  \/ work'[t] = work[t]
                      \/ /\ work'[t].at \notin {"count", "check", "replied"}
                         /\ \/ work[t].at \notin {"count", "check", "replied"}
                            \/ work[t].for \notin Forms
                      \/ /\ work'[t].at \in {"count", "check", "replied"}
                         /\ work[t].at \in {"count", "check", "replied"}
                         /\ work'[t].for = work[t].for
    BY <1>7, SameRequests
  <2>1. CASE Idle(t) \/ At(t, "replied")
    BY <1>7, <2>1 DEF RestartBackend
  <2>2. CASE work[t].at \in {"verify", "sweep"}
    BY <1>7, <2>2 DEF RestartBackend, Nothing, Idle, At
  <2>3. CASE At(t, "count") \/ At(t, "check")
    <3>1. ~Idle(t) /\ ~At(t, "replied") /\ work[t].at \notin {"verify", "sweep"}
      BY <2>3 DEF Idle, At, Nothing
    <3>2. work'[t] = IF work[t].for = Nobody THEN Nothing
                     ELSE [at |-> "replied", for |-> work[t].for, ok |-> FALSE]
      BY <1>7, <3>1 DEF RestartBackend
    <3>3. CASE work[t].for = Nobody
      BY <1>0, <3>2, <3>3 DEF Nothing
    <3>4. CASE work[t].for # Nobody
      BY <2>3, <3>2, <3>4 DEF At
    <3>5. QED
      BY <3>3, <3>4
  <2>4. QED
    BY <1>w, <2>1, <2>2, <2>3, JobParts DEF At, Idle
<1>8. ASSUME NEW t \in Threads, GateStep(t), forms' = forms
      PROVE  AwaitInv'
  BY <1>2, <1>3, <1>4, <1>5, <1>6, <1>8 DEF GateStep
<1>9. ASSUME NEW t \in Threads, NEW f \in Forms, NEW c \in Clients, AskConsent(t, f, c)
      PROVE  AwaitInv'
  <2>1. /\ forms[f] = {} /\ forms' = [forms EXCEPT ![f] = {c}] /\ work[t] = Nothing
        /\ \A u \in Threads \ {t} : work'[u] = work[u]
        /\ work'[t].at = "count" /\ work'[t].for = f
    BY <1>0, <1>9 DEF AskConsent, AskVerify, Ask, Begin, Idle
  <2>2. /\ Awaited(f)' = Awaited(f) \cup {t}
        /\ \A g \in Forms \ {f} : Awaited(g)' = Awaited(g)
    BY <2>1 DEF Awaited, Nothing
  <2>3. forms'[f] = {c} /\ \A g \in Forms \ {f} : forms'[g] = forms[g]
    BY <1>0, <2>1
  <2>4. QED
    BY <2>1, <2>2, <2>3 DEF AwaitInv, Single
<1>10. ASSUME NEW t \in Threads, Take(t)
       PROVE  AwaitInv'
  <2> DEFINE g == work[t].for
  <2>1. /\ At(t, "replied") /\ g \in Forms /\ work' = [work EXCEPT ![t] = Nothing]
        /\ forms' = [forms EXCEPT ![g] = {}]
    BY <1>w, <1>10, JobParts DEF Take, At
  <2>2. ASSUME NEW f \in Forms
        PROVE  Awaited(f)' = Awaited(f) \ {t}
    BY <1>0, <2>1 DEF Awaited, Nothing
  <2>3. ASSUME NEW f \in Forms
        PROVE  /\ Single(Awaited(f)') /\ Single(forms'[f])
               /\ Awaited(f)' = {} <=> forms'[f] = {}
    <3>1. CASE f = g
      <4>1. t \in Awaited(f)
        BY <2>1, <3>1 DEF Awaited, At
      <4>2. Awaited(f)' = {}
        BY <2>2, <4>1 DEF AwaitInv, Single
      <4>3. forms'[f] = {}
        BY <1>0, <2>1, <3>1
      <4>4. QED
        BY <4>2, <4>3 DEF Single
    <3>2. CASE f # g
      <4>1. t \notin Awaited(f) /\ forms'[f] = forms[f]
        BY <1>0, <2>1, <3>2 DEF Awaited
      <4>2. QED
        BY <2>2, <4>1 DEF AwaitInv
    <3>3. QED
      BY <3>1, <3>2
  <2>4. QED
    BY <2>3 DEF AwaitInv
\* Forms that are given up are waited for by nobody, and no request is for them.
<1>11. ASSUME NEW S \in SUBSET Forms, work' = Abandoned(S),
              forms' = [f \in Forms |-> IF f \in S THEN {} ELSE forms[f]]
       PROVE  AwaitInv'
  <2>1. ASSUME NEW t \in Threads
        PROVE  IF /\ work[t].at \in {"count", "check", "replied"}
                  /\ work[t].for \in S
               THEN work'[t].at = "idle" \/ work'[t].for = Nobody
               ELSE work'[t] = work[t]
    <3>1. CASE ~(work[t].at \in {"count", "check", "replied"} /\ work[t].for \in S)
      BY <1>11, <3>1 DEF Abandoned
    <3>2. CASE At(t, "replied") /\ work[t].for \in S
      BY <1>11, <3>2 DEF Abandoned, At, Nothing
    <3>3. CASE (At(t, "count") \/ At(t, "check")) /\ work[t].for \in S
      <4>1. [work[t] EXCEPT !.for = Nobody].for = Nobody
        BY <1>w, <3>3, JobParts DEF At, Jobs
      <4>2. QED
        BY <1>11, <3>3, <4>1 DEF Abandoned, At
    <3>4. QED
      BY <3>1, <3>2, <3>3 DEF At
  <2>2. ASSUME NEW f \in Forms
        PROVE  Awaited(f)' = IF f \in S THEN {} ELSE Awaited(f)
    BY <1>0, <2>1 DEF Awaited
  <2>3. QED
    BY <1>11, <2>2 DEF AwaitInv, Single
<1>12. ASSUME NEW f \in Forms, GiveUp(f)
       PROVE  AwaitInv'
  <2>1. work' = Abandoned({f}) /\ {f} \in SUBSET Forms
    BY <1>12 DEF GiveUp
  <2>2. forms' = [g \in Forms |-> IF g \in {f} THEN {} ELSE forms[g]]
    BY <1>0, <1>12 DEF GiveUp
  <2>3. QED
    BY <1>11, <2>1, <2>2
<1>13. ASSUME RestartServer
       PROVE  AwaitInv'
  BY <1>11, <1>13 DEF RestartServer
<1>14. ASSUME UNCHANGED <<work, forms>>
       PROVE  AwaitInv'
  BY <1>14, SameRequests
<1>15. CASE ServerStep
  <2>1. ASSUME \/ \E c \in Clients : Register(c) \/ ConsentLife(c)
               \/ \E k \in Codes : Redeem(k)
               \/ Tick
        PROVE  AwaitInv'
    BY <1>14, <2>1 DEF Register, ConsentLife, Redeem, Tick
  <2>2. QED
    BY <1>7, <1>8, <1>9, <1>10, <1>12, <1>13, <1>15, <2>1
       DEF ServerStep, Consented, NotConsented
<1>16. CASE PublishStep
  BY <1>14, <1>16 DEF PublishStep
<1>17. CASE UNCHANGED vars
  BY <1>14, <1>17 DEF vars
<1>18. QED
  BY <1>15, <1>16, <1>17 DEF Next

-----------------------------------------------------------------------------
(* The invariant of the servers *)

ServersInv ==
  /\ Types /\ SnapInv /\ NonceInv /\ OpenInv /\ HitsInv /\ AwaitInv

LEMMA InitServers == Init => ServersInv
<1> SUFFICES ASSUME Init
             PROVE  ServersInv
  OBVIOUS
<1>1. NonceInv
  <2>1. \A n \in Nonces : /\ Tested(n) = {} /\ Stored(n) = {} /\ accepted[n] = 0
                          /\ DOMAIN cache = {}
    BY DEF Init, InitGate, Tested, Stored, At, Nothing
  <2>2. QED
    BY <2>1 DEF NonceInv, NonceKept, StampHolds, Single
<1>2. SnapInv
  BY InitSnap DEF Init
<1>3. QED
  BY <1>1, <1>2, InitTypes, InitOpen, InitHits, InitAwait DEF ServersInv

LEMMA StepServers == ServersInv /\ [Next]_vars => ServersInv'
<1> SUFFICES ASSUME ServersInv, [Next]_vars
             PROVE  ServersInv'
  OBVIOUS
<1>0. Types /\ SnapInv /\ NonceInv /\ OpenInv /\ HitsInv /\ AwaitInv /\ HitsFinite
  BY DEF ServersInv, HitsInv
<1>1. SnapInv'
  <2>1. \/ UNCHANGED snapshotVars
        \/ \E p \in Publishers, s \in Snapshots : LoadCurrent(p, s)
        \/ \E p \in Publishers :
             FindVersion(p) \/ WriteVersion(p) \/ WriteCurrent(p) \/ Quit(p)
    BY DEF Next, PublishStep, vars
  <2>2. QED
    BY <1>0, <2>1, StepSnap
<1>2. Types' /\ NonceInv' /\ OpenInv' /\ HitsInv' /\ AwaitInv'
  BY <1>0, StepTypes, StepNonce, StepOpen, StepHits, StepAwait
<1>3. QED
  BY <1>1, <1>2 DEF ServersInv

THEOREM ServersInvHolds == Spec => []ServersInv
BY InitServers, StepServers, PTL DEF Spec

\* Codes belong to an issue, saved clients to a registration, and every form that
\* waits has one request at the backend, whatever is given up or restarted.
THEOREM TypeCorrect == Spec => []TypeOK
<1>1. ServersInv => TypeOK
  BY AwaitInvImplies DEF ServersInv, Types, SnapInv, TypeOK
<1>2. QED
  BY <1>1, ServersInvHolds, PTL

\* A signed request is accepted once unless it is excused, and a code of the
\* authenticator opens one thing, whatever the backend's restarts forget.
THEOREM GateHoldsAlways == Spec => []GateHolds
<1>1. NonceInv => NoncesOnce
  BY DEF NonceInv, NonceKept, NoncesOnce
<1>2. ServersInv => GateHolds
  BY <1>1, OpenInvImplies DEF ServersInv, GateHolds
<1>3. QED
  BY <1>2, ServersInvHolds, PTL

\* Through a door where no two attempts were counted at a time, a window holds at
\* most the limit for each run of the backend that let an attempt in there.
THEOREM AttemptsBoundedAlways == Spec => []AttemptsBounded
<1>1. ServersInv => AttemptsBounded
  BY HitsInvImplies DEF ServersInv
<1>2. QED
  BY <1>1, ServersInvHolds, PTL

\* The files lead from the current snapshot back to every one that was current,
\* wherever a publication was killed, for any number of publishers and snapshots.
THEOREM HistoryIsAlwaysKept == Spec => []HistoryIsKept
<1>1. ServersInv => HistoryIsKept
  BY SnapInvImplies DEF ServersInv
<1>2. QED
  BY <1>1, ServersInvHolds, PTL

-----------------------------------------------------------------------------
(* The servers keep the promise of Grants *)

\* A code that is known was not redeemed, one that was not handed out neither;
\* a form that waits is of a client that is known; and the state file of "mcp"
\* has the clients it knows, unless writing or reading it failed.
PromiseInv ==
  /\ \A k \in Codes : tokens[k] = 0 \/ (k \in issued /\ k \notin DOMAIN codes)
  /\ \A f \in Forms : forms[f] \subseteq clients /\ (kind = "life" => forms[f] = {})
  /\ kind = "mcp" => troubled \/ saved = clients

\* A state in which nothing was done that the promise is about.
PromiseQuiet == UNCHANGED <<kind, clients, codes, saved, issued, tokens, boots, troubled, clock>>

LEMMA InitPromise == Init => PromiseInv /\ Promise!Init
<1> SUFFICES ASSUME Init
             PROVE  PromiseInv /\ Promise!Init
  OBVIOUS
<1>1. PromiseInv
  BY DEF Init, PromiseInv
<1>2. LiveCodes = [k \in {} |-> {}]
  BY DEF Init, LiveCodes, None
<1>3. QED
  BY <1>1, <1>2 DEF Init, Promise!Init

\* What is live, before a step and after it.
LEMMA LiveParts ==
  /\ DOMAIN LiveCodes = {k \in DOMAIN codes : codes[k].until >= clock}
  /\ \A k \in DOMAIN LiveCodes : LiveCodes[k] = codes[k].client
  /\ DOMAIN LiveCodes' = {k \in DOMAIN codes' : codes'[k].until >= clock'}
  /\ \A k \in DOMAIN LiveCodes' : LiveCodes'[k] = codes'[k].client
BY DEF LiveCodes

\* What a server reads of its file is what it wrote, unless that failed.
LEMMA ReadParts ==
  ASSUME NEW cs, NEW ks, ReadState(cs, ks)
  PROVE  \/ cs = clients /\ ks = codes /\ troubled' = troubled
         \/ cs = {} /\ ks = None /\ troubled'
BY DEF ReadState, Fault, NoFault

LEMMA StepPromise == ServersInv /\ PromiseInv /\ [Next]_vars =>
                       PromiseInv' /\ [Promise!Next]_(Promise!vars)
<1> SUFFICES ASSUME ServersInv, PromiseInv, [Next]_vars
             PROVE  PromiseInv' /\ [Promise!Next]_(Promise!vars)
  OBVIOUS
<1> USE DEF nonceVars, totpVars, gateVars, serverVars, Backend, Request
<1>0. /\ clock \in Nat /\ kind \in {"mcp", "life"} /\ told \subseteq Clients
      /\ clients \subseteq Clients /\ issued \subseteq Codes /\ DOMAIN codes \subseteq issued
      /\ codes \in [DOMAIN codes -> Grant] /\ boots \in Nat /\ troubled \in BOOLEAN
      /\ forms \in [Forms -> SUBSET Clients] /\ tokens \in [Codes -> Nat]
      /\ work \in [Threads -> Jobs(Forms)]
  BY DEF ServersInv, Types, GateTypesOK, ServerTypesOK
<1>w. \A t \in Threads : work[t] \in Jobs(Forms)
  BY <1>0
<1>u. \A k \in DOMAIN codes : codes[k].until \in Nat
  BY <1>0 DEF Grant
<1>q. ASSUME PromiseQuiet,
             \A f \in Forms : forms'[f] \subseteq forms[f] \/
                                (kind = "mcp" /\ forms'[f] \subseteq clients)
      PROVE  PromiseInv' /\ [Promise!Next]_(Promise!vars)
  <2>1. PromiseInv'
    BY <1>q DEF PromiseQuiet, PromiseInv
  <2>2. LiveCodes' = LiveCodes
    BY <1>q DEF PromiseQuiet, LiveCodes
  <2>3. QED
    BY <1>q, <2>1, <2>2 DEF PromiseQuiet, Promise!vars
<1>1. ASSUME NEW c \in Clients, Register(c)
      PROVE  PromiseInv' /\ Promise!Next
  <2>1. /\ UNCHANGED <<kind, forms, issued, tokens, boots, clock>>
        /\ clients' \subseteq clients \cup {c}
        /\ \/ clients \subseteq clients' /\ codes' = codes /\ troubled' = troubled
           \/ codes' \in {codes, None} /\ troubled'
        /\ kind = "mcp" => /\ clients \subseteq clients' /\ codes' = codes
                           /\ saved' = clients' \/ troubled'
    <3>1. CASE RegisterMcp(c)
      BY <1>1, <3>1 DEF Register, RegisterMcp, Fault, NoFault
    <3>2. CASE RegisterLife(c)
      <4>1. PICK cs \in SUBSET clients, ks \in {codes, None} :
              ReadState(cs, ks) /\ clients' = cs \cup {c} /\ codes' = ks
        BY <3>2 DEF RegisterLife
      <4>2. kind = "life"
        BY <3>2 DEF RegisterLife
      <4>3. QED
        BY <1>1, <4>1, <4>2, ReadParts DEF Register
    <3>3. QED
      BY <1>1, <3>1, <3>2 DEF Register
  <2>2. PromiseInv'
    <3>1. DOMAIN codes' \subseteq DOMAIN codes
      BY <2>1 DEF None
    <3>2. \A f \in Forms : forms[f] \subseteq clients'
      BY <1>0, <2>1 DEF PromiseInv
    <3>3. QED
      BY <2>1, <3>1, <3>2 DEF PromiseInv
  <2>3. DOMAIN LiveCodes' \subseteq DOMAIN LiveCodes /\ Promise!Lasting(DOMAIN LiveCodes)
    <3>1. CASE codes' = codes
      BY <2>1, <3>1, LiveParts DEF Promise!Lasting
    <3>2. CASE codes' = None /\ troubled'
      BY <2>1, <3>2, LiveParts DEF None, Promise!Lasting
    <3>3. QED
      BY <2>1, <3>1, <3>2
  <2>4. Promise!Register(c)
    BY <2>1, <2>3 DEF Promise!Register
  <2>5. QED
    BY <2>1, <2>2, <2>4 DEF Promise!Next, Promise!Remembered
\* A code that is handed out, by either server.
<1>2. ASSUME NEW k \in Fresh, NEW c \in clients, NEW ks \in {codes, None},
             codes' = With(ks, k, c), issued' = issued \cup {k},
             clients' \subseteq clients, UNCHANGED <<kind, saved, tokens, clock, boots>>,
             \/ ks = codes /\ clients' = clients /\ troubled' = troubled
             \/ kind = "life" /\ troubled',
             \A f \in Forms : forms'[f] \subseteq forms[f]
      PROVE  PromiseInv' /\ Promise!Next
  <2>1. k \in Codes /\ k \notin issued /\ k \notin DOMAIN codes /\ tokens[k] = 0 /\ c \in Clients
    BY <1>0 DEF Fresh, PromiseInv
  <2>2. DOMAIN ks \subseteq DOMAIN codes
    BY DEF None
  <2>3. /\ DOMAIN codes' = DOMAIN ks \cup {k}
        /\ codes'[k] = [client |-> c, until |-> clock + CodeLife]
        /\ \A j \in DOMAIN ks : codes'[j] = ks[j] /\ j # k
    BY <1>2, <2>1, <2>2 DEF With, Code
  <2>4. PromiseInv'
    <3>1. \A j \in Codes : tokens'[j] = 0 \/ (j \in issued' /\ j \notin DOMAIN codes')
      BY <1>2, <2>1, <2>2, <2>3 DEF PromiseInv
    <3>2. \A f \in Forms : forms'[f] \subseteq clients' /\ (kind = "life" => forms'[f] = {})
      BY <1>2 DEF PromiseInv
    <3>3. QED
      BY <1>0, <1>2, <3>1, <3>2 DEF PromiseInv
  <2>5. \A j \in DOMAIN ks : ks[j] = codes[j]
    BY DEF None
  <2>6. k \notin DOMAIN LiveCodes /\ DOMAIN LiveCodes' \subseteq DOMAIN LiveCodes \cup {k}
    BY <1>2, <2>1, <2>2, <2>3, <2>5, LiveParts
  <2>7. k \in DOMAIN LiveCodes' => LiveCodes'[k] = c
    BY <2>3, LiveParts
  <2>8. Promise!Lasting(DOMAIN LiveCodes)
    <3>1. CASE ks = codes
      <4>1. \A j \in DOMAIN LiveCodes : j \in DOMAIN LiveCodes' /\ LiveCodes'[j] = LiveCodes[j]
        BY <1>2, <2>3, <3>1, LiveParts
      <4>2. QED
        BY <4>1 DEF Promise!Lasting
    <3>2. CASE kind = "life"
      BY <3>2 DEF Promise!Lasting
    <3>3. QED
      BY <1>2, <3>1, <3>2
  <2>9. Promise!Grant(k, c)
    BY <1>2, <2>1, <2>6, <2>7, <2>8 DEF Promise!Grant
  <2>10. QED
    BY <1>2, <2>1, <2>4, <2>9 DEF Promise!Next, Promise!Remembered
<1>3. ASSUME NEW t \in Threads, Take(t)
      PROVE  /\ \A f \in Forms : forms'[f] \subseteq forms[f]
             /\ UNCHANGED <<kind, clients, saved, tokens, boots, troubled, clock>>
             /\ work[t].for \in Forms
  <2>1. work[t].for \in Forms
    BY <1>3, <1>w, JobParts DEF Take, At
  <2>2. QED
    BY <1>0, <1>3, <2>1 DEF Take
<1>4. ASSUME NEW t \in Threads, Consented(t)
      PROVE  PromiseInv' /\ Promise!Next
  <2>1. Take(t)
    BY <1>4 DEF Consented
  <2>2. PICK k \in Fresh, c \in forms[work[t].for] :
          codes' = With(codes, k, c) /\ issued' = issued \cup {k}
    BY <1>4 DEF Consented
  <2>3. c \in clients
    BY <1>3, <2>1, <2>2 DEF PromiseInv
  <2>4. QED
    BY <1>2, <1>3, <2>1, <2>2, <2>3
<1>5. ASSUME NEW c \in Clients, ConsentLife(c)
      PROVE  PromiseInv' /\ Promise!Next
  <2>1. PICK k \in Fresh, cs \in SUBSET clients, ks \in {codes, None} :
          /\ ReadState(cs, ks)
          /\ clients' = cs /\ codes' = With(ks, k, c) /\ issued' = issued \cup {k}
    BY <1>5 DEF ConsentLife
  <2>2. kind = "life" /\ c \in clients /\ UNCHANGED <<kind, saved, forms, tokens, clock, boots>>
    BY <1>5 DEF ConsentLife
  <2>3. QED
    BY <1>2, <2>1, <2>2, ReadParts
<1>6. ASSUME NEW k \in Codes, Redeem(k)
      PROVE  PromiseInv' /\ Promise!Next
  <2>0. UNCHANGED <<kind, saved, forms, issued, boots, clock>>
    BY <1>6 DEF Redeem
  <2>1. ASSUME k \in DOMAIN codes, codes' = Spent(k), UNCHANGED <<clients, troubled>>,
               \/ tokens' = tokens /\ kind = "life"
               \/ Alive(k) /\ tokens' = [tokens EXCEPT ![k] = @ + 1]
        PROVE  PromiseInv' /\ Promise!Next
    <3>1. /\ DOMAIN codes' = DOMAIN codes \ {k}
          /\ \A j \in DOMAIN codes' : codes'[j] = codes[j]
          /\ tokens[k] = 0 /\ k \in issued
      BY <1>0, <2>1 DEF Spent, Without, PromiseInv
    <3>2. /\ k \notin DOMAIN LiveCodes' /\ DOMAIN LiveCodes' \subseteq DOMAIN LiveCodes
          /\ \A j \in DOMAIN LiveCodes \ {k} :
               j \in DOMAIN LiveCodes' /\ LiveCodes'[j] = LiveCodes[j]
      BY <2>0, <3>1, LiveParts
    <3>3. PromiseInv'
      <4>1. \A j \in Codes : tokens'[j] = 0 \/ (j \in issued' /\ j \notin DOMAIN codes')
        BY <1>0, <2>0, <2>1, <3>1 DEF PromiseInv
      <4>2. QED
        BY <2>0, <2>1, <4>1 DEF PromiseInv
    <3>4. CASE tokens' = tokens /\ kind = "life"
      <4>1. Promise!Lose
        BY <2>1, <3>2, <3>4 DEF Promise!Lose, Promise!Lasting
      <4>2. QED
        BY <2>0, <2>1, <3>3, <4>1 DEF Promise!Next, Promise!Remembered
    <3>5. CASE Alive(k) /\ tokens' = [tokens EXCEPT ![k] = @ + 1]
      <4>1. k \in DOMAIN LiveCodes
        BY <3>5, LiveParts DEF Alive
      <4>2. tokens' = [tokens EXCEPT ![k] = 1]
        BY <1>0, <3>1, <3>5
      <4>3. Promise!Redeem(k)
        BY <2>1, <3>1, <3>2, <4>1, <4>2 DEF Promise!Redeem, Promise!Lasting
      <4>4. QED
        BY <2>0, <2>1, <3>3, <4>3 DEF Promise!Next, Promise!Remembered
    <3>6. QED
      BY <2>1, <3>4, <3>5
  <2>2. CASE RedeemMcp(k)
    BY <2>1, <2>2 DEF RedeemMcp, Alive, NoFault
  <2>3. CASE RedeemLife(k)
    <3>1. CASE /\ k \in DOMAIN codes /\ codes' = Spent(k) /\ NoFault /\ UNCHANGED clients
               /\ \/ tokens' = tokens
                  \/ Alive(k) /\ tokens' = [tokens EXCEPT ![k] = @ + 1]
      BY <2>1, <2>3, <3>1 DEF RedeemLife, NoFault
    <3>2. CASE clients' = {} /\ codes' = None /\ Fault /\ UNCHANGED tokens
      <4>1. troubled' /\ kind = "life"
        BY <2>3, <3>2 DEF RedeemLife, Fault
      <4>2. PromiseInv'
        BY <2>0, <3>2, <4>1 DEF PromiseInv, None
      <4>3. DOMAIN LiveCodes' = {}
        BY <3>2, LiveParts DEF None
      <4>4. Promise!Lose
        BY <3>2, <4>1, <4>3 DEF Promise!Lose, Promise!Lasting
      <4>5. QED
        BY <2>0, <4>1, <4>2, <4>4 DEF Promise!Next, Promise!Remembered
    <3>3. QED
      BY <2>3, <3>1, <3>2 DEF RedeemLife
  <2>4. QED
    BY <1>6, <2>2, <2>3 DEF Redeem
<1>7. ASSUME RestartServer
      PROVE  PromiseInv' /\ Promise!Next
  <2>1. /\ UNCHANGED <<kind, saved, issued, tokens, clock>> /\ boots' = boots + 1
        /\ forms' = [f \in Forms |-> {}]
        /\ codes' \in {codes, None}
        /\ \/ kind = "mcp" /\ clients' = saved /\ troubled' = troubled
           \/ kind = "mcp" /\ clients' = {} /\ troubled'
           \/ kind = "life" /\ UNCHANGED <<clients, codes, troubled>>
    BY <1>0, <1>7 DEF RestartServer
  <2>2. DOMAIN codes' \subseteq DOMAIN codes /\ \A k \in DOMAIN codes' : codes'[k] = codes[k]
    BY <2>1 DEF None
  <2>3. PromiseInv'
    BY <2>1, <2>2 DEF PromiseInv
  <2>4. <<clock, boots>>' # <<clock, boots>>
    BY <1>0, <2>1
  <2>5. DOMAIN LiveCodes' \subseteq DOMAIN LiveCodes
    BY <2>1, <2>2, LiveParts
  <2>6. /\ clients' \subseteq clients \/ troubled
        /\ clients \subseteq clients' \/ troubled'
        /\ troubled => troubled'
    BY <2>1 DEF PromiseInv
  <2>7. Promise!Lose
    BY <2>1, <2>4, <2>5, <2>6 DEF Promise!Lose, Promise!Lasting
  <2>8. QED
    BY <2>1, <2>3, <2>6, <2>7 DEF Promise!Next, Promise!Remembered
<1>8. ASSUME Tick
      PROVE  PromiseInv' /\ Promise!Next
  <2>1. UNCHANGED serverVars /\ clock' = clock + 1
    BY <1>8 DEF Tick
  <2>2. PromiseInv'
    BY <2>1 DEF PromiseInv
  <2>3. <<clock, boots>>' # <<clock, boots>>
    BY <1>0, <2>1
  <2>4. DOMAIN LiveCodes' \subseteq DOMAIN LiveCodes
    BY <1>0, <1>u, <2>1, LiveParts
  <2>5. Promise!Lose
    BY <2>1, <2>3, <2>4 DEF Promise!Lose, Promise!Lasting
  <2>6. QED
    BY <2>1, <2>2, <2>5 DEF Promise!Next, Promise!Remembered
<1>9. ASSUME NEW t \in Threads, NEW f \in Forms, NEW c \in Clients, AskConsent(t, f, c)
      PROVE  PromiseInv' /\ [Promise!Next]_(Promise!vars)
  <2>1. PromiseQuiet
    BY <1>9 DEF AskConsent, AskVerify, Ask, PromiseQuiet
  <2>2. \A g \in Forms : forms'[g] \subseteq forms[g] \/
                            (kind = "mcp" /\ forms'[g] \subseteq clients)
    BY <1>0, <1>9 DEF AskConsent
  <2>3. QED
    BY <1>q, <2>1, <2>2
<1>10. ASSUME NEW t \in Threads, NotConsented(t)
       PROVE  PromiseInv' /\ [Promise!Next]_(Promise!vars)
  <2>1. Take(t) /\ UNCHANGED <<codes, issued>>
    BY <1>10 DEF NotConsented
  <2>2. PromiseQuiet
    BY <1>3, <2>1 DEF PromiseQuiet
  <2>3. QED
    BY <1>3, <1>q, <2>1, <2>2
<1>11. ASSUME NEW f \in Forms, GiveUp(f)
       PROVE  PromiseInv' /\ [Promise!Next]_(Promise!vars)
  <2>1. PromiseQuiet
    BY <1>11 DEF GiveUp, PromiseQuiet
  <2>2. \A g \in Forms : forms'[g] \subseteq forms[g]
    BY <1>0, <1>11 DEF GiveUp
  <2>3. QED
    BY <1>q, <2>1, <2>2
<1>12. ASSUME UNCHANGED serverVars, clock' = clock
       PROVE  PromiseInv' /\ [Promise!Next]_(Promise!vars)
  BY <1>12, <1>q DEF PromiseQuiet
<1>13. ASSUME (\E t \in Threads : GateStep(t)) \/ RestartBackend
       PROVE  clock' = clock
  BY <1>13 DEF GateStep, RestartBackend, Arrive, BadSignature, StoreNonce, Sweep, SweepFails,
               AskUnlock, AskCodeOnly, AskInspect, Ask, CountHit, CheckFails, CheckCode
<1>14. CASE ServerStep
  BY <1>1, <1>4, <1>5, <1>6, <1>7, <1>8, <1>9, <1>10, <1>11, <1>12, <1>13, <1>14
     DEF ServerStep
<1>15. CASE PublishStep
  BY <1>12, <1>15 DEF PublishStep
<1>16. CASE UNCHANGED vars
  BY <1>12, <1>16 DEF vars
<1>17. QED
  BY <1>14, <1>15, <1>16 DEF Next

\* Both servers implement Grants: every step of theirs is a step of the promise or
\* none, for any number of clients, codes, forms and faults.
THEOREM ServersKeepPromise == Spec => KeepsPromise
<1>1. Init => PromiseInv /\ Promise!Init
  BY InitPromise
<1>2. ServersInv /\ PromiseInv /\ [Next]_vars => PromiseInv' /\ [Promise!Next]_(Promise!vars)
  BY StepPromise
<1>3. QED
  BY <1>1, <1>2, ServersInvHolds, PTL DEF Spec, KeepsPromise, Promise!Spec

=============================================================================
