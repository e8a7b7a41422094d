------------------------- MODULE SharedProjectsProofs -------------------------
(***************************************************************************)
(* What holds of agents, companion profiles and shared projects together   *)
(* (AgentEnrollment, CompanionProfiles, SharedProjects), for every number  *)
(* of threads, principals, profiles, projects, requests and faults.        *)
(*                                                                         *)
(* A step is one thread's, or of no thread, or an interruption.  First the *)
(* jobs of the threads, then the registrations, which only an offline      *)
(* migration moves, then the types; each later property has an invariant   *)
(* of its own about the threads that are inside its gap.                   *)
(***************************************************************************)
EXTENDS SharedProjects, FiniteSetTheorems, TLAPS

USE AccessAssumption, ProfilesAssumption, ProjectsAssumption

-----------------------------------------------------------------------------
(* What a thread is doing *)

\* Stages, by what a request carries while it is at one of them.
EnrollStages  == {"key", "credential", "admit", "consume"}
ProfileStages == (Creating \ {"grant"}) \cup Deleting
PlainStages   == {"ask", "depart", "look back", "notify", "drop"}
AskStages     == {"activate", "enter", "reject", "settle", "look"}

Invited   == [at : {"principal"}, invite : Invites, key : Keys]
Enrolling == [at : EnrollStages, invite : Invites, key : Keys, who : Principals]
Handled   == [at : ProfileStages, who : Principals, profile : Profiles]
Granting  == [at : {"grant"}, who : Principals, profile : Profiles, life : 0 .. lives,
              n : DOMAIN OwnerOps]
Issuing   == UNION {[at : {"issue"}, lives : [ps -> 0 .. lives]] : ps \in SUBSET Profiles}
Moving    == [at : Offline, old : Profiles, new : Profiles]
Plain     == [at : PlainStages, project : Projects, profile : Profiles]
Asked     == [at : AskStages, project : Projects, profile : Profiles, ask : Asks]

Jobs == {Nothing} \cup Invited \cup Enrolling \cup Handled \cup Granting \cup Issuing
        \cup Moving \cup Plain \cup Asked

LEMMA JobsAre == Jobs = {Nothing} \cup EnrollJobs \cup ProfileJobs \cup ProjectJobs
<1>1. EnrollJobs = Invited \cup Enrolling
  BY DEF EnrollJobs, Invited, Enrolling, EnrollStages
<1>2. ProfileJobs = Handled \cup Granting \cup Moving \cup Issuing
  BY DEF ProfileJobs, Handled, Granting, Issuing, Moving, ProfileStages
<1>3. ProjectJobs = Plain \cup Asked
  BY DEF ProjectJobs, Plain, Asked, PlainStages, AskStages
<1>4. QED
  BY <1>1, <1>2, <1>3 DEF Jobs

\* The stage tells the kind.
LEMMA KindStage ==
  ASSUME NEW j
  PROVE  /\ j \in Invited => j.at = "principal"
         /\ j \in Enrolling => j.at \in EnrollStages
         /\ j \in Handled => j.at \in ProfileStages
         /\ j \in Granting => j.at = "grant"
         /\ j \in Issuing => j.at = "issue"
         /\ j \in Moving => j.at \in Offline
         /\ j \in Plain => j.at \in PlainStages
         /\ j \in Asked => j.at \in AskStages
         /\ Nothing.at = "idle"
BY DEF Invited, Enrolling, Handled, Granting, Issuing, Moving, Plain, Asked, Nothing

LEMMA StageKind ==
  ASSUME NEW j \in Jobs
  PROVE  /\ j.at = "idle" => j = Nothing
         /\ j.at = "principal" => j \in Invited
         /\ j.at \in EnrollStages => j \in Enrolling
         /\ j.at \in ProfileStages => j \in Handled
         /\ j.at = "grant" => j \in Granting
         /\ j.at = "issue" => j \in Issuing
         /\ j.at \in Offline => j \in Moving
         /\ j.at \in PlainStages => j \in Plain
         /\ j.at \in AskStages => j \in Asked
BY KindStage
   DEF Jobs, EnrollStages, ProfileStages, Creating, Deleting, PlainStages, AskStages, Offline

\* What is carried.
LEMMA Carries ==
  ASSUME NEW j
  PROVE  /\ j \in Invited => j.invite \in Invites /\ j.key \in Keys
         /\ j \in Enrolling => j.invite \in Invites /\ j.key \in Keys /\ j.who \in Principals
         /\ j \in Handled => j.who \in Principals /\ j.profile \in Profiles
         /\ j \in Granting => /\ j.who \in Principals /\ j.profile \in Profiles
                              /\ j.life \in 0 .. lives /\ j.n \in DOMAIN OwnerOps
         /\ j \in Moving => j.old \in Profiles /\ j.new \in Profiles
         /\ j \in Plain => j.project \in Projects /\ j.profile \in Profiles
         /\ j \in Asked => j.project \in Projects /\ j.profile \in Profiles /\ j.ask \in Asks
BY DEF Invited, Enrolling, Handled, Granting, Moving, Plain, Asked

LEMMA CarriesLives ==
  ASSUME NEW j \in Issuing
  PROVE  DOMAIN j.lives \subseteq Profiles /\ j.lives \in [DOMAIN j.lives -> 0 .. lives]
BY DEF Issuing

\* Going on to another stage of the same kind.
LEMMA StageMoves ==
  ASSUME NEW j, NEW s
  PROVE  /\ j \in Enrolling /\ s \in EnrollStages => [j EXCEPT !.at = s] \in Enrolling
         /\ j \in Handled /\ s \in ProfileStages => [j EXCEPT !.at = s] \in Handled
         /\ j \in Plain /\ s \in PlainStages => [j EXCEPT !.at = s] \in Plain
         /\ j \in Asked /\ s \in AskStages => [j EXCEPT !.at = s] \in Asked
         /\ j \in Enrolling \cup Handled \cup Plain \cup Asked =>
              [j EXCEPT !.at = s].at = s
BY DEF Enrolling, Handled, Plain, Asked
LEMMA StageMovesKeeps ==
  ASSUME NEW j, NEW s
  PROVE  /\ j \in Handled => /\ [j EXCEPT !.at = s].profile = j.profile
                             /\ [j EXCEPT !.at = s].who = j.who
         /\ j \in Plain \cup Asked => [j EXCEPT !.at = s].project = j.project
BY DEF Enrolling, Handled, Plain, Asked

-----------------------------------------------------------------------------
(* Steps of a thread *)

JobsOK == job \in [Threads -> Jobs]

Alone(t) == \A u \in Threads \ {t} : job'[u] = job[u]

LEMMA PutJob ==
  ASSUME JobsOK, NEW t \in Threads, NEW j \in Jobs, Move(t, j)
  PROVE  job' \in [Threads -> Jobs] /\ job'[t] = j /\ Alone(t)
BY DEF JobsOK, Move, Alone

LEMMA DoneJob ==
  ASSUME JobsOK, NEW t \in Threads, Done(t)
  PROVE  job' \in [Threads -> Jobs] /\ job'[t] = Nothing /\ Alone(t)
BY PutJob DEF Done, Jobs

LEMMA BeginJob ==
  ASSUME JobsOK, NEW t \in Threads, NEW j \in Jobs, Begin(t, j)
  PROVE  /\ job' \in [Threads -> Jobs] /\ job'[t] = j /\ Alone(t)
         /\ job[t] = Nothing
         /\ \A u \in Threads : job[u].at \notin Offline
         /\ reqs' = reqs + 1 /\ UNCHANGED faults
BY PutJob DEF Begin, Idle

\* A migration runs alone, from a profile to an id that is free.
MovesAlone ==
  \A t \in Threads : Migrating(t) =>
    /\ job[t].old # job[t].new /\ Present(job[t].old) /\ ~Present(job[t].new)
    /\ \A u \in Threads \ {t} : Idle(u)

\* A life belongs to one id.
OneIdEach == \A p, q \in Profiles : row[p] = row[q] /\ Present(p) => p = q

\* What a step can do to the registrations.
RowAdded(p)   == row[p] = 0 /\ lives' = lives + 1 /\ row' = [row EXCEPT ![p] = lives + 1]
RowErased(p)  == lives' = lives /\ row' = [row EXCEPT ![p] = 0]
RowMoved(t)   ==
  /\ Migrating(t) /\ lives' = lives
  /\ row' = [row EXCEPT ![job[t].new] = row[job[t].old], ![job[t].old] = 0]

RowStep ==
  \/ row' = row /\ lives' = lives
  \/ \E p \in Profiles : RowAdded(p) \/ RowErased(p)
  \/ \E t \in Threads : RowMoved(t)

LEMMA JobsInKind ==
  ASSUME JobsOK, NEW t \in Threads
  PROVE  /\ job[t] \in Jobs
         /\ Migrating(t) => job[t].old \in Profiles /\ job[t].new \in Profiles
BY StageKind, Carries DEF JobsOK, Migrating

LEMMA RowsKept ==
  ASSUME JobsOK, MovesAlone, OneIdEach, RowStep, lives \in Nat, row \in [Profiles -> 0 .. lives]
  PROVE  /\ lives' \in Nat /\ lives <= lives' /\ row' \in [Profiles -> 0 .. lives']
         /\ OneIdEach'
<1>1. CASE row' = row /\ lives' = lives
  BY <1>1 DEF OneIdEach, Present
<1>2. ASSUME NEW p \in Profiles, RowAdded(p)
      PROVE  /\ lives' \in Nat /\ lives <= lives' /\ row' \in [Profiles -> 0 .. lives']
             /\ OneIdEach'
  BY <1>2 DEF OneIdEach, Present, RowAdded
<1>3. ASSUME NEW p \in Profiles, RowErased(p)
      PROVE  /\ lives' \in Nat /\ lives <= lives' /\ row' \in [Profiles -> 0 .. lives']
             /\ OneIdEach'
  BY <1>3 DEF OneIdEach, Present, RowErased
<1>4. ASSUME NEW t \in Threads, RowMoved(t)
      PROVE  /\ lives' \in Nat /\ lives <= lives' /\ row' \in [Profiles -> 0 .. lives']
             /\ OneIdEach'
  <2>1. PICK old \in Profiles : old = job[t].old
    BY <1>4, JobsInKind DEF RowMoved
  <2>2. PICK new \in Profiles : new = job[t].new
    BY <1>4, JobsInKind DEF RowMoved
  <2>3. row' = [row EXCEPT ![new] = row[old], ![old] = 0] /\ lives' = lives
    BY <1>4, <2>1, <2>2 DEF RowMoved
  <2>4. old # new /\ row[new] = 0
    BY <1>4, <2>1, <2>2 DEF RowMoved, MovesAlone, Present
  <2>5. \A p \in Profiles :
          row'[p] = IF p = old THEN 0 ELSE IF p = new THEN row[old] ELSE row[p]
    BY <2>3
  <2>a. row' = [p \in Profiles |-> row'[p]]
    BY <2>3
  <2>b. \A p \in Profiles : row[p] \in 0 .. lives /\ 0 \in 0 .. lives
    OBVIOUS
  <2>6. row' = [p \in Profiles |-> row'[p]] /\ \A p \in Profiles : row'[p] \in 0 .. lives
    BY <2>a, <2>5, <2>b
  <2>7. OneIdEach'
    BY <2>4, <2>5 DEF OneIdEach, Present
  <2> HIDE DEF OneIdEach
  <2>8. row' \in [Profiles -> 0 .. lives]
    BY <2>6
  <2>9. QED
    BY <2>3, <2>7, <2>8
<1>5. QED
  BY <1>1, <1>2, <1>3, <1>4 DEF RowStep

\* A life that is still registered is where the foreign keys follow it.
LEMMA Followed ==
  ASSUME JobsOK, MovesAlone, OneIdEach, RowStep, lives \in Nat, row \in [Profiles -> 0 .. lives],
         NEW p \in Profiles, Present(p), NEW q \in Profiles, row'[q] = row[p],
         ~\E t \in Threads : Migrating(t) /\ job[t].old = p
  PROVE  row'[p] = row[p]
<1>1. ASSUME NEW r \in Profiles, RowAdded(r)
      PROVE  row'[p] = row[p]
  BY <1>1 DEF OneIdEach, Present, RowAdded
<1>2. ASSUME NEW r \in Profiles, RowErased(r)
      PROVE  row'[p] = row[p]
  BY <1>2 DEF OneIdEach, Present, RowErased
<1>3. ASSUME NEW t \in Threads, RowMoved(t)
      PROVE  row'[p] = row[p]
  <2>1. PICK old \in Profiles : old = job[t].old
    BY <1>3, JobsInKind DEF RowMoved
  <2>2. PICK new \in Profiles : new = job[t].new
    BY <1>3, JobsInKind DEF RowMoved
  <2>3. row' = [row EXCEPT ![new] = row[old], ![old] = 0] /\ lives' = lives
    BY <1>3, <2>1, <2>2 DEF RowMoved
  <2>4. old # new /\ row[new] = 0 /\ p # old
    BY <1>3, <2>1, <2>2 DEF RowMoved, MovesAlone, Present
  <2>5. QED
    BY <2>3, <2>4 DEF Present
<1>4. QED
  BY <1>1, <1>2, <1>3 DEF RowStep

LEMMA CascadeTypes ==
  ASSUME JobsOK, MovesAlone, OneIdEach, RowStep, lives \in Nat, row \in [Profiles -> 0 .. lives],
         creator \in [Projects -> Profiles],
         members \in [Projects -> SUBSET {p \in Profiles : Present(p)}],
         asks \subseteq Asks, Cascade
  PROVE  /\ creator' \in [Projects -> Profiles]
         /\ members' \in [Projects -> SUBSET {p \in Profiles : row'[p] # 0}]
         /\ asks' \subseteq Asks
         /\ \A x \in Projects : members[x] = {} => members'[x] = {}
<1> DEFINE now(p) == IF \E t \in Threads : Migrating(t) /\ job[t].old = p
                     THEN CHOOSE q \in Profiles : row'[q] = row[p] ELSE p
           kept(p) == \E q \in Profiles : row'[q] = row[p]
           named(a) == IF kept(a[3]) /\ ~(/\ a[1] = "join"
                                          /\ \E t \in Threads : At(t, "rewrite by script"))
                       THEN now(a[3]) ELSE a[3]
           left(x) == {now(p) : p \in {q \in members[x] : kept(q)}}
<1>1. CASE row' = row
  <2>1. UNCHANGED <<proj, creator, members, noted, asks>>
    BY <1>1 DEF Cascade
  <2>2. QED
    BY <1>1, <2>1 DEF Present
<1>2. CASE row' # row
  <2>1. /\ members' = [x \in Projects |-> left(x)]
        /\ creator' = [x \in Projects |-> IF kept(creator[x]) THEN now(creator[x])
                                          ELSE creator[x]]
        /\ asks' = {<<a[1], a[2], named(a)>> : a \in asks}
    BY <1>2 DEF Cascade
  <2>2. ASSUME NEW p \in Profiles, kept(p)
        PROVE  now(p) \in Profiles
    BY <2>2
  <2>3. ASSUME NEW p \in Profiles, kept(p), Present(p)
        PROVE  now(p) \in Profiles /\ row'[now(p)] # 0
    <3>1. CASE \E t \in Threads : Migrating(t) /\ job[t].old = p
      <4>1. row'[now(p)] = row[p]
        BY <2>3, <3>1
      <4>2. QED
        BY <2>2, <2>3, <4>1 DEF Present
    <3>2. CASE ~\E t \in Threads : Migrating(t) /\ job[t].old = p
      <4>1. PICK q \in Profiles : row'[q] = row[p]
        BY <2>3
      <4>2. row'[p] = row[p]
        BY <2>3, <3>2, <4>1, Followed
      <4>3. QED
        BY <2>3, <3>2, <4>2 DEF Present
    <3>3. QED
      BY <3>1, <3>2
  <2>4. ASSUME NEW a \in asks
        PROVE  <<a[1], a[2], named(a)>> \in Asks
    <3>1. a[1] \in {"create", "join"} /\ a[2] \in Projects /\ a[3] \in Profiles
      BY DEF Asks
    <3>2. named(a) \in Profiles
      BY <2>2, <3>1
    <3> HIDE DEF named
    <3>3. QED
      BY <3>1, <3>2 DEF Asks
  <2> HIDE DEF now, named
  <2>5. creator' \in [Projects -> Profiles]
    BY <2>1, <2>2
  <2>6. ASSUME NEW x \in Projects
        PROVE  /\ members'[x] \subseteq {p \in Profiles : row'[p] # 0}
               /\ members[x] = {} => members'[x] = {}
    BY <2>1, <2>3
  <2>7. members' \in [Projects -> SUBSET {p \in Profiles : row'[p] # 0}]
    <3>1. members' = [x \in Projects |-> members'[x]]
      BY <2>1
    <3>2. QED
      BY <2>6, <3>1
  <2>8. asks' \subseteq Asks
    BY <2>1, <2>4
  <2>9. QED
    BY <2>5, <2>6, <2>7, <2>8
<1>3. QED
  BY <1>1, <1>2

\* A thread goes on to another stage with what it carries.
Moved(t, s) ==
  /\ job'[t].at = s /\ Alone(t) /\ job' \in [Threads -> Jobs]
  /\ job[t].at \in ProfileStages => job'[t].profile = job[t].profile /\ job'[t].who = job[t].who
  /\ job[t].at \in PlainStages \cup AskStages => job'[t].project = job[t].project

LEMMA MoveOn ==
  ASSUME JobsOK, NEW t \in Threads, NEW s, Move(t, [job[t] EXCEPT !.at = s]),
         \/ job[t].at \in EnrollStages /\ s \in EnrollStages
         \/ job[t].at \in ProfileStages /\ s \in ProfileStages
         \/ job[t].at \in PlainStages /\ s \in PlainStages
         \/ job[t].at \in AskStages /\ s \in AskStages
  PROVE  Moved(t, s)
<1> DEFINE j == [job[t] EXCEPT !.at = s]
<1>0. job[t] \in Jobs
  BY DEF JobsOK
<1>1. /\ job[t].at \in EnrollStages => job[t] \in Enrolling
      /\ job[t].at \in ProfileStages => job[t] \in Handled
      /\ job[t].at \in PlainStages => job[t] \in Plain
      /\ job[t].at \in AskStages => job[t] \in Asked
  BY <1>0, StageKind
<1>2. j \in Enrolling \cup Handled \cup Plain \cup Asked /\ j.at = s
  BY <1>1, StageMoves
<1>3. /\ job[t].at \in ProfileStages => j.profile = job[t].profile /\ j.who = job[t].who
      /\ job[t].at \in PlainStages \cup AskStages => j.project = job[t].project
  BY <1>1, StageMovesKeeps
<1>4. Move(t, j)
  OBVIOUS
<1> HIDE DEF j
<1>5. j \in Jobs
  BY <1>2 DEF Jobs
<1>6. job' \in [Threads -> Jobs] /\ job'[t] = j /\ Alone(t)
  BY <1>4, <1>5, PutJob
<1>7. QED
  BY <1>2, <1>3, <1>6 DEF Moved

\* A request is over.
Ended(t) == job'[t] = Nothing /\ Alone(t) /\ job' \in [Threads -> Jobs]

LEMMA EndsIt ==
  ASSUME JobsOK, NEW t \in Threads, Done(t)
  PROVE  Ended(t) /\ job'[t].at = "idle"
BY DoneJob, KindStage DEF Ended

\* A request begins.
Begun(t) ==
  /\ job[t] = Nothing /\ job[t].at = "idle"
  /\ \A u \in Threads : job[u].at \notin Offline
  /\ Alone(t) /\ job' \in [Threads -> Jobs] /\ job'[t] \in Jobs

LEMMA BeginsIt ==
  ASSUME JobsOK, NEW t \in Threads, NEW j \in Jobs, Begin(t, j)
  PROVE  Begun(t) /\ job'[t] = j
BY BeginJob, KindStage DEF Begun

-----------------------------------------------------------------------------
(* Where each step takes its thread *)

LEMMA EnrollMoves ==
  ASSUME JobsOK, NEW t \in Threads
  PROVE  /\ \A i \in Invites, k \in Keys : AskEnroll(t, i, k) =>
              Begun(t) /\ job'[t].at = "principal"
         /\ CreatePrincipal(t) =>
              /\ job[t].at = "principal" /\ job'[t].at = "key" /\ Alone(t)
              /\ job' \in [Threads -> Jobs] /\ job'[t].invite = job[t].invite
              /\ job'[t].who \in Principals \ principals
              /\ principals' = principals \cup {job'[t].who}
         /\ CheckKey(t) => job[t].at = "key" /\ (Moved(t, "credential") \/ Ended(t))
         /\ AddKey(t) => job[t].at = "credential" /\ Moved(t, "admit")
         /\ GrantCreate(t) => job[t].at = "admit" /\ Moved(t, "consume")
         /\ ConsumeInvite(t) => job[t].at = "consume" /\ Ended(t)
<1>0. job[t] \in Jobs
  BY DEF JobsOK
<1>1. ASSUME NEW i \in Invites, NEW k \in Keys, AskEnroll(t, i, k)
      PROVE  Begun(t) /\ job'[t].at = "principal"
  <2> DEFINE j == [at |-> "principal", invite |-> i, key |-> k]
  <2>1. j \in Invited /\ Begin(t, j)
    BY <1>1 DEF AskEnroll, Invited
  <2> HIDE DEF j
  <2>2. j \in Jobs /\ j.at = "principal"
    BY <2>1, KindStage DEF Jobs
  <2>3. QED
    BY <2>1, <2>2, BeginsIt
<1>2. ASSUME CreatePrincipal(t)
      PROVE  /\ job[t].at = "principal" /\ job'[t].at = "key" /\ Alone(t)
             /\ job' \in [Threads -> Jobs] /\ job'[t].invite = job[t].invite
             /\ job'[t].who \in Principals \ principals
             /\ principals' = principals \cup {job'[t].who}
  <2>1. job[t].at = "principal"
    BY <1>2 DEF CreatePrincipal, At
  <2>2. job[t].invite \in Invites /\ job[t].key \in Keys
    BY <1>0, <2>1, StageKind, Carries
  <2>3. PICK pr \in Principals \ principals :
          /\ principals' = principals \cup {pr}
          /\ Move(t, [at |-> "key", invite |-> job[t].invite, key |-> job[t].key, who |-> pr])
    BY <1>2 DEF CreatePrincipal
  <2>4. PICK j : j = [at |-> "key", invite |-> job[t].invite, key |-> job[t].key, who |-> pr]
    OBVIOUS
  <2>5. j \in Enrolling /\ j.at = "key" /\ j.who = pr /\ j.invite = job[t].invite
    BY <2>2, <2>4 DEF Enrolling, EnrollStages
  <2>6. j \in Jobs /\ Move(t, j)
    BY <2>3, <2>4, <2>5 DEF Jobs
  <2>7. job' \in [Threads -> Jobs] /\ job'[t] = j /\ Alone(t)
    BY <2>6, PutJob
  <2>8. QED
    BY <2>1, <2>3, <2>5, <2>7
<1>3. CheckKey(t) => job[t].at = "key" /\ (Moved(t, "credential") \/ Ended(t))
  BY MoveOn, EndsIt DEF CheckKey, At, EnrollStages
<1>4. AddKey(t) => job[t].at = "credential" /\ Moved(t, "admit")
  BY MoveOn DEF AddKey, At, EnrollStages
<1>5. GrantCreate(t) => job[t].at = "admit" /\ Moved(t, "consume")
  BY MoveOn DEF GrantCreate, At, EnrollStages
<1>6. ConsumeInvite(t) => job[t].at = "consume" /\ Ended(t)
  BY EndsIt DEF ConsumeInvite, At
<1>7. QED
  BY <1>1, <1>2, <1>3, <1>4, <1>5, <1>6

LEMMA ProfileMoves ==
  ASSUME JobsOK, NEW t \in Threads, row \in [Profiles -> 0 .. lives]
  PROVE  /\ \A p \in Profiles :
              /\ \A pr \in Principals : AskCreate(t, pr, p) =>
                   /\ Begun(t) /\ job'[t].at = "insert" /\ job'[t].who = pr
                   /\ job'[t].profile = p
              /\ AskCreateTotp(t, p) =>
                   /\ Admin \in Principals
                   /\ Begun(t) /\ job'[t].at = "insert" /\ job'[t].who = Admin
                   /\ job'[t].profile = p
              /\ AskDelete(t, p) =>
                   Begun(t) /\ job'[t].at = "wipe" /\ job'[t].profile = p
         /\ InsertProfile(t) => job[t].at = "insert" /\ (Moved(t, "files") \/ Ended(t))
         /\ MakeFiles(t) => job[t].at = "files" /\ Moved(t, "rest")
         /\ WriteFiles(t) =>
              /\ job[t].at = "rest"
              /\ \/ job[t].who = Admin /\ Ended(t)
                 \/ /\ job[t].who # Admin /\ Alone(t) /\ job' \in [Threads -> Jobs]
                    /\ job'[t].at = "grant" /\ job'[t].who = job[t].who
                    /\ job'[t].profile = job[t].profile
                    /\ job'[t].life = row[job[t].profile] /\ job'[t].n = 1
         /\ FilesFail(t) => job[t].at \in {"files", "rest"} /\ Moved(t, "unregister")
         /\ Unregister(t) => job[t].at = "unregister" /\ (Moved(t, "discard") \/ Ended(t))
         /\ Discard(t) => job[t].at = "discard" /\ Ended(t)
         /\ GrantOwner(t) =>
              /\ job[t].at = "grant"
              /\ \/ Ended(t) /\ job[t].n = Len(OwnerOps)
                 \/ /\ Alone(t) /\ job' \in [Threads -> Jobs] /\ job[t].n < Len(OwnerOps)
                    /\ job'[t].at = "grant" /\ job'[t].who = job[t].who
                    /\ job'[t].profile = job[t].profile
                    /\ job'[t].life = job[t].life /\ job'[t].n = job[t].n + 1
         /\ WipeData(t) => job[t].at = "wipe" /\ Moved(t, "erase")
         /\ EraseRow(t) => job[t].at = "erase" /\ (Moved(t, "unlink") \/ Ended(t))
         /\ RemoveFiles(t) => job[t].at = "unlink" /\ Moved(t, "revoke")
         /\ RevokeAll(t) => job[t].at = "revoke" /\ Ended(t)
<1>0. job[t] \in Jobs
  BY DEF JobsOK
<1>1. ASSUME NEW p \in Profiles, NEW w \in Principals, NEW s \in ProfileStages,
             Begin(t, [at |-> s, who |-> w, profile |-> p])
      PROVE  Begun(t) /\ job'[t].at = s /\ job'[t].who = w /\ job'[t].profile = p
  <2>1. PICK j : j = [at |-> s, who |-> w, profile |-> p]
    OBVIOUS
  <2>2. j \in Handled /\ j.at = s /\ j.who = w /\ j.profile = p /\ Begin(t, j)
    BY <1>1, <2>1 DEF Handled
  <2>3. j \in Jobs
    BY <2>2 DEF Jobs
  <2>4. QED
    BY <2>2, <2>3, BeginsIt
<1>2. {"insert", "files", "rest", "unregister", "discard", "wipe", "erase", "unlink", "revoke"}
        = ProfileStages
  BY DEF ProfileStages, Creating, Deleting
<1>3. ASSUME NEW p \in Profiles
      PROVE  /\ \A pr \in Principals : AskCreate(t, pr, p) =>
                   /\ Begun(t) /\ job'[t].at = "insert" /\ job'[t].who = pr
                   /\ job'[t].profile = p
             /\ AskCreateTotp(t, p) =>
                   /\ Admin \in Principals
                   /\ Begun(t) /\ job'[t].at = "insert" /\ job'[t].who = Admin
                   /\ job'[t].profile = p
             /\ AskDelete(t, p) =>
                   Begun(t) /\ job'[t].at = "wipe" /\ job'[t].profile = p
  BY <1>1, <1>2 DEF AskCreate, AskCreateTotp, AskDelete
<1>4. /\ InsertProfile(t) => job[t].at = "insert" /\ (Moved(t, "files") \/ Ended(t))
      /\ MakeFiles(t) => job[t].at = "files" /\ Moved(t, "rest")
      /\ FilesFail(t) => job[t].at \in {"files", "rest"} /\ Moved(t, "unregister")
  BY <1>2, MoveOn, EndsIt DEF InsertProfile, MakeFiles, FilesFail, At
<1>5. /\ Unregister(t) => job[t].at = "unregister" /\ (Moved(t, "discard") \/ Ended(t))
      /\ Discard(t) => job[t].at = "discard" /\ Ended(t)
      /\ WipeData(t) => job[t].at = "wipe" /\ Moved(t, "erase")
  BY <1>2, MoveOn, EndsIt DEF Unregister, Discard, WipeData, At
<1>6. /\ EraseRow(t) => job[t].at = "erase" /\ (Moved(t, "unlink") \/ Ended(t))
      /\ RemoveFiles(t) => job[t].at = "unlink" /\ Moved(t, "revoke")
      /\ RevokeAll(t) => job[t].at = "revoke" /\ Ended(t)
  BY <1>2, MoveOn, EndsIt DEF EraseRow, RemoveFiles, RevokeAll, At
<1>7. ASSUME WriteFiles(t)
      PROVE  /\ job[t].at = "rest"
             /\ \/ job[t].who = Admin /\ Ended(t)
                \/ /\ job[t].who # Admin /\ Alone(t) /\ job' \in [Threads -> Jobs]
                   /\ job'[t].at = "grant" /\ job'[t].who = job[t].who
                   /\ job'[t].profile = job[t].profile
                   /\ job'[t].life = row[job[t].profile] /\ job'[t].n = 1
  <2>1. job[t].at = "rest"
    BY <1>7 DEF WriteFiles, At
  <2>2. job[t].who \in Principals /\ job[t].profile \in Profiles
    BY <1>0, <1>2, <2>1, StageKind, Carries
  <2>3. CASE job[t].who = Admin
    BY <1>7, <2>1, <2>3, EndsIt DEF WriteFiles
  <2>4. CASE job[t].who # Admin
    <3>1. PICK p \in Profiles : p = job[t].profile
      BY <2>2
    <3>2. PICK w \in Principals : w = job[t].who
      BY <2>2
    <3>3. PICK l \in 0 .. lives : l = row[p]
      OBVIOUS
    <3>4. PICK j : j = [at |-> "grant", who |-> w, profile |-> p, life |-> l, n |-> 1]
      OBVIOUS
    <3>5. Move(t, j)
      BY <1>7, <2>4, <3>1, <3>2, <3>3, <3>4 DEF WriteFiles
    <3>6. 1 \in DOMAIN OwnerOps
      OBVIOUS
    <3>7. /\ j \in Granting /\ j.at = "grant" /\ j.who = w /\ j.profile = p /\ j.life = l
          /\ j.n = 1
      BY <3>4, <3>6 DEF Granting
    <3>8. j \in Jobs
      BY <3>7 DEF Jobs
    <3>9. job' \in [Threads -> Jobs] /\ job'[t] = j /\ Alone(t)
      BY <3>5, <3>8, PutJob
    <3>10. QED
      BY <2>1, <2>4, <3>1, <3>2, <3>3, <3>7, <3>9
  <2>5. QED
    BY <2>3, <2>4
<1>8. ASSUME GrantOwner(t)
      PROVE  /\ job[t].at = "grant"
             /\ \/ Ended(t) /\ job[t].n = Len(OwnerOps)
                \/ /\ Alone(t) /\ job' \in [Threads -> Jobs] /\ job[t].n < Len(OwnerOps)
                   /\ job'[t].at = "grant" /\ job'[t].who = job[t].who
                   /\ job'[t].profile = job[t].profile
                   /\ job'[t].life = job[t].life /\ job'[t].n = job[t].n + 1
  <2>1. job[t].at = "grant"
    BY <1>8 DEF GrantOwner, At
  <2>2. job[t] \in Granting
    BY <1>0, <2>1, StageKind
  <2>3. job[t].n \in 1 .. Len(OwnerOps)
    BY <2>2, Carries
  <2>4. CASE job[t].n < Len(OwnerOps)
    <3>1. PICK j : j = [job[t] EXCEPT !.n = @ + 1]
      OBVIOUS
    <3>2. Move(t, j)
      BY <1>8, <2>4, <3>1 DEF GrantOwner
    <3>3. job[t].n + 1 \in DOMAIN OwnerOps
      BY <2>3, <2>4
    <3>4. /\ j \in Granting /\ j.at = "grant" /\ j.who = job[t].who
          /\ j.profile = job[t].profile /\ j.life = job[t].life /\ j.n = job[t].n + 1
      BY <2>2, <3>1, <3>3 DEF Granting
    <3>5. j \in Jobs
      BY <3>4 DEF Jobs
    <3>6. job' \in [Threads -> Jobs] /\ job'[t] = j /\ Alone(t)
      BY <3>2, <3>5, PutJob
    <3>7. QED
      BY <2>1, <2>4, <3>4, <3>6
  <2>5. CASE ~(job[t].n < Len(OwnerOps))
    <3>1. Done(t)
      BY <1>8, <2>5 DEF GrantOwner
    <3>2. job[t].n = Len(OwnerOps)
      BY <2>3, <2>5
    <3>3. QED
      BY <2>1, <3>1, <3>2, EndsIt
  <2>6. QED
    BY <2>4, <2>5
<1>9. QED
  BY <1>3, <1>4, <1>5, <1>6, <1>7, <1>8

LEMMA DeviceMoves ==
  ASSUME JobsOK, NEW t \in Threads, row \in [Profiles -> 0 .. lives]
  PROVE  /\ \A ps \in SUBSET Profiles : AskDevice(t, ps) =>
              /\ Begun(t) /\ job'[t].at = "issue" /\ DOMAIN job'[t].lives = ps
              /\ \A p \in ps : Present(p) /\ job'[t].lives[p] = row[p]
         /\ IssueDevice(t) => job[t].at = "issue" /\ Ended(t)
<1>1. ASSUME NEW ps \in SUBSET Profiles, AskDevice(t, ps)
      PROVE  /\ Begun(t) /\ job'[t].at = "issue" /\ DOMAIN job'[t].lives = ps
             /\ \A p \in ps : Present(p) /\ job'[t].lives[p] = row[p]
  <2>1. PICK of : of = [p \in ps |-> row[p]]
    OBVIOUS
  <2>2. of \in [ps -> 0 .. lives]
    BY <2>1
  <2>3. PICK j : j = [at |-> "issue", lives |-> of]
    OBVIOUS
  <2>4. j \in [at : {"issue"}, lives : [ps -> 0 .. lives]] /\ j.lives = of /\ j.at = "issue"
    BY <2>2, <2>3
  <2>5. Begin(t, j)
    BY <1>1, <2>1, <2>3 DEF AskDevice
  <2>6. j \in Jobs
    BY <2>4 DEF Jobs, Issuing
  <2>7. Begun(t) /\ job'[t] = j
    BY <2>5, <2>6, BeginsIt
  <2>8. QED
    BY <1>1, <2>1, <2>4, <2>7 DEF AskDevice
<1>2. IssueDevice(t) => job[t].at = "issue" /\ Ended(t)
  BY EndsIt DEF IssueDevice, At
<1>3. QED
  BY <1>1, <1>2

\* A migration begins when nothing is at work.
Offloaded(t, s, old, new) ==
  /\ Begun(t) /\ \A u \in Threads : Idle(u)
  /\ job'[t].at = s /\ job'[t].old = old /\ job'[t].new = new
  /\ old # new /\ Present(old) /\ ~Present(new)

LEMMA MigrationMoves ==
  ASSUME JobsOK, NEW t \in Threads
  PROVE  /\ \A old, new \in Profiles :
              /\ MigrateFiles(t, old, new) => Offloaded(t, "rewrite", old, new)
              /\ ScriptFiles(t, old, new) => Offloaded(t, "rewrite by script", old, new)
         /\ MigrateCommit(t) => job[t].at = "rewrite" /\ Ended(t)
         /\ ScriptCommit(t) => job[t].at = "rewrite by script" /\ Ended(t)
         /\ MigrateBack(t) => Migrating(t) /\ Ended(t)
<1>1. ASSUME NEW old \in Profiles, NEW new \in Profiles, NEW s \in Offline,
             MoveFiles(t, s, old, new)
      PROVE  Offloaded(t, s, old, new)
  <2>1. PICK j : j = [at |-> s, old |-> old, new |-> new]
    OBVIOUS
  <2>2. j \in Moving /\ j.at = s /\ j.old = old /\ j.new = new
    BY <2>1 DEF Moving
  <2>3. j \in Jobs
    BY <2>2 DEF Jobs
  <2>4. Begun(t) /\ job'[t] = j
    BY <1>1, <2>1, <2>3, BeginsIt DEF MoveFiles
  <2>5. QED
    BY <1>1, <2>2, <2>4 DEF MoveFiles, Offloaded
<1>2. \A old, new \in Profiles :
              /\ MigrateFiles(t, old, new) => Offloaded(t, "rewrite", old, new)
              /\ ScriptFiles(t, old, new) => Offloaded(t, "rewrite by script", old, new)
  BY <1>1 DEF MigrateFiles, ScriptFiles, Offline
<1>3. /\ MigrateCommit(t) => job[t].at = "rewrite" /\ Ended(t)
      /\ ScriptCommit(t) => job[t].at = "rewrite by script" /\ Ended(t)
      /\ MigrateBack(t) => Migrating(t) /\ Ended(t)
  BY EndsIt DEF MigrateCommit, ScriptCommit, MigrateBack, Rewritten, At
<1>4. QED
  BY <1>2, <1>3

\* A request about a project begins.
Opens(t, s, x) == Begun(t) /\ job'[t].at = s /\ job'[t].project = x

LEMMA ProjectMoves ==
  ASSUME JobsOK, NEW t \in Threads, asks \subseteq Asks, creator \in [Projects -> Profiles]
  PROVE  /\ \A x \in Projects :
              /\ \A p \in Profiles :
                   /\ ProposeProject(t, x, p) => Opens(t, "ask", x)
                   /\ Leave(t, x, p) => Opens(t, "depart", x)
              /\ AskDeleteProject(t, x) => Opens(t, "drop", x)
         /\ \A ask \in asks :
              /\ \A v \in BOOLEAN : Decide(t, ask, v) =>
                   \/ /\ Opens(t, "activate", ask[2]) /\ ask[1] = "create"
                      /\ proj[ask[2]] = "pending"
                   \/ /\ Opens(t, "reject", ask[2]) /\ ask[1] = "create"
                      /\ proj[ask[2]] = "pending"
                   \/ /\ Opens(t, "enter", ask[2]) /\ ask[1] = "join" /\ Active(ask[2])
                   \/ /\ Opens(t, "settle", ask[2])
              /\ Withdraw(t, ask) => \/ Opens(t, "look", ask[2])
                                     \/ Begun(t) /\ job'[t] = Nothing
         /\ AskForProject(t) => job[t].at = "ask" /\ Ended(t)
         /\ Activate(t) => job[t].at = "activate" /\ (Moved(t, "settle") \/ Ended(t))
         /\ Enter(t) => job[t].at = "enter" /\ (Moved(t, "settle") \/ Ended(t))
         /\ Reject(t) => job[t].at = "reject" /\ (Moved(t, "settle") \/ Ended(t))
         /\ Settle(t) => job[t].at = "settle" /\ Ended(t)
         /\ LookAtProject(t) =>
              /\ job[t].at = "look"
              /\ (Moved(t, "reject") /\ proj[job[t].project] = "pending") \/ Ended(t)
         /\ Depart(t) => job[t].at = "depart" /\ Moved(t, "look back")
         /\ LookBack(t) => /\ job[t].at = "look back"
                           /\ \/ Moved(t, "notify")
                              \/ Ended(t) /\ members[job[t].project] # {}
         /\ Notify(t) => job[t].at = "notify" /\ Ended(t)
         /\ DropProject(t) => job[t].at = "drop" /\ Ended(t)
<1>1. ASSUME NEW x \in Projects, NEW p \in Profiles, NEW s \in PlainStages,
             Begin(t, [at |-> s, project |-> x, profile |-> p])
      PROVE  Opens(t, s, x)
  <2>1. PICK j : j = [at |-> s, project |-> x, profile |-> p]
    OBVIOUS
  <2>2. j \in Plain /\ j.at = s /\ j.project = x /\ Begin(t, j)
    BY <1>1, <2>1 DEF Plain
  <2>3. j \in Jobs
    BY <2>2 DEF Jobs
  <2>4. QED
    BY <2>2, <2>3, BeginsIt DEF Opens
<1>2. ASSUME NEW ask \in asks, NEW s \in AskStages,
             Begin(t, [at |-> s, project |-> ask[2], profile |-> ask[3], ask |-> ask])
      PROVE  Opens(t, s, ask[2])
  <2>1. PICK j : j = [at |-> s, project |-> ask[2], profile |-> ask[3], ask |-> ask]
    OBVIOUS
  <2>2. ask \in Asks /\ ask[2] \in Projects /\ ask[3] \in Profiles
    BY DEF Asks
  <2>3. j \in Asked /\ j.at = s /\ j.project = ask[2] /\ Begin(t, j)
    BY <1>2, <2>1, <2>2 DEF Asked
  <2>4. j \in Jobs
    BY <2>3 DEF Jobs
  <2>5. QED
    BY <2>3, <2>4, BeginsIt DEF Opens
<1>3. ASSUME NEW x \in Projects
      PROVE  /\ \A p \in Profiles :
                   /\ ProposeProject(t, x, p) => Opens(t, "ask", x)
                   /\ Leave(t, x, p) => Opens(t, "depart", x)
             /\ AskDeleteProject(t, x) => Opens(t, "drop", x)
  BY <1>1 DEF ProposeProject, Leave, AskDeleteProject, PlainStages
<1>4. ASSUME NEW ask \in asks, NEW v \in BOOLEAN, Decide(t, ask, v)
      PROVE  \/ /\ Opens(t, "activate", ask[2]) /\ ask[1] = "create" /\ proj[ask[2]] = "pending"
             \/ /\ Opens(t, "reject", ask[2]) /\ ask[1] = "create" /\ proj[ask[2]] = "pending"
             \/ /\ Opens(t, "enter", ask[2]) /\ ask[1] = "join" /\ Active(ask[2])
             \/ /\ Opens(t, "settle", ask[2])
  <2> DEFINE G(s) == Begin(t, [at |-> s, project |-> ask[2], profile |-> ask[3], ask |-> ask])
  <2>1. ask[1] \in {"create", "join"}
    BY DEF Asks
  <2>2. \/ ask[1] = "create" /\ proj[ask[2]] = "pending" /\ G("activate")
        \/ ask[1] = "create" /\ proj[ask[2]] = "pending" /\ G("reject")
        \/ G("settle")
        \/ ask[1] = "join" /\ Active(ask[2]) /\ G("enter")
    BY <1>4, <2>1 DEF Decide
  <2>3. \A s \in AskStages : G(s) => Opens(t, s, ask[2])
    BY <1>2
  <2> HIDE DEF G
  <2>4. QED
    BY <2>2, <2>3 DEF AskStages
<1>5. ASSUME NEW ask \in asks, Withdraw(t, ask)
      PROVE  Opens(t, "look", ask[2]) \/ (Begun(t) /\ job'[t] = Nothing)
  <2>1. \/ Begin(t, [at |-> "look", project |-> ask[2], profile |-> ask[3], ask |-> ask])
        \/ Begin(t, Nothing)
    BY <1>5 DEF Withdraw
  <2>2. Nothing \in Jobs
    BY DEF Jobs
  <2>3. QED
    BY <1>2, <2>1, <2>2, BeginsIt DEF AskStages
<1>6. /\ AskForProject(t) => job[t].at = "ask" /\ Ended(t)
      /\ Settle(t) => job[t].at = "settle" /\ Ended(t)
      /\ Notify(t) => job[t].at = "notify" /\ Ended(t)
      /\ DropProject(t) => job[t].at = "drop" /\ Ended(t)
  BY EndsIt DEF AskForProject, Settle, Notify, DropProject, At
<1>7. /\ Activate(t) => job[t].at = "activate" /\ (Moved(t, "settle") \/ Ended(t))
      /\ Enter(t) => job[t].at = "enter" /\ (Moved(t, "settle") \/ Ended(t))
      /\ Reject(t) => job[t].at = "reject" /\ (Moved(t, "settle") \/ Ended(t))
  BY MoveOn, EndsIt DEF Activate, Enter, Reject, Step, At, AskStages
<1>8. /\ LookAtProject(t) =>
              /\ job[t].at = "look"
              /\ (Moved(t, "reject") /\ proj[job[t].project] = "pending") \/ Ended(t)
  BY MoveOn, EndsIt DEF LookAtProject, Step, At, AskStages
<1>9. /\ Depart(t) => job[t].at = "depart" /\ Moved(t, "look back")
      /\ LookBack(t) => /\ job[t].at = "look back"
                        /\ \/ Moved(t, "notify")
                           \/ Ended(t) /\ members[job[t].project] # {}
  BY MoveOn, EndsIt DEF Depart, LookBack, NobodyLeft, Step, At, PlainStages
<1>10. QED
  BY <1>3, <1>4, <1>5, <1>6, <1>7, <1>8, <1>9

-----------------------------------------------------------------------------
(* Registrations and migrations *)

RowsOK == lives \in Nat /\ row \in [Profiles -> 0 .. lives]

\* No migration is under way.
Online == \A u \in Threads : job[u].at \notin Offline

LEMMA StaysOnline ==
  ASSUME JobsOK, MovesAlone, NEW t \in Threads, Alone(t), job'[t].at \notin Offline,
         job[t].at # "idle" \/ Online
  PROVE  Online'
<1> SUFFICES ASSUME NEW u \in Threads
             PROVE  job'[u].at \notin Offline
  BY DEF Online
<1>1. CASE u = t
  BY <1>1
<1>2. CASE u # t
  <2>1. job'[u] = job[u]
    BY <1>2 DEF Alone
  <2>2. ASSUME job[u].at \in Offline
        PROVE  FALSE
    <3>1. Idle(t)
      BY <1>2, <2>2 DEF MovesAlone, Migrating
    <3>2. job[t].at = "idle"
      BY <3>1, KindStage DEF Idle
    <3>3. Online
      BY <3>2
    <3>4. QED
      BY <2>2, <3>3 DEF Online
  <2>3. QED
    BY <2>1, <2>2
<1>3. QED
  BY <1>1, <1>2

LEMMA OnlineAlone == Online => MovesAlone
BY DEF Online, MovesAlone, Migrating

LEMMA OnlineKept ==
  ASSUME Online'
  PROVE  MovesAlone'
BY DEF Online, MovesAlone, Migrating

\* No request at work, no change of the registrations.
LEMMA AloneKept ==
  ASSUME MovesAlone, row' = row,
         \A u \in Threads : job'[u] = job[u] \/ job'[u] = Nothing
  PROVE  MovesAlone'
<1> SUFFICES ASSUME NEW t \in Threads, job'[t].at \in Offline
             PROVE  /\ job'[t].old # job'[t].new /\ row[job'[t].old] # 0 /\ row[job'[t].new] = 0
                    /\ \A u \in Threads \ {t} : job'[u] = Nothing
  BY DEF MovesAlone, Migrating, Idle, Present
<1>1. job'[t] = job[t]
  BY KindStage DEF Offline
<1>2. QED
  BY <1>1 DEF MovesAlone, Migrating, Idle, Present

\* What a step of requests leaves of threads and registrations.
RowsWell == job' \in [Threads -> Jobs] /\ RowStep /\ MovesAlone'

LEMMA MovedWell ==
  ASSUME JobsOK, MovesAlone, NEW t \in Threads, NEW s, Moved(t, s), s \notin Offline,
         job[t].at # "idle", RowStep
  PROVE  RowsWell
BY StaysOnline, OnlineKept DEF Moved, RowsWell

LEMMA EndedWell ==
  ASSUME JobsOK, MovesAlone, NEW t \in Threads, Ended(t), job[t].at # "idle", RowStep
  PROVE  RowsWell
<1>1. job'[t].at = "idle"
  BY KindStage DEF Ended
<1>2. job'[t].at \notin Offline
  BY <1>1 DEF Offline
<1>3. QED
  BY <1>2, StaysOnline, OnlineKept DEF Ended, RowsWell

LEMMA BegunWell ==
  ASSUME JobsOK, MovesAlone, NEW t \in Threads, Begun(t), job'[t].at \notin Offline, RowStep
  PROVE  RowsWell
<1>1. Online
  BY DEF Begun, Online
<1>2. QED
  BY <1>1, StaysOnline, OnlineKept DEF Begun, RowsWell

LEMMA SameJobWell ==
  ASSUME JobsOK, MovesAlone, job' = job, row' = row, lives' = lives
  PROVE  RowsWell
BY AloneKept DEF RowsWell, RowStep, JobsOK

LEMMA EnrollmentWell ==
  ASSUME JobsOK, MovesAlone, EnrollmentStep, UNCHANGED profileVars
  PROVE  RowsWell
<1>1. row' = row /\ lives' = lives /\ RowStep
  BY DEF profileVars, profileTables, profileNotes, RowStep
<1>2. ASSUME NEW t \in Threads, NEW i \in Invites, NEW k \in Keys, AskEnroll(t, i, k)
      PROVE  RowsWell
  BY <1>1, <1>2, EnrollMoves, BegunWell DEF Offline
<1>3. ASSUME NEW t \in Threads, CreatePrincipal(t)
      PROVE  RowsWell
  <2>1. Online'
    BY <1>3, EnrollMoves, StaysOnline DEF Offline
  <2>2. QED
    BY <1>1, <1>3, <2>1, EnrollMoves, OnlineKept DEF RowsWell
<1>4. ASSUME NEW t \in Threads, CheckKey(t) \/ AddKey(t) \/ GrantCreate(t) \/ ConsumeInvite(t)
      PROVE  RowsWell
  <2>1. job[t].at # "idle"
    BY <1>4, EnrollMoves
  <2>2. Moved(t, "credential") \/ Moved(t, "admit") \/ Moved(t, "consume") \/ Ended(t)
    BY <1>4, EnrollMoves
  <2>3. QED
    BY <1>1, <2>1, <2>2, MovedWell, EndedWell DEF Offline
<1>5. ASSUME NEW i \in Invites, InviteExpires(i)
      PROVE  RowsWell
  BY <1>1, <1>5, SameJobWell DEF InviteExpires
<1>6. QED
  BY <1>2, <1>3, <1>4, <1>5 DEF EnrollmentStep

LEMMA HandledProfile ==
  ASSUME JobsOK, NEW t \in Threads, job[t].at \in Creating \cup Deleting
  PROVE  job[t].profile \in Profiles /\ job[t].who \in Principals
BY StageKind, Carries DEF JobsOK, ProfileStages

LEMMA ProfileRows ==
  ASSUME JobsOK, RowsOK, NEW t \in Threads
  PROVE  /\ InsertProfile(t) \/ Unregister(t) \/ EraseRow(t) => RowStep
         /\ MakeFiles(t) \/ WriteFiles(t) \/ FilesFail(t) \/ Discard(t) \/ GrantOwner(t)
            \/ WipeData(t) \/ RemoveFiles(t) \/ RevokeAll(t) \/ IssueDevice(t) \/ MigrateBack(t)
            => row' = row /\ lives' = lives
         /\ \A p \in Profiles :
              (\E pr \in Principals : AskCreate(t, pr, p)) \/ AskCreateTotp(t, p) \/ AskDelete(t, p)
              => row' = row /\ lives' = lives
         /\ \A ps \in SUBSET Profiles : AskDevice(t, ps) => row' = row /\ lives' = lives
         /\ \A old, new \in Profiles : MigrateFiles(t, old, new) \/ ScriptFiles(t, old, new)
              => row' = row /\ lives' = lives
         /\ MigrateCommit(t) \/ ScriptCommit(t) => RowMoved(t)
<1>1. ASSUME InsertProfile(t) \/ Unregister(t) \/ EraseRow(t)
      PROVE  RowStep
  <2>1. job[t].at \in {"insert", "unregister", "erase"}
    BY <1>1 DEF InsertProfile, Unregister, EraseRow, At
  <2>2. PICK p \in Profiles : p = job[t].profile
    BY <2>1, HandledProfile DEF Creating, Deleting
  <2>3. \/ row' = row /\ lives' = lives
        \/ RowAdded(p)
        \/ RowErased(p)
    BY <1>1, <2>2 DEF InsertProfile, Unregister, EraseRow, RowAdded, RowErased, Present
  <2>4. QED
    BY <2>3 DEF RowStep
<1>2. /\ MakeFiles(t) \/ WriteFiles(t) \/ FilesFail(t) \/ Discard(t) \/ GrantOwner(t)
            \/ WipeData(t) \/ RemoveFiles(t) \/ RevokeAll(t) \/ IssueDevice(t) \/ MigrateBack(t)
            => row' = row /\ lives' = lives
  BY DEF MakeFiles, WriteFiles, FilesFail, Discard, GrantOwner, WipeData, RemoveFiles, RevokeAll,
         IssueDevice, MigrateBack, profileVars, profileTables, profileNotes
<1>3. \A p \in Profiles :
        (\E pr \in Principals : AskCreate(t, pr, p)) \/ AskCreateTotp(t, p) \/ AskDelete(t, p)
              => row' = row /\ lives' = lives
  BY DEF AskCreate, AskCreateTotp, AskDelete, profileVars, profileTables, profileNotes
<1>4. /\ \A ps \in SUBSET Profiles : AskDevice(t, ps) => row' = row /\ lives' = lives
      /\ \A old, new \in Profiles : MigrateFiles(t, old, new) \/ ScriptFiles(t, old, new)
              => row' = row /\ lives' = lives
  BY DEF AskDevice, MigrateFiles, ScriptFiles, MoveFiles, profileVars, profileTables, profileNotes
<1>5. MigrateCommit(t) \/ ScriptCommit(t) => RowMoved(t)
  BY DEF MigrateCommit, ScriptCommit, Rewritten, RowMoved, Migrating, At, Offline
<1>6. QED
  BY <1>1, <1>2, <1>3, <1>4, <1>5

LEMMA ProfileWell ==
  ASSUME JobsOK, MovesAlone, RowsOK, ProfileStep
  PROVE  RowsWell
<1>0. row' = row /\ lives' = lives => RowStep
  BY DEF RowStep
<1>1. ASSUME NEW t \in Threads, NEW p \in Profiles,
             (\E pr \in Principals : AskCreate(t, pr, p)) \/ AskCreateTotp(t, p) \/ AskDelete(t, p)
      PROVE  RowsWell
  <2>1. Begun(t) /\ job'[t].at \in {"insert", "wipe"}
    BY <1>1, ProfileMoves DEF RowsOK
  <2>2. RowStep
    BY <1>0, <1>1, ProfileRows
  <2>3. QED
    BY <2>1, <2>2, BegunWell DEF Offline
<1>2. ASSUME NEW t \in Threads, NEW old \in Profiles, NEW new \in Profiles,
             MigrateFiles(t, old, new) \/ ScriptFiles(t, old, new)
      PROVE  RowsWell
  <2>1. RowStep /\ row' = row
    BY <1>0, <1>2, ProfileRows
  <2>2. /\ Begun(t) /\ \A u \in Threads : Idle(u)
        /\ job'[t].old = old /\ job'[t].new = new
        /\ old # new /\ Present(old) /\ ~Present(new)
    BY <1>2, MigrationMoves DEF Offloaded
  <2>3. \A u \in Threads \ {t} : job'[u] = Nothing /\ job'[u].at \notin Offline
    BY <2>2, KindStage DEF Begun, Alone, Idle, Offline
  <2>4. MovesAlone'
    BY <2>1, <2>2, <2>3 DEF MovesAlone, Migrating, Idle, Present
  <2>5. QED
    BY <2>1, <2>2, <2>4 DEF RowsWell, Begun
<1>3. ASSUME NEW t \in Threads, NEW ps \in SUBSET Profiles, AskDevice(t, ps)
      PROVE  RowsWell
  <2>1. Begun(t) /\ job'[t].at = "issue"
    BY <1>3, DeviceMoves DEF RowsOK
  <2>2. RowStep
    BY <1>0, <1>3, ProfileRows
  <2>3. QED
    BY <2>1, <2>2, BegunWell DEF Offline
<1>4. ASSUME NEW t \in Threads,
             \/ InsertProfile(t) \/ MakeFiles(t) \/ FilesFail(t) \/ Unregister(t) \/ Discard(t)
             \/ WipeData(t) \/ EraseRow(t) \/ RemoveFiles(t) \/ RevokeAll(t) \/ IssueDevice(t)
      PROVE  RowsWell
  <2>1. RowStep
    BY <1>0, <1>4, ProfileRows
  <2>2. job[t].at # "idle"
    BY <1>4, ProfileMoves, DeviceMoves DEF RowsOK
  <2>3. \/ \E s \in {"files", "rest", "unregister", "discard", "erase", "unlink", "revoke"} :
             Moved(t, s)
        \/ Ended(t)
    BY <1>4, ProfileMoves, DeviceMoves DEF RowsOK
  <2>4. QED
    BY <2>1, <2>2, <2>3, MovedWell, EndedWell DEF Offline
<1>5. ASSUME NEW t \in Threads, WriteFiles(t) \/ GrantOwner(t)
      PROVE  RowsWell
  <2>1. RowStep
    BY <1>0, <1>5, ProfileRows
  <2>2. job[t].at # "idle"
    BY <1>5, ProfileMoves DEF RowsOK
  <2>3. \/ Ended(t)
        \/ Alone(t) /\ job' \in [Threads -> Jobs] /\ job'[t].at = "grant"
    BY <1>5, ProfileMoves DEF RowsOK
  <2>4. CASE Alone(t) /\ job' \in [Threads -> Jobs] /\ job'[t].at = "grant"
    BY <2>1, <2>2, <2>4, StaysOnline, OnlineKept DEF RowsWell, Offline
  <2>5. QED
    BY <2>1, <2>2, <2>3, <2>4, EndedWell
<1>6. ASSUME NEW t \in Threads, MigrateCommit(t) \/ ScriptCommit(t) \/ MigrateBack(t)
      PROVE  RowsWell
  <2>1. RowStep
    BY <1>0, <1>6, ProfileRows DEF RowStep
  <2>2. Ended(t) /\ job[t].at # "idle"
    BY <1>6, MigrationMoves DEF Migrating, Offline
  <2>3. QED
    BY <2>1, <2>2, EndedWell
<1>7. ASSUME NEW pr \in Principals, RevokeDevice(pr) \/ \E p \in Profiles : AddData(pr, p)
      PROVE  RowsWell
  BY <1>7, SameJobWell DEF RevokeDevice, AddData, profileNotes
<1>8. ASSUME NEW ts \in SUBSET Threads, Interrupt(ts)
      PROVE  RowsWell
  <2>1. row' = row /\ lives' = lives
    BY <1>8 DEF Interrupt, profileTables
  <2>2. job' = [t \in Threads |-> IF t \in ts THEN Nothing ELSE job[t]]
    BY <1>8 DEF Interrupt, Interrupted
  <2>3. job' \in [Threads -> Jobs]
    BY <2>2 DEF JobsOK, Jobs
  <2>4. MovesAlone'
    BY <2>1, <2>2, AloneKept
  <2>5. QED
    BY <1>0, <2>1, <2>3, <2>4 DEF RowsWell
<1>9. QED
  BY <1>1, <1>2, <1>3, <1>4, <1>5, <1>6, <1>7, <1>8 DEF ProfileStep

-----------------------------------------------------------------------------
(* Project requests leave profiles and principals alone *)

LEMMA ProjectFrame ==
  ASSUME NEW t \in Threads
  PROVE  /\ \A x \in Projects :
              /\ \A p \in Profiles :
                   ProposeProject(t, x, p) \/ Leave(t, x, p) \/ AskToJoin(x, p) =>
                     UNCHANGED <<access, told, profileVars>>
              /\ AskDeleteProject(t, x) \/ Silence(x) => UNCHANGED <<access, told, profileVars>>
         /\ \A ask \in asks :
              (\E v \in BOOLEAN : Decide(t, ask, v)) \/ Withdraw(t, ask) =>
                UNCHANGED <<access, told, profileVars>>
         /\ \/ AskForProject(t) \/ Activate(t) \/ Enter(t) \/ Reject(t) \/ Settle(t)
            \/ LookAtProject(t) \/ Depart(t) \/ LookBack(t) \/ Notify(t) \/ DropProject(t)
            => UNCHANGED <<access, told, profileVars>>
<1>1. \A x \in Projects :
              /\ \A p \in Profiles :
                   ProposeProject(t, x, p) \/ Leave(t, x, p) \/ AskToJoin(x, p) =>
                     UNCHANGED <<access, told, profileVars>>
              /\ AskDeleteProject(t, x) \/ Silence(x) => UNCHANGED <<access, told, profileVars>>
  BY DEF ProposeProject, Leave, AskToJoin, AskDeleteProject, Silence
<1>2. \A ask \in asks :
              (\E v \in BOOLEAN : Decide(t, ask, v)) \/ Withdraw(t, ask) =>
                UNCHANGED <<access, told, profileVars>>
  BY DEF Decide, Withdraw
<1>3. \/ AskForProject(t) \/ Activate(t) \/ Enter(t) \/ Reject(t) \/ Settle(t)
      \/ LookAtProject(t) \/ Depart(t) \/ LookBack(t) \/ Notify(t) \/ DropProject(t)
      => UNCHANGED <<access, told, profileVars>>
  BY DEF AskForProject, Activate, Enter, Reject, Settle, LookAtProject, Depart, LookBack, Notify,
         DropProject
<1>4. QED
  BY <1>1, <1>2, <1>3

\* The steps of a thread with a project, without the record of what was contested.
ProjectWork(t) ==
  \/ \E ask \in asks : (\E v \in BOOLEAN : Decide(t, ask, v)) \/ Withdraw(t, ask)
  \/ \E x \in Projects :
       \/ \E p \in Profiles : ProposeProject(t, x, p) \/ Leave(t, x, p)
       \/ AskDeleteProject(t, x)
  \/ AskForProject(t) \/ Activate(t) \/ Enter(t) \/ Reject(t) \/ Settle(t)
  \/ LookAtProject(t) \/ Depart(t) \/ LookBack(t) \/ Notify(t) \/ DropProject(t)

ProjectNotes == \E x \in Projects : (\E p \in Profiles : AskToJoin(x, p)) \/ Silence(x)

LEMMA ProjectStepIs == ProjectStep => (\E t \in Threads : ProjectWork(t)) \/ ProjectNotes
BY DEF ProjectStep, ProjectWork, ProjectNotes

LEMMA ProjectWell ==
  ASSUME JobsOK, MovesAlone, asks \subseteq Asks, creator \in [Projects -> Profiles], ProjectStep
  PROVE  RowsWell /\ UNCHANGED <<access, told, profileVars>>
<1>1. ASSUME NEW t \in Threads, ProjectWork(t)
      PROVE  RowsWell /\ UNCHANGED <<access, told, profileVars>>
  <2>1. UNCHANGED <<access, told, profileVars>>
    BY <1>1, ProjectFrame DEF ProjectWork
  <2>2. RowStep
    BY <2>1 DEF RowStep, profileVars, profileTables, profileNotes
  <2>3. \/ \E s \in {"ask", "depart", "drop", "activate", "reject", "enter", "settle", "look"},
              x \in Projects : Opens(t, s, x)
        \/ Begun(t) /\ job'[t] = Nothing
        \/ /\ \E s \in {"settle", "reject", "look back", "notify"} : Moved(t, s)
           /\ job[t].at # "idle"
        \/ Ended(t) /\ job[t].at # "idle"
    <3>1. \A ask \in asks : ask[2] \in Projects
      BY DEF Asks
    <3>2. ASSUME NEW ask \in asks, (\E v \in BOOLEAN : Decide(t, ask, v)) \/ Withdraw(t, ask)
          PROVE  \/ \E s \in {"activate", "reject", "enter", "settle", "look"} : Opens(t, s, ask[2])
                 \/ Begun(t) /\ job'[t] = Nothing
      <4>1. CASE \E v \in BOOLEAN : Decide(t, ask, v)
        <5>1. PICK v \in BOOLEAN : Decide(t, ask, v)
          BY <4>1
        <5>2. \/ Opens(t, "activate", ask[2]) \/ Opens(t, "reject", ask[2])
              \/ Opens(t, "enter", ask[2]) \/ Opens(t, "settle", ask[2])
          BY <5>1, ProjectMoves
        <5>3. QED
          BY <5>2
      <4>2. CASE Withdraw(t, ask)
        <5>1. Opens(t, "look", ask[2]) \/ (Begun(t) /\ job'[t] = Nothing)
          BY <4>2, ProjectMoves
        <5>2. QED
          BY <5>1
      <4>3. QED
        BY <3>2, <4>1, <4>2
    <3>3. ASSUME NEW x \in Projects,
                 \/ \E p \in Profiles : ProposeProject(t, x, p) \/ Leave(t, x, p)
                 \/ AskDeleteProject(t, x)
          PROVE  \E s \in {"ask", "depart", "drop"} : Opens(t, s, x)
      <4>1. Opens(t, "ask", x) \/ Opens(t, "depart", x) \/ Opens(t, "drop", x)
        BY <3>3, ProjectMoves
      <4>2. QED
        BY <4>1
    <3>4. ASSUME \/ AskForProject(t) \/ Activate(t) \/ Enter(t) \/ Reject(t) \/ Settle(t)
                 \/ LookAtProject(t) \/ Depart(t) \/ LookBack(t) \/ Notify(t) \/ DropProject(t)
          PROVE  /\ Ended(t) \/ \E s \in {"settle", "reject", "look back", "notify"} : Moved(t, s)
                 /\ job[t].at # "idle"
      <4>1. /\ \/ Ended(t) \/ Moved(t, "settle") \/ Moved(t, "reject") \/ Moved(t, "look back")
               \/ Moved(t, "notify")
            /\ job[t].at # "idle"
        BY <3>4, ProjectMoves
      <4>2. QED
        BY <4>1
    <3>5. QED
      BY <1>1, <3>1, <3>2, <3>3, <3>4 DEF ProjectWork
  <2>4. ASSUME NEW s \in {"ask", "depart", "drop", "activate", "reject", "enter", "settle", "look"},
               NEW x \in Projects, Opens(t, s, x)
        PROVE  RowsWell
    BY <2>2, <2>4, BegunWell DEF Opens, Offline
  <2>5. ASSUME Begun(t), job'[t] = Nothing
        PROVE  RowsWell
    BY <2>2, <2>5, BegunWell, KindStage DEF Offline
  <2>6. ASSUME NEW s \in {"settle", "reject", "look back", "notify"}, Moved(t, s),
               job[t].at # "idle"
        PROVE  RowsWell
    BY <2>2, <2>6, MovedWell DEF Offline
  <2>7. QED
    BY <2>1, <2>2, <2>3, <2>4, <2>5, <2>6, EndedWell
<1>2. ASSUME ProjectNotes
      PROVE  RowsWell /\ UNCHANGED <<access, told, profileVars>>
  <2>1. UNCHANGED <<access, told, profileVars>> /\ job' = job
    BY <1>2 DEF ProjectNotes, AskToJoin, Silence
  <2>2. row' = row /\ lives' = lives
    BY <2>1 DEF profileVars, profileTables, profileNotes
  <2>3. QED
    BY <2>1, <2>2, SameJobWell
<1>3. QED
  BY <1>1, <1>2, ProjectStepIs

\* What can be carried only grows.
LEMMA JobsGrow ==
  ASSUME lives \in Nat, lives' \in Nat, lives <= lives'
  PROVE  Jobs \subseteq Jobs'
<1>1. 0 .. lives \subseteq 0 .. lives'
  OBVIOUS
<1>2. Granting \subseteq Granting'
  BY <1>1 DEF Granting
<1>3. Issuing \subseteq Issuing'
  <2>1. SUFFICES ASSUME NEW j \in Issuing
                 PROVE  j \in Issuing'
    OBVIOUS
  <2>2. PICK ps \in SUBSET Profiles : j \in [at : {"issue"}, lives : [ps -> 0 .. lives]]
    BY DEF Issuing
  <2>3. [ps -> 0 .. lives] \subseteq [ps -> 0 .. lives']
    BY <1>1
  <2>4. j \in [at : {"issue"}, lives : [ps -> 0 .. lives']]
    BY <2>2, <2>3
  <2>5. QED
    BY <2>4 DEF Issuing
<1>4. Invited' = Invited /\ Enrolling' = Enrolling /\ Handled' = Handled /\ Moving' = Moving
      /\ Plain' = Plain /\ Asked' = Asked
  BY DEF Invited, Enrolling, Handled, Moving, Plain, Asked
<1>5. QED
  BY <1>2, <1>3, <1>4 DEF Jobs

-----------------------------------------------------------------------------
(* Types of the tables of principals *)

LEMMA InKind ==
  ASSUME JobsOK, NEW t \in Threads
  PROVE  /\ job[t].at \in {"principal"} \cup EnrollStages =>
              job[t].invite \in Invites /\ job[t].key \in Keys
         /\ job[t].at \in EnrollStages => job[t].who \in Principals
         /\ job[t].at \in Creating \cup Deleting =>
              job[t].profile \in Profiles /\ job[t].who \in Principals
         /\ job[t].at = "grant" => job[t].life \in 0 .. lives /\ job[t].n \in DOMAIN OwnerOps
         /\ job[t].at = "issue" => /\ DOMAIN job[t].lives \subseteq Profiles
                                   /\ job[t].lives \in [DOMAIN job[t].lives -> 0 .. lives]
         /\ job[t].at \in Offline => job[t].old \in Profiles /\ job[t].new \in Profiles
         /\ job[t].at \in PlainStages \cup AskStages =>
              job[t].project \in Projects /\ job[t].profile \in Profiles
         /\ job[t].at \in AskStages => job[t].ask \in Asks
<1>1. job[t] \in Jobs
  BY DEF JobsOK
<1>2. Creating \cup Deleting = ProfileStages \cup {"grant"}
  BY DEF Creating, Deleting, ProfileStages
<1>3. QED
  BY <1>1, <1>2, StageKind, Carries, CarriesLives

LEMMA BeginCounts ==
  ASSUME AccessTypeOK, NEW t, NEW j, Begin(t, j)
  PROVE  reqs' \in Nat /\ faults' \in Nat
BY DEF Begin, AccessTypeOK

LEMMA AccessKept ==
  ASSUME AccessTypeOK, UNCHANGED <<access, told>>, reqs' \in Nat, faults' \in Nat
  PROVE  AccessTypeOK'
BY DEF AccessTypeOK, access

LEMMA EnrollmentTypes ==
  ASSUME JobsOK, AccessTypeOK, EnrollmentStep
  PROVE  AccessTypeOK'
<1>1. ASSUME NEW t \in Threads, NEW i \in Invites, NEW k \in Keys, AskEnroll(t, i, k)
      PROVE  AccessTypeOK'
  BY <1>1 DEF AskEnroll, Begin, AccessTypeOK, access
<1>2. ASSUME NEW t \in Threads, CreatePrincipal(t)
      PROVE  AccessTypeOK'
  BY <1>2 DEF CreatePrincipal, AccessTypeOK, budgets
<1>3. ASSUME NEW t \in Threads, CheckKey(t) \/ GrantCreate(t)
      PROVE  AccessTypeOK'
  BY <1>3 DEF CheckKey, GrantCreate, AccessTypeOK, budgets, access
<1>4. ASSUME NEW t \in Threads, AddKey(t)
      PROVE  AccessTypeOK'
  <2>1. job[t].who \in Principals /\ job[t].key \in Keys
    BY <1>4, InKind DEF AddKey, At, EnrollStages
  <2>2. QED
    BY <1>4, <2>1 DEF AddKey, AccessTypeOK, budgets
<1>5. ASSUME NEW t \in Threads, ConsumeInvite(t)
      PROVE  AccessTypeOK'
  <2>1. job[t].who \in Principals /\ job[t].invite \in Invites
    BY <1>5, InKind DEF ConsumeInvite, At, EnrollStages
  <2>2. QED
    BY <1>5, <2>1 DEF ConsumeInvite, AccessTypeOK, budgets
<1>6. ASSUME NEW i \in Invites, InviteExpires(i)
      PROVE  AccessTypeOK'
  BY <1>6 DEF InviteExpires, AccessTypeOK, budgets
<1>7. QED
  BY <1>1, <1>2, <1>3, <1>4, <1>5, <1>6 DEF EnrollmentStep

LEMMA ProfileAccessTypes ==
  ASSUME AccessTypeOK, ProfileStep
  PROVE  AccessTypeOK'
<1>1. ASSUME NEW t \in Threads, NEW p \in Profiles,
             (\E pr \in Principals : AskCreate(t, pr, p)) \/ AskCreateTotp(t, p) \/ AskDelete(t, p)
      PROVE  AccessTypeOK'
  <2>1. ASSUME NEW pr \in Principals, AskCreate(t, pr, p)
        PROVE  AccessTypeOK'
    BY <2>1, BeginCounts, AccessKept DEF AskCreate
  <2>2. ASSUME AskCreateTotp(t, p)
        PROVE  AccessTypeOK'
    BY <2>2, BeginCounts, AccessKept DEF AskCreateTotp
  <2>3. ASSUME AskDelete(t, p)
        PROVE  AccessTypeOK'
    BY <2>3, BeginCounts, AccessKept DEF AskDelete
  <2>4. QED
    BY <1>1, <2>1, <2>2, <2>3
<1>2. ASSUME NEW t \in Threads, NEW old \in Profiles, NEW new \in Profiles,
             MigrateFiles(t, old, new) \/ ScriptFiles(t, old, new)
      PROVE  AccessTypeOK'
  <2>1. ASSUME NEW s, MoveFiles(t, s, old, new)
        PROVE  AccessTypeOK'
    BY <2>1, BeginCounts, AccessKept DEF MoveFiles
  <2>2. QED
    BY <1>2, <2>1 DEF MigrateFiles, ScriptFiles
<1>3. ASSUME NEW t \in Threads, NEW ps \in SUBSET Profiles, AskDevice(t, ps)
      PROVE  AccessTypeOK'
  BY <1>3 DEF AskDevice, Begin, AccessTypeOK, access
<1>4. ASSUME NEW t \in Threads,
             \/ InsertProfile(t) \/ MakeFiles(t) \/ WriteFiles(t) \/ Unregister(t) \/ Discard(t)
             \/ GrantOwner(t) \/ WipeData(t) \/ EraseRow(t) \/ RemoveFiles(t) \/ RevokeAll(t)
      PROVE  AccessTypeOK'
  BY <1>4 DEF InsertProfile, MakeFiles, WriteFiles, Unregister, Discard, GrantOwner, WipeData,
              EraseRow, RemoveFiles, RevokeAll, AccessTypeOK, access, budgets
<1>5. ASSUME NEW t \in Threads, FilesFail(t) \/ MigrateBack(t)
      PROVE  AccessTypeOK'
  BY <1>5 DEF FilesFail, MigrateBack, AccessTypeOK, access
<1>6. ASSUME NEW t \in Threads, IssueDevice(t)
      PROVE  AccessTypeOK'
  BY <1>6 DEF IssueDevice, AccessTypeOK, budgets
<1>7. ASSUME NEW t \in Threads, MigrateCommit(t) \/ ScriptCommit(t)
      PROVE  AccessTypeOK'
  BY <1>7 DEF MigrateCommit, ScriptCommit, Rewritten, AccessTypeOK, budgets
<1>8. ASSUME NEW pr \in Principals, RevokeDevice(pr) \/ \E p \in Profiles : AddData(pr, p)
      PROVE  AccessTypeOK'
  <2>1. UNCHANGED <<access, told, faults>> /\ reqs' = reqs + 1
    BY <1>8 DEF RevokeDevice, AddData
  <2>2. QED
    BY <2>1 DEF AccessTypeOK, access
<1>9. ASSUME NEW ts \in SUBSET Threads, Interrupt(ts)
      PROVE  AccessTypeOK'
  BY <1>9 DEF Interrupt, Interrupted, AccessTypeOK, access
<1>10. QED
  BY <1>1, <1>2, <1>3, <1>4, <1>5, <1>6, <1>7, <1>8, <1>9 DEF ProfileStep

LEMMA ProjectAccessTypes ==
  ASSUME AccessTypeOK, asks \subseteq Asks, ProjectStep, UNCHANGED <<access, told>>
  PROVE  AccessTypeOK'
<1>1. reqs' \in Nat /\ faults' \in Nat
  <2>1. ASSUME NEW t \in Threads, ProjectWork(t)
        PROVE  reqs' \in Nat /\ faults' \in Nat
    <3>1. ASSUME NEW ask \in asks, NEW v \in BOOLEAN, Decide(t, ask, v)
          PROVE  reqs' \in Nat /\ faults' \in Nat
      <4> DEFINE go(stage) == Begin(t, [at |-> stage, project |-> ask[2], profile |-> ask[3],
                                        ask |-> ask])
      <4>1. \A s : go(s) => reqs' \in Nat /\ faults' \in Nat
        BY BeginCounts
      <4>2. go("activate") \/ go("reject") \/ go("settle") \/ go("enter")
            \/ ask[1] \notin {"create", "join"}
        BY <3>1 DEF Decide
      <4>3. ask[1] \in {"create", "join"}
        BY DEF Asks
      <4> HIDE DEF go
      <4>4. QED
        BY <4>1, <4>2, <4>3
    <3>2. ASSUME NEW ask \in asks, Withdraw(t, ask)
          PROVE  reqs' \in Nat /\ faults' \in Nat
      BY <3>2, BeginCounts DEF Withdraw
    <3>3. ASSUME NEW x \in Projects, NEW p \in Profiles, ProposeProject(t, x, p)
          PROVE  reqs' \in Nat /\ faults' \in Nat
      BY <3>3, BeginCounts DEF ProposeProject
    <3>4. ASSUME NEW x \in Projects, NEW p \in Profiles, Leave(t, x, p)
          PROVE  reqs' \in Nat /\ faults' \in Nat
      BY <3>4, BeginCounts DEF Leave
    <3>5. ASSUME NEW x \in Projects, AskDeleteProject(t, x)
          PROVE  reqs' \in Nat /\ faults' \in Nat
      BY <3>5, BeginCounts DEF AskDeleteProject
    <3>6. ASSUME \/ AskForProject(t) \/ Activate(t) \/ Enter(t) \/ Reject(t) \/ Settle(t)
                 \/ LookAtProject(t) \/ Depart(t) \/ LookBack(t) \/ Notify(t) \/ DropProject(t)
          PROVE  reqs' \in Nat /\ faults' \in Nat
      <4>1. UNCHANGED budgets
        BY <3>6 DEF AskForProject, Activate, Enter, Reject, Settle, LookAtProject, Depart, LookBack,
                    Notify, DropProject
      <4>2. QED
        BY <4>1 DEF AccessTypeOK, budgets
    <3>7. QED
      BY <2>1, <3>1, <3>2, <3>3, <3>4, <3>5, <3>6 DEF ProjectWork
  <2>2. ASSUME ProjectNotes
        PROVE  reqs' \in Nat /\ faults' \in Nat
    BY <2>2 DEF ProjectNotes, AskToJoin, Silence, budgets, AccessTypeOK
  <2>3. QED
    BY <2>1, <2>2, ProjectStepIs
<1>2. QED
  BY <1>1, AccessKept

-----------------------------------------------------------------------------
(* Types of the tables of profiles *)

Ops == {"create_profile"} \cup DeviceOps \cup {OwnerOps[n] : n \in DOMAIN OwnerOps}

GrantRows == [who : Principals, on : Profiles \cup {Anywhere}, life : 0 .. lives, op : Ops]

LEMMA GrantRow ==
  ASSUME NEW w \in Principals, NEW op \in Ops, NEW p \in Profiles \cup {Anywhere},
         NEW l \in 0 .. lives
  PROVE  /\ Grant(w, op, p, l) \in GrantRows
         /\ Grant(w, op, p, l).who = w /\ Grant(w, op, p, l).op = op
         /\ Grant(w, op, p, l).on = p /\ Grant(w, op, p, l).life = l
BY DEF Grant, GrantRows

LEMMA GrantRowHas ==
  ASSUME NEW g \in GrantRows
  PROVE  /\ g.who \in Principals /\ g.op \in Ops /\ g.on \in Profiles \cup {Anywhere}
         /\ g.life \in 0 .. lives
         /\ \A p \in Profiles \cup {Anywhere} :
              /\ [g EXCEPT !.on = p] \in GrantRows
              /\ [g EXCEPT !.on = p].on = p /\ [g EXCEPT !.on = p].who = g.who
              /\ [g EXCEPT !.on = p].op = g.op /\ [g EXCEPT !.on = p].life = g.life
BY DEF GrantRows

LEMMA GrantIs ==
  ASSUME NEW g \in GrantRows
  PROVE  g = Grant(g.who, g.op, g.on, g.life)
BY DEF GrantRows, Grant

FileKinds == {NoFiles, SomeFiles} \cup 1 .. lives

\* The tables of profiles, but for the registrations.
TablesOK ==
  /\ files \in [Profiles -> FileKinds]
  /\ redirects \subseteq Profiles \X Profiles
  /\ devices \subseteq Principals \X (0 .. lives)
  /\ grants \subseteq GrantRows
  /\ owned \subseteq Principals \X (0 .. lives)
  /\ hurried \subseteq Principals /\ torn \subseteq Profiles

LEMMA EnrollmentTables ==
  ASSUME JobsOK, TablesOK, RowsOK, EnrollmentStep, UNCHANGED profileVars
  PROVE  TablesOK'
<1>1. UNCHANGED <<row, files, data, redirects, devices, lives, owned, hurried, torn>>
  BY DEF profileVars, profileTables, profileNotes
<1>2. GrantRows' = GrantRows
  BY <1>1 DEF GrantRows, Ops
<1>3. grants' \subseteq GrantRows
  <2>1. ASSUME NEW t \in Threads, GrantCreate(t)
        PROVE  grants' \subseteq GrantRows
    <3>1. job[t].who \in Principals
      BY <2>1, InKind DEF GrantCreate, At, EnrollStages
    <3>2. Grant(job[t].who, "create_profile", Anywhere, 0) \in GrantRows
      BY <3>1, GrantRow DEF RowsOK, Ops
    <3>3. QED
      BY <2>1, <3>2 DEF GrantCreate, TablesOK
  <2>2. (\E t \in Threads : GrantCreate(t)) \/ grants' = grants
    BY DEF EnrollmentStep, AskEnroll, CreatePrincipal, CheckKey, AddKey, ConsumeInvite,
           InviteExpires, access
  <2>3. QED
    BY <2>1, <2>2 DEF TablesOK
<1>4. FileKinds' = FileKinds
  BY <1>1 DEF FileKinds, NoFiles, SomeFiles
<1>5. QED
  BY <1>1, <1>2, <1>3, <1>4 DEF TablesOK

LEMMA TablesKept ==
  ASSUME RowsOK, TablesOK, lives' = lives \/ lives' = lives + 1,
         files' \in [Profiles -> FileKinds],
         redirects' \subseteq Profiles \X Profiles,
         devices' \subseteq Principals \X (0 .. lives),
         grants' \subseteq GrantRows,
         owned' \subseteq Principals \X (0 .. lives),
         hurried' \subseteq Principals, torn' \subseteq Profiles
  PROVE  TablesOK'
<1>1. 0 .. lives \subseteq 0 .. lives'
  BY DEF RowsOK
<1>2. GrantRows \subseteq GrantRows'
  BY <1>1 DEF GrantRows, Ops
<1>3. FileKinds \subseteq FileKinds'
  <2>1. \A n \in 1 .. lives : n \in 1 .. lives'
    BY DEF RowsOK
  <2>2. QED
    BY <2>1 DEF FileKinds, NoFiles, SomeFiles
<1>4. files' \in [Profiles -> FileKinds']
  BY <1>3
<1>5. QED
  BY <1>1, <1>2, <1>4 DEF TablesOK

LEMMA ProfileTables ==
  ASSUME JobsOK, TablesOK, RowsOK, ProfileStep
  PROVE  TablesOK'
<1>0. /\ lives \in Nat /\ row \in [Profiles -> 0 .. lives]
      /\ files \in [Profiles -> FileKinds]
      /\ redirects \subseteq Profiles \X Profiles
      /\ devices \subseteq Principals \X (0 .. lives)
      /\ grants \subseteq GrantRows
      /\ owned \subseteq Principals \X (0 .. lives)
      /\ hurried \subseteq Principals /\ torn \subseteq Profiles
  BY DEF RowsOK, TablesOK
<1>1. ASSUME UNCHANGED <<files, redirects, devices, grants, owned, lives>>,
             hurried' \subseteq Principals, torn' \subseteq Profiles
      PROVE  TablesOK'
  BY <1>0, <1>1, TablesKept
<1>2. ASSUME NEW t \in Threads, NEW p \in Profiles,
             (\E pr \in Principals : AskCreate(t, pr, p)) \/ AskCreateTotp(t, p) \/ AskDelete(t, p)
      PROVE  TablesOK'
  <2>1. UNCHANGED <<files, redirects, devices, grants, owned, lives, torn>>
    BY <1>2 DEF AskCreate, AskCreateTotp, AskDelete, access, profileVars, profileTables,
                    profileNotes
  <2>2. hurried' \subseteq Principals
    <3>1. ASSUME NEW pr \in Principals, AskCreate(t, pr, p)
          PROVE  hurried' \subseteq Principals
      BY <1>0, <3>1 DEF AskCreate
    <3>2. ASSUME AskCreateTotp(t, p) \/ AskDelete(t, p)
          PROVE  hurried' \subseteq Principals
      BY <1>0, <3>2 DEF AskCreateTotp, AskDelete, profileVars, profileNotes
    <3>3. QED
      BY <1>2, <3>1, <3>2
  <2>3. QED
    BY <1>0, <1>1, <2>1, <2>2
<1>3. ASSUME NEW t \in Threads, NEW s, NEW old \in Profiles, NEW new \in Profiles,
             MoveFiles(t, s, old, new)
      PROVE  TablesOK'
  <2>1. UNCHANGED <<redirects, devices, grants, owned, lives, hurried, torn>>
        /\ files' = [files EXCEPT ![new] = files[old], ![old] = NoFiles]
    BY <1>3 DEF MoveFiles, access, profileNotes
  <2>2. files' \in [Profiles -> FileKinds]
    <3>1. files' = [p \in Profiles |-> files'[p]]
      BY <1>0, <2>1
    <3>2. \A p \in Profiles : files'[p] = IF p = old THEN NoFiles ELSE IF p = new THEN files[old]
                                          ELSE files[p]
      BY <1>0, <2>1
    <3>3. \A p \in Profiles : files'[p] \in FileKinds
      BY <1>0, <3>2 DEF FileKinds
    <3>4. QED
      BY <3>1, <3>3
  <2>3. QED
    BY <1>0, <2>1, <2>2, TablesKept
<1>4. ASSUME NEW t \in Threads, NEW ps \in SUBSET Profiles, AskDevice(t, ps)
      PROVE  TablesOK'
  BY <1>0, <1>1, <1>4 DEF AskDevice, access, profileVars, profileTables, profileNotes
<1>5. ASSUME NEW t \in Threads, IssueDevice(t)
      PROVE  TablesOK'
  <2> DEFINE of == job[t].lives
  <2>1. DOMAIN of \subseteq Profiles /\ of \in [DOMAIN of -> 0 .. lives]
    BY <1>5, InKind DEF IssueDevice, At
  <2>2. PICK pr \in Principals \ principals :
          /\ grants' = grants \cup {Grant(pr, op, p, of[p]) : op \in DeviceOps, p \in DOMAIN of}
          /\ devices' = devices \cup {<<pr, of[p]>> : p \in DOMAIN of}
    BY <1>5 DEF IssueDevice
  <2>3. /\ torn' = torn \cup {p \in DOMAIN of :
                                row[p] # of[p] /\ About(p, {"unlink", "revoke"}) = {}}
        /\ UNCHANGED <<files, redirects, lives, owned, hurried>>
    BY <1>5 DEF IssueDevice
  <2> HIDE DEF of
  <2>4. \A op \in DeviceOps, p \in DOMAIN of : Grant(pr, op, p, of[p]) \in GrantRows
    BY <2>1, GrantRow DEF Ops
  <2>5. grants' \subseteq GrantRows
    BY <1>0, <2>2, <2>4
  <2>6. devices' \subseteq Principals \X (0 .. lives)
    BY <1>0, <2>1, <2>2
  <2>7. torn' \subseteq Profiles
    BY <1>0, <2>1, <2>3
  <2>8. QED
    BY <1>0, <2>3, <2>5, <2>6, <2>7, TablesKept
<1>6. ASSUME NEW t \in Threads, InsertProfile(t)
      PROVE  TablesOK'
  <2>1. job[t].profile \in Profiles
    BY <1>6, InKind DEF InsertProfile, At, Creating
  <2>2. /\ UNCHANGED <<files, redirects, devices, grants, owned, hurried>>
        /\ lives' = lives \/ lives' = lives + 1
        /\ torn' \subseteq Profiles
    BY <1>0, <1>6, <2>1 DEF InsertProfile, access
  <2>3. QED
    BY <1>0, <2>2, TablesKept
<1>7. ASSUME NEW t \in Threads,
             MakeFiles(t) \/ WriteFiles(t) \/ Discard(t) \/ RemoveFiles(t)
      PROVE  TablesOK'
  <2>0. Present(job[t].profile) => row[job[t].profile] \in 1 .. lives
    <3>1. job[t].profile \in Profiles
      BY <1>7, InKind DEF MakeFiles, WriteFiles, Discard, RemoveFiles, At, Creating, Deleting
    <3>2. QED
      BY <1>0, <3>1 DEF Present
  <2>1. /\ \E f \in FileKinds : files' = [files EXCEPT ![job[t].profile] = f]
        /\ UNCHANGED <<redirects, devices, grants, owned, lives, hurried, torn>>
    BY <1>7, <2>0 DEF MakeFiles, WriteFiles, Discard, RemoveFiles, access, profileNotes, FileKinds
  <2>2. files' \in [Profiles -> FileKinds]
    BY <1>0, <2>1
  <2>3. QED
    BY <1>0, <2>1, <2>2, TablesKept
<1>8. ASSUME NEW t \in Threads, FilesFail(t) \/ WipeData(t)
      PROVE  TablesOK'
  BY <1>0, <1>1, <1>8 DEF FilesFail, WipeData, access, profileVars, profileTables, profileNotes
<1>9. ASSUME NEW t \in Threads, Unregister(t) \/ EraseRow(t)
      PROVE  TablesOK'
  <2>1. job[t].profile \in Profiles
    BY <1>9, InKind DEF Unregister, EraseRow, At, Creating, Deleting
  <2>2. /\ UNCHANGED <<files, devices, grants, owned, lives, hurried>>
        /\ redirects' \subseteq redirects /\ torn' \subseteq torn \cup {job[t].profile}
    BY <1>9 DEF Unregister, EraseRow, access
  <2>3. QED
    BY <1>0, <2>1, <2>2, TablesKept
<1>10. ASSUME NEW t \in Threads, GrantOwner(t)
       PROVE  TablesOK'
  <2>1. /\ job[t].who \in Principals /\ job[t].profile \in Profiles
        /\ job[t].life \in 0 .. lives /\ job[t].n \in DOMAIN OwnerOps
    BY <1>10, InKind DEF GrantOwner, At, Creating
  <2>2. Grant(job[t].who, OwnerOps[job[t].n], job[t].profile, job[t].life) \in GrantRows
    <3>1. OwnerOps[job[t].n] \in Ops
      BY <2>1 DEF Ops
    <3>2. job[t].profile \in Profiles \cup {Anywhere}
      BY <2>1
    <3>3. QED
      BY <2>1, <3>1, <3>2, GrantRow
  <2>3. /\ grants' = grants
                \cup {Grant(job[t].who, OwnerOps[job[t].n], job[t].profile, job[t].life)}
        /\ owned' \subseteq owned \cup {<<job[t].who, job[t].life>>}
        /\ UNCHANGED <<files, redirects, devices, lives, hurried, torn>>
    BY <1>10 DEF GrantOwner, profileTables
  <2>4. grants' \subseteq GrantRows /\ owned' \subseteq Principals \X (0 .. lives)
    BY <1>0, <2>1, <2>2, <2>3
  <2>5. QED
    BY <1>0, <2>3, <2>4, TablesKept
<1>11. ASSUME NEW t \in Threads, RevokeAll(t)
       PROVE  TablesOK'
  <2>1. /\ grants' \subseteq grants
        /\ UNCHANGED <<files, redirects, devices, owned, lives, hurried, torn>>
    BY <1>11 DEF RevokeAll, WithoutGrantsOn, profileVars, profileTables, profileNotes
  <2>2. QED
    BY <1>0, <2>1, TablesKept
<1>12. ASSUME NEW t \in Threads, MigrateCommit(t) \/ ScriptCommit(t)
       PROVE  TablesOK'
  <2>1. Rewritten(t) /\ job[t].at \in Offline
    BY <1>12 DEF MigrateCommit, ScriptCommit, At, Offline
  <2>2. PICK old \in Profiles : old = job[t].old
    BY <2>1, InKind
  <2>3. PICK new \in Profiles : new = job[t].new
    BY <2>1, InKind
  <2>4. /\ grants' = {[g EXCEPT !.on = Renamed(g.on, old, new)] : g \in grants}
        /\ torn' \subseteq torn \cup {new}
        /\ UNCHANGED <<files, devices, lives, owned, hurried>>
    BY <2>1, <2>2, <2>3 DEF Rewritten
  <2>5. \A g \in grants : [g EXCEPT !.on = Renamed(g.on, old, new)] \in GrantRows
    <3>1. SUFFICES ASSUME NEW g \in grants
                   PROVE  [g EXCEPT !.on = Renamed(g.on, old, new)] \in GrantRows
      OBVIOUS
    <3>2. Renamed(g.on, old, new) \in Profiles \cup {Anywhere}
      BY <1>0, GrantRowHas DEF Renamed
    <3>3. QED
      BY <1>0, <3>2, GrantRowHas
  <2>6. grants' \subseteq GrantRows
    BY <2>4, <2>5
  <2>7. redirects' \subseteq Profiles \X Profiles
    <3>1. CASE ScriptCommit(t)
      BY <1>0, <3>1 DEF ScriptCommit
    <3>2. CASE MigrateCommit(t)
      <4>1. redirects' = {<<r[1], Renamed(r[2], old, new)>> : r \in redirects} \cup {<<old, new>>}
        BY <2>2, <2>3, <3>2 DEF MigrateCommit
      <4>2. QED
        BY <1>0, <4>1 DEF Renamed
    <3>3. QED
      BY <1>12, <3>1, <3>2
  <2>8. QED
    BY <1>0, <2>4, <2>6, <2>7, TablesKept
<1>13. ASSUME NEW t \in Threads, MigrateBack(t)
       PROVE  TablesOK'
  <2>2. PICK old \in Profiles : old = job[t].old
    BY <1>13, InKind DEF MigrateBack, Migrating
  <2>3. PICK new \in Profiles : new = job[t].new
    BY <1>13, InKind DEF MigrateBack, Migrating
  <2>4. UNCHANGED <<redirects, devices, grants, owned, lives, hurried, torn>>
        /\ files' = [files EXCEPT ![old] = files[new], ![new] = NoFiles]
    BY <1>13, <2>2, <2>3 DEF MigrateBack, access, profileNotes
  <2>5. files' \in [Profiles -> FileKinds]
    <3>1. files' = [p \in Profiles |-> files'[p]]
      BY <1>0, <2>4
    <3>2. \A p \in Profiles : files'[p] = IF p = new THEN NoFiles ELSE IF p = old THEN files[new]
                                          ELSE files[p]
      BY <1>0, <2>4
    <3>3. \A p \in Profiles : files'[p] \in FileKinds
      BY <1>0, <3>2 DEF FileKinds
    <3>4. QED
      BY <3>1, <3>3
  <2>6. QED
    BY <1>0, <2>4, <2>5, TablesKept
<1>14. ASSUME NEW pr \in Principals, NEW p \in Profiles, AddData(pr, p)
       PROVE  TablesOK'
  BY <1>0, <1>1, <1>14 DEF AddData, access, profileNotes
<1>15. ASSUME NEW pr \in Principals, RevokeDevice(pr)
       PROVE  TablesOK'
  <2>1. devices' \subseteq devices
        /\ UNCHANGED <<files, redirects, grants, owned, lives, hurried, torn>>
    BY <1>15 DEF RevokeDevice, access, profileNotes
  <2>2. QED
    BY <1>0, <2>1, TablesKept
<1>16. ASSUME NEW ts \in SUBSET Threads, Interrupt(ts)
       PROVE  TablesOK'
  <2>1. torn' \subseteq Profiles
    BY <1>0, <1>16 DEF Interrupt
  <2>2. QED
    BY <1>0, <1>1, <1>16, <2>1 DEF Interrupt, access, profileTables
<1>17. QED
  <2>1. ASSUME NEW t \in Threads, NEW old \in Profiles, NEW new \in Profiles,
               MigrateFiles(t, old, new) \/ ScriptFiles(t, old, new)
        PROVE  TablesOK'
    BY <1>3, <2>1 DEF MigrateFiles, ScriptFiles
  <2>2. QED
    BY <1>2, <1>4, <1>5, <1>6, <1>7, <1>8, <1>9, <1>10, <1>11, <1>12, <1>13, <1>14, <1>15, <1>16,
       <2>1 DEF ProfileStep

PresentIds == {p \in Profiles : Present(p)}

\* The rows of dynamic stores that the foreign keys let be.
DataRows == {<<p, row[p]>> : p \in PresentIds}

LEMMA DataKept ==
  ASSUME data \subseteq DataRows, row' = row, data' \subseteq data
  PROVE  data' \subseteq DataRows'
BY DEF DataRows, PresentIds, Present

\* Data follow their profile.
LEMMA DataWell ==
  ASSUME JobsOK, RowsOK, MovesAlone, data \subseteq DataRows, ProfileStep
  PROVE  data' \subseteq DataRows'
<1>1. ASSUME NEW t \in Threads, InsertProfile(t)
      PROVE  data' \subseteq DataRows'
  <2>1. job[t].profile \in Profiles
    BY <1>1, InKind DEF InsertProfile, At, Creating
  <2>2. PICK p \in Profiles : p = job[t].profile
    BY <2>1
  <2>3. data' = data /\ (row' = row \/ row' = [row EXCEPT ![p] = lives + 1])
    BY <1>1, <2>2 DEF InsertProfile
  <2>4. row' = row \/ row[p] = 0
    BY <1>1, <2>2 DEF InsertProfile, Present
  <2>5. QED
    BY <2>3, <2>4 DEF DataRows, PresentIds, Present, RowsOK
<1>2. ASSUME NEW t \in Threads, Unregister(t) \/ EraseRow(t)
      PROVE  data' \subseteq DataRows'
  <2>1. job[t].profile \in Profiles
    BY <1>2, InKind DEF Unregister, EraseRow, At, Creating, Deleting
  <2>2. PICK p \in Profiles : p = job[t].profile
    BY <2>1
  <2>3. data' = data /\ (row' = row \/ (row' = [row EXCEPT ![p] = 0] /\ ~HasData(p)))
    BY <1>2, <2>2 DEF Unregister, EraseRow
  <2>4. QED
    BY <2>3 DEF HasData, DataRows, PresentIds, Present, RowsOK
<1>3. ASSUME NEW t \in Threads, MigrateCommit(t) \/ ScriptCommit(t)
      PROVE  data' \subseteq DataRows'
  <2>1. Rewritten(t) /\ Migrating(t) /\ job[t].at \in Offline
    BY <1>3 DEF MigrateCommit, ScriptCommit, At, Migrating, Offline
  <2>2. PICK old \in Profiles : old = job[t].old
    BY <2>1, InKind
  <2>3. PICK new \in Profiles : new = job[t].new
    BY <2>1, InKind
  <2>4. /\ row' = [row EXCEPT ![new] = row[old], ![old] = 0]
        /\ data' = {<<Renamed(d[1], old, new), d[2]>> : d \in data}
    BY <2>1, <2>2, <2>3 DEF Rewritten
  <2>5. old # new /\ row[old] # 0 /\ row[new] = 0
    BY <2>1, <2>2, <2>3 DEF MovesAlone, Present
  <2>6. \A p \in Profiles :
          row'[p] = IF p = old THEN 0 ELSE IF p = new THEN row[old] ELSE row[p]
    BY <2>4, <2>5 DEF RowsOK
  <2>7. ASSUME NEW p \in PresentIds
        PROVE  /\ Renamed(p, old, new) \in Profiles /\ row'[Renamed(p, old, new)] # 0
               /\ row'[Renamed(p, old, new)] = row[p]
    BY <2>5, <2>6 DEF Renamed, PresentIds, Present
  <2>8. ASSUME NEW d \in data
        PROVE  <<Renamed(d[1], old, new), d[2]>> \in DataRows'
    <3>1. PICK p \in PresentIds : d = <<p, row[p]>>
      BY DEF DataRows
    <3>2. Renamed(p, old, new) \in PresentIds' /\ d[2] = row'[Renamed(p, old, new)]
      BY <2>7, <3>1 DEF PresentIds, Present
    <3>3. QED
      BY <3>1, <3>2 DEF DataRows
  <2>9. QED
    BY <2>4, <2>8
<1>4. ASSUME NEW t \in Threads, WipeData(t)
      PROVE  data' \subseteq DataRows'
  BY <1>4, DataKept DEF WipeData
<1>5. ASSUME NEW pr \in Principals, NEW p \in Profiles, AddData(pr, p)
      PROVE  data' \subseteq DataRows'
  BY <1>5 DEF AddData, Reachable, DataRows, PresentIds, Present
<1>6. ASSUME NEW t \in Threads,
             \/ \E p \in Profiles : \/ \E pr \in Principals : AskCreate(t, pr, p)
                                    \/ AskCreateTotp(t, p) \/ AskDelete(t, p)
             \/ \E ps \in SUBSET Profiles : AskDevice(t, ps)
      PROVE  data' \subseteq DataRows'
  <2>1. UNCHANGED profileTables
    BY <1>6 DEF AskCreate, AskCreateTotp, AskDelete, AskDevice, profileVars
  <2>2. QED
    BY <2>1, DataKept DEF profileTables
<1>7. ASSUME NEW t \in Threads, NEW old \in Profiles, NEW new \in Profiles,
             MigrateFiles(t, old, new) \/ ScriptFiles(t, old, new)
      PROVE  data' \subseteq DataRows'
  BY <1>7, DataKept DEF MigrateFiles, ScriptFiles, MoveFiles
<1>8. ASSUME NEW t \in Threads,
             \/ IssueDevice(t) \/ MakeFiles(t) \/ WriteFiles(t) \/ FilesFail(t) \/ Discard(t)
             \/ GrantOwner(t) \/ RemoveFiles(t) \/ RevokeAll(t) \/ MigrateBack(t)
      PROVE  data' \subseteq DataRows'
  BY <1>8, DataKept DEF IssueDevice, MakeFiles, WriteFiles, FilesFail, Discard, GrantOwner,
    RemoveFiles, RevokeAll, MigrateBack, profileVars, profileTables
<1>9. ASSUME (\E pr \in Principals : RevokeDevice(pr)) \/ \E ts \in SUBSET Threads : Interrupt(ts)
      PROVE  data' \subseteq DataRows'
  BY <1>9, DataKept DEF RevokeDevice, Interrupt, profileTables
<1>10. QED
  BY <1>1, <1>2, <1>3, <1>4, <1>5, <1>6, <1>7, <1>8, <1>9 DEF ProfileStep

-----------------------------------------------------------------------------
(* Types of the tables of projects *)

ProjectsOK ==
  /\ proj \in [Projects -> {"none", "pending", "active", "gone"}]
  /\ creator \in [Projects -> Profiles]
  /\ members \in [Projects -> SUBSET PresentIds]
  /\ noted \in [Projects -> {"none", "open", "silenced"}]
  /\ asks \subseteq Asks
  /\ unseen \subseteq Projects /\ contested \subseteq Projects

LEMMA TypeOKIs ==
  TypeOK <=> /\ AccessTypeOK /\ RowsOK /\ TablesOK /\ JobsOK /\ ProjectsOK
             /\ data \subseteq DataRows
<1>1. PresentIds = {p \in Profiles : Present(p)}
      /\ DataRows = {<<p, row[p]>> : p \in {q \in Profiles : Present(q)}}
  BY DEF PresentIds, DataRows
<1>2. JobsOK <=> job \in [Threads -> {Nothing} \cup EnrollJobs \cup ProfileJobs \cup ProjectJobs]
  BY JobsAre DEF JobsOK
<1>3. ProfileTypeOK <=> RowsOK /\ TablesOK /\ data \subseteq Profiles \X (0 .. lives)
  BY DEF ProfileTypeOK, RowsOK, TablesOK, GrantRows, Ops, FileKinds
<1>4. RowsOK => DataRows \subseteq Profiles \X (0 .. lives)
  BY DEF RowsOK, DataRows, PresentIds
<1>5. QED
  BY <1>1, <1>2, <1>3, <1>4 DEF TypeOK, ProjectsOK

LEMMA ProfilesMoveProjects ==
  ASSUME JobsOK, MovesAlone, OneIdEach, RowsOK, ProjectsOK, RowStep, ProfilesMove
  PROVE  ProjectsOK'
<1>1. /\ creator' \in [Projects -> Profiles]
      /\ members' \in [Projects -> SUBSET {p \in Profiles : row'[p] # 0}]
      /\ asks' \subseteq Asks
  BY CascadeTypes DEF ProfilesMove, ProjectsOK, PresentIds, RowsOK
<1>2. proj' = proj /\ noted' = noted /\ contested' = contested
  BY DEF ProfilesMove, Cascade
<1>3. unseen' \subseteq Projects
  BY DEF ProfilesMove, Unseen, ProjectsOK
<1>4. QED
  BY <1>1, <1>2, <1>3 DEF ProjectsOK, PresentIds, Present

LEMMA ProjectTypes ==
  ASSUME JobsOK, RowsOK, ProjectsOK, ProjectStep, row' = row
  PROVE  ProjectsOK'
<1>0. /\ proj \in [Projects -> {"none", "pending", "active", "gone"}]
      /\ creator \in [Projects -> Profiles]
      /\ members \in [Projects -> SUBSET PresentIds]
      /\ noted \in [Projects -> {"none", "open", "silenced"}]
      /\ asks \subseteq Asks
      /\ unseen \subseteq Projects /\ contested \subseteq Projects
      /\ PresentIds' = PresentIds
  BY DEF ProjectsOK, PresentIds, Present
<1> DEFINE Tables ==
      /\ proj' \in [Projects -> {"none", "pending", "active", "gone"}]
      /\ creator' \in [Projects -> Profiles]
      /\ members' \in [Projects -> SUBSET PresentIds]
      /\ noted' \in [Projects -> {"none", "open", "silenced"}]
      /\ asks' \subseteq Asks
      /\ unseen' \subseteq Projects
<1>1. ASSUME NEW t \in Threads, NEW x \in Projects, NEW p \in Profiles, ProposeProject(t, x, p)
      PROVE  Tables
  BY <1>0, <1>1 DEF ProposeProject
<1>2. ASSUME NEW t \in Threads, AskForProject(t)
      PROVE  Tables
  <2>1. job[t].project \in Projects /\ job[t].profile \in Profiles
    BY <1>2, InKind DEF AskForProject, At, PlainStages
  <2>2. <<"create", job[t].project, job[t].profile>> \in Asks
    BY <2>1 DEF Asks
  <2>3. QED
    BY <1>0, <1>2, <2>2 DEF AskForProject
<1>3. ASSUME NEW x \in Projects, NEW p \in Profiles, AskToJoin(x, p)
      PROVE  Tables
  <2>1. <<"join", x, p>> \in Asks
    BY DEF Asks
  <2>2. QED
    BY <1>0, <1>3, <2>1 DEF AskToJoin
<1>4. ASSUME NEW t \in Threads, NEW ask \in asks, NEW v \in BOOLEAN, Decide(t, ask, v)
      PROVE  Tables
  BY <1>0, <1>4 DEF Decide, projectTables
<1>5. ASSUME NEW t \in Threads, Activate(t)
      PROVE  Tables
  <2>1. PICK x \in Projects : x = job[t].project
    BY <1>5, InKind DEF Activate, At, AskStages
  <2>2. \/ UNCHANGED <<proj, members>>
        \/ /\ Present(creator[x])
           /\ proj' = [proj EXCEPT ![x] = "active"]
           /\ members' = [members EXCEPT ![x] = @ \cup {creator[x]}]
    BY <1>5, <2>1 DEF Activate
  <2>3. UNCHANGED <<creator, noted, asks, unseen>>
    BY <1>5 DEF Activate
  <2>4. Present(creator[x]) => creator[x] \in PresentIds
    BY <1>0 DEF PresentIds
  <2>5. QED
    BY <1>0, <2>2, <2>3, <2>4
<1>6. ASSUME NEW t \in Threads, Enter(t)
      PROVE  Tables
  <2>1. PICK x \in Projects : x = job[t].project
    BY <1>6, InKind DEF Enter, At, AskStages
  <2>2. PICK p \in Profiles : p = job[t].profile
    BY <1>6, InKind DEF Enter, At, AskStages
  <2>3. \/ UNCHANGED members
        \/ Present(p) /\ members' = [members EXCEPT ![x] = @ \cup {p}]
    BY <1>6, <2>1, <2>2 DEF Enter
  <2>4. UNCHANGED <<proj, creator, noted, asks, unseen>>
    BY <1>6 DEF Enter
  <2>5. Present(p) => p \in PresentIds
    BY DEF PresentIds
  <2>6. QED
    BY <1>0, <2>3, <2>4, <2>5
<1>7. ASSUME NEW t \in Threads, Reject(t) \/ DropProject(t)
      PROVE  Tables
  <2>1. PICK x \in Projects : x = job[t].project
    BY <1>7, InKind DEF Reject, DropProject, At, AskStages, PlainStages
  <2>2. Removed(x) /\ UNCHANGED <<creator, asks, unseen>>
    BY <1>7, <2>1 DEF Reject, DropProject
  <2>3. QED
    BY <1>0, <2>2 DEF Removed
<1>8. ASSUME NEW t \in Threads, Settle(t) \/ \E ask \in asks : Withdraw(t, ask)
      PROVE  Tables
  BY <1>0, <1>8 DEF Settle, Withdraw
<1>9. ASSUME NEW t \in Threads,
             \/ LookAtProject(t) \/ LookBack(t)
             \/ \E x \in Projects : AskDeleteProject(t, x) \/ \E p \in Profiles : Leave(t, x, p)
      PROVE  Tables
  BY <1>0, <1>9 DEF LookAtProject, LookBack, AskDeleteProject, Leave, projectTables
<1>10. ASSUME NEW t \in Threads, Depart(t)
       PROVE  Tables
  BY <1>0, <1>10 DEF Depart
<1>11. ASSUME NEW t \in Threads, Notify(t)
       PROVE  Tables
  BY <1>0, <1>11 DEF Notify
<1>12. ASSUME NEW x \in Projects, Silence(x)
       PROVE  Tables
  BY <1>0, <1>12 DEF Silence
<1> HIDE DEF Tables
<1>13. Tables
  BY <1>1, <1>2, <1>3, <1>4, <1>5, <1>6, <1>7, <1>8, <1>9, <1>10, <1>11, <1>12 DEF ProjectStep
<1>14. contested' \subseteq Projects
  <2>1. \A x \in Projects : Contest(x)' \subseteq Projects
    BY DEF Contest
  <2>2. contested' = contested \/ contested' = contested \cup UNION {Contest(x)' : x \in Projects}
    BY DEF ProjectStep, ProposeProject, AskForProject, AskToJoin, Silence
  <2>3. QED
    BY <1>0, <2>1, <2>2
<1>15. QED
  BY <1>0, <1>13, <1>14 DEF Tables, ProjectsOK

-----------------------------------------------------------------------------
(* TypeOK, with what it needs of migrations and registrations *)

Sound == TypeOK /\ MovesAlone /\ OneIdEach

LEMMA SoundHas ==
  Sound <=> /\ AccessTypeOK /\ RowsOK /\ TablesOK /\ JobsOK /\ ProjectsOK
            /\ data \subseteq DataRows /\ MovesAlone /\ OneIdEach
BY TypeOKIs DEF Sound

LEMMA InitSound == Init => Sound
<1> SUFFICES ASSUME Init
             PROVE  Sound
  OBVIOUS
<1>1. InitAccess /\ InitProfiles
  BY DEF Init
<1>2. RowsOK /\ OneIdEach
  <2>1. lives \in Nat
    BY <1>1, FS_CardinalityType DEF InitProfiles
  <2>2. QED
    BY <1>1, <2>1 DEF InitProfiles, RowsOK, OneIdEach, Present
<1>3. AccessTypeOK
  BY <1>1 DEF InitAccess, AccessTypeOK
<1>4. job = [t \in Threads |-> Nothing] /\ JobsOK
  BY <1>1 DEF InitAccess, JobsOK, Jobs
<1>5. MovesAlone
  BY <1>4, KindStage DEF MovesAlone, Migrating, Offline
<1>6. grants \subseteq GrantRows
  <2>1. \A pr \in Founders : Grant(pr, "create_profile", Anywhere, 0) \in GrantRows
    <3>1. SUFFICES ASSUME NEW pr \in Founders
                   PROVE  Grant(pr, "create_profile", Anywhere, 0) \in GrantRows
      OBVIOUS
    <3>2. pr \in Principals /\ Anywhere \in Profiles \cup {Anywhere} /\ 0 \in 0 .. lives
      BY <1>2 DEF RowsOK
    <3>3. "create_profile" \in Ops
      BY DEF Ops
    <3>4. QED
      BY <3>2, <3>3, GrantRow
  <2>2. ASSUME NEW p \in {q \in DOMAIN Standing : Present(q)}, NEW n \in DOMAIN OwnerOps
        PROVE  Grant(Standing[p], OwnerOps[n], p, row[p]) \in GrantRows
    <3>1. p \in Profiles /\ Standing[p] \in Principals /\ row[p] \in 0 .. lives
      BY <1>2 DEF RowsOK
    <3>2. OwnerOps[n] \in Ops
      BY DEF Ops
    <3>3. QED
      BY <3>1, <3>2, GrantRow
  <2>3. QED
    BY <1>1, <2>1, <2>2 DEF InitProfiles
<1>7. TablesOK
  <2>1. files \in [Profiles -> FileKinds]
    BY <1>1, <1>2 DEF InitProfiles, RowsOK, FileKinds, NoFiles
  <2>2. owned \subseteq Principals \X (0 .. lives)
    BY <1>1, <1>2 DEF InitProfiles, RowsOK
  <2>3. redirects = {} /\ devices = {} /\ hurried = {} /\ torn = {}
    BY <1>1 DEF InitProfiles
  <2>4. QED
    BY <1>6, <2>1, <2>2, <2>3 DEF TablesOK
<1>8. data \subseteq DataRows
  BY <1>1 DEF InitProfiles
<1>9. ProjectsOK
  BY DEF Init, ProjectsOK, PresentIds
<1>10. QED
  BY <1>2, <1>3, <1>4, <1>5, <1>7, <1>8, <1>9, SoundHas

\* What every step does with threads and registrations.
LEMMA NextRows ==
  ASSUME Sound, Next
  PROVE  /\ RowsWell
         /\ lives' \in Nat /\ lives <= lives' /\ RowsOK' /\ OneIdEach'
<1>0. /\ AccessTypeOK /\ RowsOK /\ TablesOK /\ JobsOK /\ ProjectsOK
      /\ data \subseteq DataRows /\ MovesAlone /\ OneIdEach
  BY SoundHas
<1>1. RowsWell
  <2>1. CASE ProfilesMove
    BY <1>0, <2>1, ProfileWell, EnrollmentWell DEF ProfilesMove
  <2>2. CASE ProjectStep
    BY <1>0, <2>2, ProjectWell DEF ProjectsOK
  <2>3. QED
    BY <2>1, <2>2 DEF Next
<1>2. lives' \in Nat /\ lives <= lives' /\ row' \in [Profiles -> 0 .. lives'] /\ OneIdEach'
  BY <1>0, <1>1, RowsKept DEF RowsWell, RowsOK
<1>3. QED
  BY <1>1, <1>2 DEF RowsOK

LEMMA NextSound ==
  ASSUME Sound, Next
  PROVE  Sound'
<1>0. /\ AccessTypeOK /\ RowsOK /\ TablesOK /\ JobsOK /\ ProjectsOK
      /\ data \subseteq DataRows /\ MovesAlone /\ OneIdEach
  BY SoundHas
<1>1. RowsWell /\ lives' \in Nat /\ lives <= lives' /\ RowsOK' /\ OneIdEach'
  BY NextRows
<1>2. MovesAlone' /\ JobsOK'
  BY <1>0, <1>1, JobsGrow DEF RowsWell, JobsOK, RowsOK
<1>3. ASSUME ProfilesMove
      PROVE  AccessTypeOK' /\ TablesOK' /\ ProjectsOK' /\ (data \subseteq DataRows)'
  <2>1. ProjectsOK'
    BY <1>0, <1>1, <1>3, ProfilesMoveProjects DEF RowsWell
  <2>2. CASE ProfileStep
    BY <1>0, <2>1, <2>2, ProfileAccessTypes, ProfileTables, DataWell
  <2>3. CASE EnrollmentStep /\ UNCHANGED profileVars
    <3>1. row' = row /\ data' = data
      BY <2>3 DEF profileVars, profileTables
    <3>2. QED
      BY <1>0, <2>1, <2>3, <3>1, EnrollmentTypes, EnrollmentTables, DataKept
  <2>4. QED
    BY <1>3, <2>2, <2>3 DEF ProfilesMove
<1>4. ASSUME ProjectStep
      PROVE  AccessTypeOK' /\ TablesOK' /\ ProjectsOK' /\ (data \subseteq DataRows)'
  <2>1. UNCHANGED <<access, told, profileVars>>
    BY <1>0, <1>4, ProjectWell DEF ProjectsOK
  <2>2. AccessTypeOK'
    BY <1>0, <1>4, <2>1, ProjectAccessTypes DEF ProjectsOK
  <2>3. UNCHANGED <<row, lives, data, files, redirects, devices, grants, owned, hurried, torn>>
    BY <2>1 DEF access, profileVars, profileTables, profileNotes
  <2>4. TablesOK'
    BY <1>0, <2>3 DEF TablesOK, GrantRows, Ops, FileKinds, NoFiles, SomeFiles
  <2>5. ProjectsOK' /\ (data \subseteq DataRows)'
    BY <1>0, <1>4, <2>3, ProjectTypes, DataKept
  <2>6. QED
    BY <2>2, <2>4, <2>5
<1>5. AccessTypeOK' /\ TablesOK' /\ ProjectsOK' /\ (data \subseteq DataRows)'
  BY <1>3, <1>4 DEF Next
<1>6. (/\ AccessTypeOK /\ RowsOK /\ TablesOK /\ JobsOK /\ ProjectsOK
       /\ data \subseteq DataRows /\ MovesAlone /\ OneIdEach)'
  BY <1>1, <1>2, <1>5
<1>7. QED
  BY <1>6, SoundHas, PTL

LEMMA StutterSound == Sound /\ UNCHANGED vars => Sound'
BY DEF Sound, TypeOK, AccessTypeOK, ProfileTypeOK, MovesAlone, OneIdEach, Present, Migrating, Idle,
  ProfileJobs, vars, access, budgets, profileVars, profileTables, profileNotes, projectVars,
  projectTables

\* Every table, request and history variable holds what the code can put there,
\* and the foreign keys of members and data hold, for any number of threads,
\* profiles and projects.
THEOREM TypeCorrect == Spec => []TypeOK
<1>1. Spec => []Sound
  <2>1. Sound /\ [Next]_vars => Sound'
    BY NextSound, StutterSound
  <2>2. QED
    BY InitSound, <2>1, PTL DEF Spec
<1>2. Sound => TypeOK
  BY DEF Sound
<1>3. QED
  BY <1>1, <1>2, PTL

-----------------------------------------------------------------------------
(* Requests on projects while profiles move *)

ProjectStages == PlainStages \cup AskStages

\* A thread with something else to do.
Aside(t) == Alone(t) /\ job[t].at \notin ProjectStages /\ job'[t].at \notin ProjectStages

LEMMA AsideMoved ==
  ASSUME NEW t, NEW s, Moved(t, s), s \notin ProjectStages, job[t].at \notin ProjectStages
  PROVE  Aside(t)
BY DEF Aside, Moved

LEMMA AsideEnded ==
  ASSUME NEW t, Ended(t), job[t].at \notin ProjectStages
  PROVE  Aside(t)
BY KindStage DEF Aside, Ended, ProjectStages, PlainStages, AskStages

LEMMA AsideBegun ==
  ASSUME NEW t, Begun(t), job'[t].at \notin ProjectStages
  PROVE  Aside(t)
BY DEF Aside, Begun, ProjectStages, PlainStages, AskStages

OtherStages ==
  {"idle", "principal", "issue", "grant"} \cup EnrollStages \cup ProfileStages \cup Offline

LEMMA OtherStagesAre == \A s \in OtherStages : s \notin ProjectStages
BY DEF OtherStages, EnrollStages, ProfileStages, Creating, Deleting, Offline, ProjectStages,
       PlainStages, AskStages

LEMMA EnrollmentAside ==
  ASSUME JobsOK, NEW t \in Threads,
         \/ \E i \in Invites, k \in Keys : AskEnroll(t, i, k)
         \/ CreatePrincipal(t) \/ CheckKey(t) \/ AddKey(t) \/ GrantCreate(t) \/ ConsumeInvite(t)
  PROVE  Aside(t)
<1>1. \/ Begun(t) /\ job'[t].at = "principal"
      \/ job[t].at = "principal" /\ job'[t].at = "key" /\ Alone(t)
      \/ job[t].at = "key" /\ (Moved(t, "credential") \/ Ended(t))
      \/ job[t].at = "credential" /\ Moved(t, "admit")
      \/ job[t].at = "admit" /\ Moved(t, "consume")
      \/ job[t].at = "consume" /\ Ended(t)
  BY EnrollMoves
<1>2. \A s \in {"principal", "key", "credential", "admit", "consume"} : s \notin ProjectStages
  BY DEF ProjectStages, PlainStages, AskStages
<1>3. QED
  BY <1>1, <1>2, AsideMoved, AsideEnded, AsideBegun DEF Aside

\* A step of the request of a thread about a profile.
ProfileWork(t) ==
  \/ \E p \in Profiles :
       \/ \E pr \in Principals : AskCreate(t, pr, p)
       \/ AskCreateTotp(t, p) \/ AskDelete(t, p)
       \/ \E new \in Profiles : MigrateFiles(t, p, new) \/ ScriptFiles(t, p, new)
  \/ \E ps \in SUBSET Profiles : AskDevice(t, ps)
  \/ IssueDevice(t) \/ InsertProfile(t) \/ MakeFiles(t) \/ WriteFiles(t) \/ FilesFail(t)
  \/ Unregister(t) \/ Discard(t) \/ GrantOwner(t) \/ WipeData(t) \/ EraseRow(t)
  \/ RemoveFiles(t) \/ RevokeAll(t) \/ MigrateCommit(t) \/ ScriptCommit(t) \/ MigrateBack(t)

LEMMA ProfileStepIs ==
  ProfileStep <=> \/ \E t \in Threads : ProfileWork(t)
                  \/ \E pr \in Principals, p \in Profiles : AddData(pr, p)
                  \/ \E pr \in Principals : RevokeDevice(pr)
                  \/ \E ts \in SUBSET Threads : Interrupt(ts)
BY DEF ProfileStep, ProfileWork

LEMMA ProfileAside ==
  ASSUME JobsOK, RowsOK, NEW t \in Threads, ProfileWork(t)
  PROVE  Aside(t)
<1>0. \A s \in OtherStages : s \notin ProjectStages
  BY OtherStagesAre
<1>1. ASSUME NEW p \in Profiles,
             (\E pr \in Principals : AskCreate(t, pr, p)) \/ AskCreateTotp(t, p) \/ AskDelete(t, p)
      PROVE  Aside(t)
  <2>1. Begun(t) /\ job'[t].at \in {"insert", "wipe"}
    BY <1>1, ProfileMoves DEF RowsOK
  <2>2. QED
    BY <1>0, <2>1, AsideBegun DEF OtherStages, ProfileStages, Creating, Deleting
<1>2. ASSUME NEW old \in Profiles, NEW new \in Profiles,
             MigrateFiles(t, old, new) \/ ScriptFiles(t, old, new)
      PROVE  Aside(t)
  <2>1. Begun(t) /\ job'[t].at \in Offline
    BY <1>2, MigrationMoves DEF Offloaded, Offline
  <2>2. QED
    BY <1>0, <2>1, AsideBegun DEF OtherStages
<1>3. ASSUME NEW ps \in SUBSET Profiles, AskDevice(t, ps)
      PROVE  Aside(t)
  <2>1. Begun(t) /\ job'[t].at = "issue"
    BY <1>3, DeviceMoves DEF RowsOK
  <2>2. QED
    BY <1>0, <2>1, AsideBegun DEF OtherStages
<1>4. ASSUME \/ IssueDevice(t) \/ InsertProfile(t) \/ MakeFiles(t) \/ FilesFail(t) \/ Unregister(t)
             \/ Discard(t) \/ WipeData(t) \/ EraseRow(t) \/ RemoveFiles(t) \/ RevokeAll(t)
             \/ MigrateCommit(t) \/ ScriptCommit(t) \/ MigrateBack(t)
      PROVE  Aside(t)
  <2>1. /\ job[t].at \in OtherStages
        /\ \/ \E s \in {"files", "rest", "unregister", "discard", "erase", "unlink", "revoke"} :
                Moved(t, s)
           \/ Ended(t)
    <3>1. \A s \in Offline \cup {"issue", "insert", "files", "rest", "unregister", "discard",
                                 "wipe", "erase", "unlink", "revoke"} : s \in OtherStages
      BY DEF OtherStages, ProfileStages, Creating, Deleting
    <3>2. CASE MigrateCommit(t) \/ ScriptCommit(t) \/ MigrateBack(t)
      BY <3>1, <3>2, MigrationMoves DEF Migrating, Offline
    <3>3. CASE ~(MigrateCommit(t) \/ ScriptCommit(t) \/ MigrateBack(t))
      BY <1>4, <3>1, <3>3, ProfileMoves, DeviceMoves DEF RowsOK
    <3>4. QED
      BY <3>2, <3>3
  <2>2. \A s \in {"files", "rest", "unregister", "discard", "erase", "unlink", "revoke"} :
          s \in OtherStages
    BY DEF OtherStages, ProfileStages, Creating, Deleting
  <2>3. QED
    BY <1>0, <2>1, <2>2, AsideMoved, AsideEnded
<1>5. ASSUME WriteFiles(t) \/ GrantOwner(t)
      PROVE  Aside(t)
  <2>1. /\ job[t].at \in {"rest", "grant"}
        /\ Ended(t) \/ (Alone(t) /\ job'[t].at = "grant")
    BY <1>5, ProfileMoves DEF RowsOK
  <2>2. {"rest", "grant"} \subseteq OtherStages
    BY DEF OtherStages, ProfileStages, Creating
  <2>3. QED
    BY <1>0, <2>1, <2>2, AsideEnded DEF Aside
<1>6. QED
  BY <1>1, <1>2, <1>3, <1>4, <1>5 DEF ProfileWork

\* Steps of profiles and principals only end requests on projects.
LEMMA ProjectsWait ==
  ASSUME JobsOK, RowsOK, ProfilesMove, NEW u \in Threads
  PROVE  /\ job[u].at \in ProjectStages => job'[u] = job[u] \/ job'[u] = Nothing
         /\ job'[u].at \in ProjectStages => job'[u] = job[u]
<1>1. ASSUME NEW t \in Threads, Aside(t)
      PROVE  /\ job[u].at \in ProjectStages => job'[u] = job[u] \/ job'[u] = Nothing
             /\ job'[u].at \in ProjectStages => job'[u] = job[u]
  BY <1>1 DEF Aside, Alone
<1>2. ASSUME job' = job
      PROVE  /\ job[u].at \in ProjectStages => job'[u] = job[u] \/ job'[u] = Nothing
             /\ job'[u].at \in ProjectStages => job'[u] = job[u]
  BY <1>2
<1>3. ASSUME NEW ts \in SUBSET Threads, Interrupt(ts)
      PROVE  /\ job[u].at \in ProjectStages => job'[u] = job[u] \/ job'[u] = Nothing
             /\ job'[u].at \in ProjectStages => job'[u] = job[u]
  <2>1. job'[u] = job[u] \/ job'[u] = Nothing
    BY <1>3 DEF Interrupt, Interrupted
  <2>2. Nothing.at \notin ProjectStages
    BY KindStage DEF ProjectStages, PlainStages, AskStages
  <2>3. QED
    BY <2>1, <2>2
<1>4. \/ \E t \in Threads : Aside(t)
      \/ job' = job
      \/ \E ts \in SUBSET Threads : Interrupt(ts)
  <2>1. CASE EnrollmentStep
    BY <2>1, EnrollmentAside DEF EnrollmentStep, InviteExpires
  <2>2. CASE ProfileStep
    BY <2>2, ProfileStepIs, ProfileAside DEF AddData, RevokeDevice
  <2>3. QED
    BY <2>1, <2>2 DEF ProfilesMove
<1>5. QED
  BY <1>1, <1>2, <1>3, <1>4

LEMMA OnWait ==
  ASSUME JobsOK, RowsOK, ProfilesMove, NEW x, NEW s \in SUBSET ProjectStages
  PROVE  /\ On(x, s)' \subseteq On(x, s)
         /\ \A t \in On(x, s) : job'[t] # Nothing => t \in On(x, s)'
BY ProjectsWait DEF On

-----------------------------------------------------------------------------
(* Empty projects *)

Leaving == {"look back", "notify"}

NoticedAt(x) ==
  Active(x) /\ members[x] = {} /\ x \notin unseen /\ On(x, Leaving) = {} => noted[x] # "none"

LEMMA NoticedIs == EmptyProjectIsNoticed <=> \A x \in Projects : NoticedAt(x)
BY DEF EmptyProjectIsNoticed, NoticedAt, Leaving

LEMMA LeavingStages == Leaving \in SUBSET ProjectStages
BY DEF Leaving, ProjectStages, PlainStages

LEMMA NoticedKept ==
  ASSUME NEW x \in Projects, NoticedAt(x),
         proj'[x] = proj[x], members'[x] = members[x], noted'[x] = noted[x],
         x \in unseen => x \in unseen', On(x, Leaving) \subseteq On(x, Leaving)'
  PROVE  NoticedAt(x)'
BY DEF NoticedAt, Active

\* A thread of which only one step is of interest here.
LEMMA OnAlone ==
  ASSUME NEW t \in Threads, NEW x, NEW s, Alone(t), job[t].at \notin s
  PROVE  On(x, s) \subseteq On(x, s)'
BY DEF On, Alone

LEMMA ProfilesMoveNotices ==
  ASSUME Sound, ProfilesMove, NEW x \in Projects, NoticedAt(x)
  PROVE  NoticedAt(x)'
<1>1. JobsOK /\ RowsOK
  BY SoundHas
<1>2. proj' = proj /\ noted' = noted
  BY DEF ProfilesMove, Cascade
<1>3. unseen' = unseen \cup {y \in Projects :
                              \/ Active(y) /\ members[y] # {} /\ members'[y] = {}
                              \/ \E t \in On(y, {"look back", "notify"}) : job'[t] = Nothing}
  BY DEF ProfilesMove, Unseen
<1>4. SUFFICES ASSUME Active(x), members'[x] = {}, x \notin unseen', On(x, Leaving)' = {}
               PROVE  noted[x] # "none"
  BY <1>2 DEF NoticedAt, Active
<1>5. x \notin unseen /\ members[x] = {} /\ \A t \in On(x, Leaving) : job'[t] # Nothing
  BY <1>3, <1>4 DEF Leaving
<1>6. On(x, Leaving) = {}
  BY <1>1, <1>4, <1>5, OnWait, LeavingStages
<1>7. QED
  BY <1>4, <1>5, <1>6 DEF NoticedAt

LEMMA ProjectStepNotices ==
  ASSUME Sound, ProjectStep, NEW x \in Projects, NoticedAt(x)
  PROVE  NoticedAt(x)'
<1>0. /\ JobsOK /\ asks \subseteq Asks /\ creator \in [Projects -> Profiles]
      /\ proj \in [Projects -> {"none", "pending", "active", "gone"}]
      /\ members \in [Projects -> SUBSET PresentIds]
      /\ noted \in [Projects -> {"none", "open", "silenced"}]
      /\ unseen \subseteq Projects
  BY SoundHas DEF ProjectsOK
<1>1. ASSUME NEW t \in Threads, NEW y \in Projects, NEW p \in Profiles, ProposeProject(t, y, p)
      PROVE  NoticedAt(x)'
  <2>1. Alone(t) /\ job[t].at \notin Leaving
    BY <1>0, <1>1, ProjectMoves DEF Opens, Begun, Leaving
  <2>2. /\ proj' = [proj EXCEPT ![y] = "pending"]
        /\ UNCHANGED <<members, noted, unseen>>
    BY <1>1 DEF ProposeProject
  <2>3. CASE x = y
    BY <1>0, <2>2, <2>3 DEF NoticedAt, Active
  <2>4. CASE x # y
    BY <1>0, <2>1, <2>2, <2>4, NoticedKept, OnAlone
  <2>5. QED
    BY <2>3, <2>4
<1>2. ASSUME NEW t \in Threads, Alone(t), job[t].at \notin Leaving,
             UNCHANGED <<proj, members, noted, unseen>>
      PROVE  NoticedAt(x)'
  BY <1>2, NoticedKept, OnAlone
<1>3. ASSUME NEW t \in Threads,
             \/ \E ask \in asks : (\E v \in BOOLEAN : Decide(t, ask, v)) \/ Withdraw(t, ask)
             \/ \E y \in Projects : AskDeleteProject(t, y) \/ \E p \in Profiles : Leave(t, y, p)
      PROVE  NoticedAt(x)'
  <2>1. UNCHANGED <<proj, members, noted, unseen>>
    BY <1>3 DEF Decide, Withdraw, AskDeleteProject, Leave, projectTables
  <2>2. Begun(t)
    <3>1. \A ask \in asks : ask[2] \in Projects
      BY <1>0 DEF Asks
    <3>2. ASSUME NEW ask \in asks, NEW v \in BOOLEAN, Decide(t, ask, v)
          PROVE  Begun(t)
      <4>1. \/ Opens(t, "activate", ask[2]) \/ Opens(t, "reject", ask[2])
            \/ Opens(t, "enter", ask[2]) \/ Opens(t, "settle", ask[2])
        BY <1>0, <3>2, ProjectMoves
      <4>2. QED
        BY <4>1 DEF Opens
    <3>3. ASSUME NEW ask \in asks, Withdraw(t, ask)
          PROVE  Begun(t)
      BY <1>0, <3>3, ProjectMoves DEF Opens
    <3>4. ASSUME NEW y \in Projects, AskDeleteProject(t, y) \/ \E p \in Profiles : Leave(t, y, p)
          PROVE  Begun(t)
      BY <1>0, <3>4, ProjectMoves DEF Opens
    <3>5. QED
      BY <1>3, <3>2, <3>3, <3>4
  <2>3. QED
    BY <1>2, <2>1, <2>2 DEF Begun, Leaving
<1>4. ASSUME NEW t \in Threads, AskForProject(t) \/ Settle(t) \/ LookAtProject(t)
      PROVE  NoticedAt(x)'
  <2>1. UNCHANGED <<proj, members, noted, unseen>>
    BY <1>4 DEF AskForProject, Settle, LookAtProject, projectTables
  <2>2. Alone(t) /\ job[t].at \notin Leaving
    BY <1>0, <1>4, ProjectMoves DEF Moved, Ended, Leaving
  <2>3. QED
    BY <1>2, <2>1, <2>2
<1>5. ASSUME NEW t \in Threads, Activate(t) \/ Enter(t)
      PROVE  NoticedAt(x)'
  <2>1. Alone(t) /\ job[t].at \in {"activate", "enter"}
    BY <1>0, <1>5, ProjectMoves DEF Moved, Ended
  <2>2. PICK y \in Projects : y = job[t].project
    BY <1>0, <2>1, InKind DEF AskStages
  <2>3. UNCHANGED <<noted, unseen>>
        /\ \/ UNCHANGED <<proj, members>>
           \/ /\ \E p \in Profiles : members' = [members EXCEPT ![y] = @ \cup {p}]
              /\ proj' = [proj EXCEPT ![y] = "active"] \/ proj' = proj
    <3>1. ASSUME Activate(t)
          PROVE  UNCHANGED <<noted, unseen>>
                 /\ \/ UNCHANGED <<proj, members>>
                    \/ /\ members' = [members EXCEPT ![y] = @ \cup {creator[y]}]
                       /\ proj' = [proj EXCEPT ![y] = "active"]
      BY <2>2, <3>1 DEF Activate
    <3>2. ASSUME Enter(t)
          PROVE  UNCHANGED <<noted, unseen>>
                 /\ \/ UNCHANGED <<proj, members>>
                    \/ /\ members' = [members EXCEPT ![y] = @ \cup {job[t].profile}]
                       /\ proj' = proj
      BY <2>2, <3>2 DEF Enter
    <3>3. creator[y] \in Profiles /\ job[t].profile \in Profiles
      BY <1>0, <2>1, InKind DEF AskStages
    <3>4. QED
      BY <1>5, <3>1, <3>2, <3>3
  <2>4. CASE UNCHANGED <<proj, members>>
    BY <1>2, <2>1, <2>3, <2>4 DEF Leaving
  <2>5. CASE \E p \in Profiles : members' = [members EXCEPT ![y] = @ \cup {p}]
    <3>1. CASE x = y
      <4>1. members'[x] # {}
        BY <1>0, <2>5, <3>1
      <4>2. QED
        BY <4>1 DEF NoticedAt
    <3>2. CASE x # y
      <4>1. members'[x] = members[x] /\ proj'[x] = proj[x]
        BY <1>0, <2>3, <2>5, <3>2
      <4>2. QED
        BY <2>1, <2>3, <4>1, NoticedKept, OnAlone DEF Leaving
    <3>3. QED
      BY <3>1, <3>2
  <2>6. QED
    BY <2>3, <2>4, <2>5
<1>6. ASSUME NEW t \in Threads, Reject(t) \/ DropProject(t)
      PROVE  NoticedAt(x)'
  <2>1. Alone(t) /\ job[t].at \in {"reject", "drop"}
    BY <1>0, <1>6, ProjectMoves DEF Moved, Ended
  <2>2. PICK y \in Projects : y = job[t].project
    BY <1>0, <2>1, InKind DEF AskStages, PlainStages
  <2>3. Removed(y) /\ UNCHANGED unseen
    BY <1>6, <2>2 DEF Reject, DropProject
  <2>4. CASE x = y
    BY <1>0, <2>3, <2>4 DEF Removed, NoticedAt, Active
  <2>5. CASE x # y
    <3>1. proj'[x] = proj[x] /\ members'[x] = members[x] /\ noted'[x] = noted[x]
      BY <1>0, <2>3, <2>5 DEF Removed
    <3>2. QED
      BY <2>1, <2>3, <3>1, NoticedKept, OnAlone DEF Leaving
  <2>6. QED
    BY <2>4, <2>5
<1>7. ASSUME NEW t \in Threads, Depart(t)
      PROVE  NoticedAt(x)'
  <2>1. Moved(t, "look back") /\ job[t].at = "depart"
    BY <1>0, <1>7, ProjectMoves
  <2>2. PICK y \in Projects : y = job[t].project
    BY <1>0, <2>1, InKind DEF PlainStages
  <2>3. UNCHANGED <<proj, noted, unseen>>
        /\ members' = [members EXCEPT ![y] = @ \ {job[t].profile}]
    BY <1>7, <2>2 DEF Depart
  <2>4. CASE x = y
    <3>1. t \in On(x, Leaving)'
      BY <2>1, <2>2, <2>4 DEF Moved, On, Leaving, PlainStages
    <3>2. QED
      BY <3>1 DEF NoticedAt
  <2>5. CASE x # y
    <3>1. members'[x] = members[x]
      BY <1>0, <2>3, <2>5
    <3>2. QED
      BY <2>1, <2>3, <3>1, NoticedKept, OnAlone DEF Leaving, Moved
  <2>6. QED
    BY <2>4, <2>5
<1>8. ASSUME NEW t \in Threads, LookBack(t)
      PROVE  NoticedAt(x)'
  <2>1. /\ job[t].at = "look back"
        /\ Moved(t, "notify") \/ (Ended(t) /\ members[job[t].project] # {})
    BY <1>0, <1>8, ProjectMoves
  <2>2. UNCHANGED <<proj, members, noted, unseen>>
    BY <1>8 DEF LookBack, projectTables
  <2>3. CASE job[t].project = x
    <3>1. CASE Moved(t, "notify")
      <4>1. t \in On(x, Leaving)'
        BY <2>1, <2>3, <3>1 DEF Moved, On, Leaving, PlainStages
      <4>2. QED
        BY <4>1 DEF NoticedAt
    <3>2. CASE members[job[t].project] # {}
      BY <2>2, <2>3, <3>2 DEF NoticedAt
    <3>3. QED
      BY <2>1, <3>1, <3>2
  <2>4. CASE job[t].project # x
    <3>1. On(x, Leaving) \subseteq On(x, Leaving)'
      BY <2>1, <2>4 DEF On, Moved, Ended, Alone
    <3>2. QED
      BY <2>2, <3>1, NoticedKept
  <2>5. QED
    BY <2>3, <2>4
<1>9. ASSUME NEW t \in Threads, Notify(t)
      PROVE  NoticedAt(x)'
  <2>1. job[t].at = "notify" /\ Ended(t)
    BY <1>0, <1>9, ProjectMoves
  <2>2. PICK y \in Projects : y = job[t].project
    BY <1>0, <2>1, InKind DEF PlainStages
  <2>3. UNCHANGED <<proj, members>>
        /\ \/ proj[y] = "gone" /\ UNCHANGED <<noted, unseen>>
           \/ noted' = [noted EXCEPT ![y] = "open"] /\ unseen' = unseen \ {y}
    BY <1>9, <2>2 DEF Notify
  <2>4. CASE x = y
    BY <1>0, <2>3, <2>4 DEF NoticedAt, Active
  <2>5. CASE x # y
    <3>1. On(x, Leaving) \subseteq On(x, Leaving)'
      BY <2>1, <2>2, <2>5 DEF On, Ended, Alone
    <3>2. noted'[x] = noted[x] /\ (x \in unseen => x \in unseen')
      BY <1>0, <2>3, <2>5
    <3>3. QED
      BY <2>3, <3>1, <3>2, NoticedKept
  <2>6. QED
    BY <2>4, <2>5
<1>10. ASSUME NEW y \in Projects, Silence(y) \/ \E p \in Profiles : AskToJoin(y, p)
       PROVE  NoticedAt(x)'
  <2>1. /\ proj' = proj /\ members' = members /\ unseen' = unseen /\ job' = job
        /\ (noted' = noted \/ noted' = [noted EXCEPT ![y] = "silenced"])
    BY <1>10 DEF Silence, AskToJoin
  <2>2. On(x, Leaving) \subseteq On(x, Leaving)'
    BY <2>1 DEF On
  <2>3. noted'[x] = noted[x] \/ noted'[x] = "silenced"
    BY <1>0, <2>1
  <2>4. CASE noted'[x] = noted[x]
    BY <2>1, <2>2, <2>4, NoticedKept
  <2>5. CASE noted'[x] = "silenced"
    BY <2>5 DEF NoticedAt
  <2>6. QED
    BY <2>3, <2>4, <2>5
<1>11. QED
  BY <1>1, <1>3, <1>4, <1>5, <1>6, <1>7, <1>8, <1>9, <1>10, ProjectStepIs
     DEF ProjectWork, ProjectNotes

\* Nobody has to ask whether a project is still used: whatever overlaps, a
\* project whose last member left, and not with a deleted profile or a request
\* that was cut off, has a notification for the admin.
THEOREM EmptyProjectIsNoticedHolds == Spec => []EmptyProjectIsNoticed
<1> DEFINE I == Sound /\ \A x \in Projects : NoticedAt(x)
<1>1. Init => I
  <2>1. Init => \A x \in Projects : NoticedAt(x)
    BY DEF Init, NoticedAt, Active
  <2>2. QED
    BY <2>1, InitSound
<1>2. I /\ [Next]_vars => I'
  <2>1. ASSUME Sound, \A x \in Projects : NoticedAt(x), Next
        PROVE  \A x \in Projects : NoticedAt(x)'
    BY <2>1, ProfilesMoveNotices, ProjectStepNotices DEF Next
  <2>2. ASSUME \A x \in Projects : NoticedAt(x), UNCHANGED vars
        PROVE  \A x \in Projects : NoticedAt(x)'
    BY <2>2 DEF NoticedAt, Active, On, vars, projectVars, projectTables
  <2>3. Sound /\ [Next]_vars => Sound'
    BY NextSound, StutterSound
  <2>4. QED
    BY <2>1, <2>2, <2>3
<1>3. I => EmptyProjectIsNoticed
  BY NoticedIs
<1>4. QED
  BY <1>1, <1>2, <1>3, PTL DEF Spec

-----------------------------------------------------------------------------
(* Removal of projects *)

\* Only an active project has members, an admission that looked finds its
\* project active or gone, and where a removal meets members or those who let
\* them in, that is on record.
EvictAt(x) ==
  /\ ~Active(x) => members[x] = {}
  /\ On(x, {"enter"}) # {} => proj[x] \in {"active", "gone"}
  /\ On(x, Removing) # {} /\ members[x] # {} => x \in contested
  /\ On(x, Removing) # {} /\ On(x, Entering) # {} => x \in contested

LEMMA OnSteps ==
  ASSUME NEW t \in Threads, NEW x, NEW s, Alone(t)
  PROVE  /\ On(x, s)' \subseteq On(x, s) \cup {t}
         /\ On(x, s) \subseteq On(x, s)' \cup {t}
         /\ t \in On(x, s) <=> job[t].at \in s /\ job[t].project = x
         /\ t \in On(x, s)' <=> job'[t].at \in s /\ job'[t].project = x
BY DEF On, Alone

LEMMA EvictStep ==
  ASSUME NEW x, NEW t \in Threads, EvictAt(x), Alone(t), contested \subseteq contested',
         On(x, Removing)' # {} /\ On(x, Entering)' # {} => x \in contested',
         proj'[x] # "active" => members'[x] = {},
         proj[x] \in {"active", "gone"} => proj'[x] \in {"active", "gone"},
         t \in On(x, {"enter"})' => proj'[x] \in {"active", "gone"},
         t \in On(x, Removing)' => members'[x] = {},
         members[x] = {} /\ members'[x] # {} => t \in On(x, Entering)
  PROVE  EvictAt(x)'
<1>1. ASSUME NEW u \in On(x, Removing)', members'[x] # {}
      PROVE  x \in contested'
  <2>1. u \in On(x, Removing)
    BY <1>1, OnSteps
  <2>2. QED
    BY <1>1, <2>1 DEF EvictAt
<1>2. On(x, {"enter"})' # {} => proj'[x] \in {"active", "gone"}
  BY OnSteps DEF EvictAt
<1>3. QED
  BY <1>1, <1>2 DEF EvictAt, Active

LEMMA ProfilesMoveEvicts ==
  ASSUME Sound, ProfilesMove, NEW x \in Projects, EvictAt(x)
  PROVE  EvictAt(x)'
<1>1. /\ JobsOK /\ RowsOK /\ MovesAlone /\ OneIdEach
      /\ creator \in [Projects -> Profiles]
      /\ members \in [Projects -> SUBSET {p \in Profiles : Present(p)}]
      /\ asks \subseteq Asks
  BY SoundHas DEF ProjectsOK, PresentIds
<1>2. RowStep
  BY NextRows DEF Next, RowsWell
<1>3. members[x] = {} => members'[x] = {}
  BY <1>1, <1>2, CascadeTypes DEF ProfilesMove, RowsOK
<1>4. proj' = proj /\ contested' = contested
  BY DEF ProfilesMove, Cascade
<1>5. \A s \in SUBSET ProjectStages : On(x, s)' \subseteq On(x, s)
  BY <1>1, OnWait
<1>6. /\ {"enter"} \subseteq ProjectStages /\ Removing \subseteq ProjectStages
      /\ Entering \subseteq ProjectStages
  BY DEF Removing, Entering, ProjectStages, PlainStages, AskStages
<1>7. /\ On(x, {"enter"})' \subseteq On(x, {"enter"})
      /\ On(x, Removing)' \subseteq On(x, Removing)
      /\ On(x, Entering)' \subseteq On(x, Entering)
  BY <1>5, <1>6
<1>8. QED
  BY <1>3, <1>4, <1>7 DEF EvictAt, Active

\* The steps whose meetings are recorded.
Recorded(t) ==
  \/ \E ask \in asks : (\E v \in BOOLEAN : Decide(t, ask, v)) \/ Withdraw(t, ask)
  \/ Activate(t) \/ Enter(t) \/ Reject(t) \/ Settle(t) \/ LookAtProject(t)
  \/ \E x \in Projects : (\E p \in Profiles : Leave(t, x, p)) \/ AskDeleteProject(t, x)
  \/ Depart(t) \/ LookBack(t) \/ Notify(t) \/ DropProject(t)

LEMMA RecordedIs ==
  ProjectStep =>
    \/ /\ \E t \in Threads : Recorded(t)
       /\ contested' = contested \cup UNION {Contest(x)' : x \in Projects}
    \/ \E t \in Threads : \/ \E x \in Projects, p \in Profiles : ProposeProject(t, x, p)
                          \/ AskForProject(t)
    \/ \E x \in Projects : (\E p \in Profiles : AskToJoin(x, p)) \/ Silence(x)
BY DEF ProjectStep, Recorded

LEMMA RecordedEvicts ==
  ASSUME Sound, NEW t \in Threads, Recorded(t), NEW x \in Projects, EvictAt(x),
         contested' = contested \cup UNION {Contest(y)' : y \in Projects}
  PROVE  /\ EvictAt(x)'
         /\ proj'[x] = "gone" /\ members[x] # {} => x \in contested'
<1>0. /\ JobsOK /\ asks \subseteq Asks /\ creator \in [Projects -> Profiles]
      /\ proj \in [Projects -> {"none", "pending", "active", "gone"}]
      /\ members \in [Projects -> SUBSET PresentIds]
  BY SoundHas DEF ProjectsOK
<1>1. /\ contested \subseteq contested'
      /\ On(x, Removing)' # {} /\ On(x, Entering)' # {} => x \in contested'
  <2>1. On(x, Removing)' # {} /\ On(x, Entering)' # {} => x \in Contest(x)'
    BY DEF Contest
  <2>2. QED
    BY <2>1
<1> DEFINE Goal == /\ EvictAt(x)'
                   /\ proj'[x] = "gone" /\ members[x] # {} => x \in contested'
<1>2. ASSUME Alone(t), proj'[x] = proj[x],
             members'[x] \subseteq members[x],
             t \in On(x, {"enter"})' => proj[x] \in {"active", "gone"},
             t \in On(x, Removing)' => members[x] = {}
      PROVE  Goal
  <2>1. proj'[x] # "active" => members'[x] = {}
    BY <1>2 DEF EvictAt, Active
  <2>2. EvictAt(x)'
    BY <1>1, <1>2, <2>1, EvictStep
  <2>3. proj'[x] = "gone" => members[x] = {}
    BY <1>2 DEF EvictAt, Active
  <2>4. QED
    BY <2>2, <2>3
<1> HIDE DEF Goal
<1>3. ASSUME NEW ask \in asks, NEW v \in BOOLEAN, Decide(t, ask, v)
      PROVE  Goal
  <2>0. ask[2] \in Projects
    BY <1>0 DEF Asks
  <2>1. \/ Opens(t, "activate", ask[2])
        \/ Opens(t, "reject", ask[2]) /\ proj[ask[2]] = "pending"
        \/ Opens(t, "enter", ask[2]) /\ Active(ask[2])
        \/ Opens(t, "settle", ask[2])
    BY <1>0, <1>3, ProjectMoves
  <2>2. UNCHANGED <<proj, members>>
    BY <1>3 DEF Decide, projectTables
  <2>3. Alone(t) /\ job'[t].project = ask[2]
    BY <2>1 DEF Opens, Begun
  <2>4. t \in On(x, {"enter"})' => proj[x] \in {"active", "gone"}
    BY <2>1, <2>3, OnSteps DEF Opens, Active
  <2>5. t \in On(x, Removing)' => members[x] = {}
    <3>1. t \in On(x, Removing)' => proj[x] = "pending"
      BY <2>1, <2>3, OnSteps DEF Opens, Removing
    <3>2. QED
      BY <3>1 DEF EvictAt, Active
  <2>6. QED
    BY <1>2, <2>2, <2>3, <2>4, <2>5
<1>4. ASSUME NEW ask \in asks, Withdraw(t, ask)
      PROVE  Goal
  <2>0. ask[2] \in Projects
    BY <1>0 DEF Asks
  <2>1. Alone(t) /\ job'[t].at \in {"look", "idle"}
    BY <1>0, <1>4, ProjectMoves, KindStage DEF Opens, Begun
  <2>2. UNCHANGED <<proj, members>>
    BY <1>4 DEF Withdraw
  <2>3. t \notin On(x, {"enter"})' /\ t \notin On(x, Removing)'
    BY <2>1, OnSteps DEF Removing
  <2>4. QED
    BY <1>2, <2>1, <2>2, <2>3
<1>5. ASSUME NEW y \in Projects, NEW p \in Profiles, Leave(t, y, p)
      PROVE  Goal
  <2>1. Alone(t) /\ job'[t].at = "depart"
    BY <1>0, <1>5, ProjectMoves DEF Opens, Begun
  <2>2. UNCHANGED <<proj, members>>
    BY <1>5 DEF Leave, projectTables
  <2>3. t \notin On(x, {"enter"})' /\ t \notin On(x, Removing)'
    BY <2>1, OnSteps DEF Removing
  <2>4. QED
    BY <1>2, <2>1, <2>2, <2>3
<1>6. ASSUME NEW y \in Projects, AskDeleteProject(t, y)
      PROVE  Goal
  <2>1. Alone(t) /\ job'[t].at = "drop" /\ job'[t].project = y
    BY <1>0, <1>6, ProjectMoves DEF Opens, Begun
  <2>2. UNCHANGED <<proj, members>> /\ members[y] = {}
    BY <1>6 DEF AskDeleteProject, projectTables, Deletable
  <2>3. t \notin On(x, {"enter"})' /\ (t \in On(x, Removing)' => x = y)
    BY <2>1, OnSteps DEF Removing
  <2>4. QED
    BY <1>2, <2>1, <2>2, <2>3
<1>7. ASSUME Settle(t) \/ LookAtProject(t) \/ LookBack(t) \/ Notify(t)
      PROVE  Goal
  <2>1. UNCHANGED <<proj, members>>
    BY <1>7 DEF Settle, LookAtProject, LookBack, Notify, projectTables
  <2>2. /\ job[t].at \in PlainStages \cup AskStages
        /\ \/ Ended(t) \/ Moved(t, "notify")
           \/ Moved(t, "reject") /\ proj[job[t].project] = "pending"
    BY <1>0, <1>7, ProjectMoves DEF PlainStages, AskStages
  <2>3. Alone(t) /\ job'[t].at \in {"idle", "notify", "reject"}
    BY <2>2, KindStage DEF Ended, Moved
  <2>4. t \notin On(x, {"enter"})'
    BY <2>3, OnSteps
  <2>5. t \in On(x, Removing)' => members[x] = {}
    <3>1. ASSUME t \in On(x, Removing)'
          PROVE  members[x] = {}
      <4>1. job'[t].at = "reject" /\ job'[t].project = x
        BY <2>3, <3>1, OnSteps DEF Removing
      <4>2. proj[x] = "pending"
        BY <2>2, <4>1, KindStage DEF Ended, Moved
      <4>3. QED
        BY <4>2 DEF EvictAt, Active
    <3>2. QED
      BY <3>1
  <2>6. QED
    BY <1>2, <2>1, <2>3, <2>4, <2>5
<1>8. ASSUME Depart(t)
      PROVE  Goal
  <2>1. Moved(t, "look back") /\ job[t].at = "depart"
    BY <1>0, <1>8, ProjectMoves
  <2>2. PICK y \in Projects : y = job[t].project
    BY <1>0, <2>1, InKind DEF PlainStages
  <2>3. proj' = proj /\ members' = [members EXCEPT ![y] = @ \ {job[t].profile}]
    BY <1>8, <2>2 DEF Depart
  <2>4. members'[x] \subseteq members[x]
    BY <1>0, <2>3
  <2>5. t \notin On(x, {"enter"})' /\ t \notin On(x, Removing)'
    BY <2>1, OnSteps DEF Removing, Moved
  <2>6. QED
    BY <1>2, <2>1, <2>3, <2>4, <2>5 DEF Moved
<1>9. ASSUME Activate(t) \/ Enter(t)
      PROVE  Goal
  <2>1. /\ Activate(t) => job[t].at = "activate"
        /\ Enter(t) => job[t].at = "enter"
        /\ Moved(t, "settle") \/ Ended(t)
    BY <1>0, <1>9, ProjectMoves
  <2>2. PICK y \in Projects : y = job[t].project
    BY <1>0, <1>9, <2>1, InKind DEF AskStages
  <2>3. Alone(t) /\ job'[t].at \in {"settle", "idle"}
    BY <2>1, KindStage DEF Moved, Ended
  <2>4. t \notin On(x, {"enter"})' /\ t \notin On(x, Removing)'
    BY <2>3, OnSteps DEF Removing
  <2>5. CASE UNCHANGED <<proj, members>>
    BY <1>2, <2>3, <2>4, <2>5
  <2>6. CASE ~UNCHANGED <<proj, members>>
    <3>1. /\ \E p \in Profiles : members' = [members EXCEPT ![y] = @ \cup {p}]
          /\ \/ Activate(t) /\ proj' = [proj EXCEPT ![y] = "active"]
             \/ Enter(t) /\ proj' = proj /\ proj[y] # "gone"
      <4>1. creator[y] \in Profiles /\ job[t].profile \in Profiles
        BY <1>0, <1>9, <2>1, InKind DEF AskStages
      <4>2. CASE Activate(t)
        BY <2>2, <2>6, <4>1, <4>2 DEF Activate
      <4>3. CASE Enter(t)
        BY <2>2, <2>6, <4>1, <4>3 DEF Enter
      <4>4. QED
        BY <1>9, <4>2, <4>3
    <3>2. CASE x # y
      <4>1. proj'[x] = proj[x] /\ members'[x] = members[x]
        BY <1>0, <3>1, <3>2
      <4>2. QED
        BY <1>2, <2>3, <2>4, <4>1
    <3>3. CASE x = y
      <4>1. t \in On(x, Entering)
        BY <2>1, <2>2, <2>3, <3>1, <3>3, OnSteps DEF Entering
      <4>2. proj'[x] = "active"
        <5>1. CASE Activate(t) /\ proj' = [proj EXCEPT ![y] = "active"]
          BY <1>0, <3>3, <5>1
        <5>2. CASE Enter(t) /\ proj' = proj /\ proj[y] # "gone"
          <6>1. t \in On(x, {"enter"})
            BY <2>1, <2>2, <2>3, <3>3, <5>2, OnSteps
          <6>2. QED
            BY <3>3, <5>2, <6>1 DEF EvictAt
        <5>3. QED
          BY <3>1, <5>1, <5>2
      <4>3. EvictAt(x)'
        BY <1>1, <2>3, <2>4, <4>1, <4>2, EvictStep
      <4>4. QED
        BY <4>2, <4>3 DEF Goal
    <3>4. QED
      BY <3>2, <3>3
  <2>7. QED
    BY <2>5, <2>6
<1>10. ASSUME Reject(t) \/ DropProject(t)
       PROVE  Goal
  <2>1. job[t].at \in {"reject", "drop"} /\ (Moved(t, "settle") \/ Ended(t))
    BY <1>0, <1>10, ProjectMoves
  <2>2. PICK y \in Projects : y = job[t].project
    BY <1>0, <2>1, InKind DEF AskStages, PlainStages
  <2>3. Alone(t) /\ job'[t].at \in {"settle", "idle"}
    BY <2>1, KindStage DEF Moved, Ended
  <2>4. t \notin On(x, {"enter"})' /\ t \notin On(x, Removing)'
    BY <2>3, OnSteps DEF Removing
  <2>5. Removed(y)
    BY <1>10, <2>2 DEF Reject, DropProject
  <2>6. CASE x # y
    <3>1. proj'[x] = proj[x] /\ members'[x] = members[x]
      BY <1>0, <2>5, <2>6 DEF Removed
    <3>2. QED
      BY <1>2, <2>3, <2>4, <3>1
  <2>7. CASE x = y
    <3>1. proj'[x] = "gone" /\ members'[x] = {}
      BY <1>0, <2>5, <2>7 DEF Removed
    <3>2. EvictAt(x)'
      BY <1>1, <2>3, <2>4, <3>1, EvictStep
    <3>3. t \in On(x, Removing)
      BY <2>1, <2>2, <2>3, <2>7, OnSteps DEF Removing
    <3>4. members[x] # {} => x \in contested'
      BY <1>1, <3>3 DEF EvictAt
    <3>5. QED
      BY <3>2, <3>4 DEF Goal
  <2>8. QED
    BY <2>6, <2>7
<1>11. QED
  BY <1>3, <1>4, <1>5, <1>6, <1>7, <1>8, <1>9, <1>10 DEF Recorded, Goal

LEMMA OtherwiseEvicts ==
  ASSUME Sound, NEW x \in Projects, EvictAt(x), contested' = contested,
         \/ \E t \in Threads : \/ \E y \in Projects, p \in Profiles : ProposeProject(t, y, p)
                               \/ AskForProject(t)
         \/ \E y \in Projects : (\E p \in Profiles : AskToJoin(y, p)) \/ Silence(y)
  PROVE  /\ EvictAt(x)'
         /\ proj'[x] = "gone" => proj[x] = "gone"
<1>0. /\ JobsOK /\ asks \subseteq Asks /\ creator \in [Projects -> Profiles]
      /\ proj \in [Projects -> {"none", "pending", "active", "gone"}]
  BY SoundHas DEF ProjectsOK
<1>1. ASSUME members' = members, proj'[x] = proj[x] \/ (proj[x] = "none" /\ proj'[x] = "pending"),
             On(x, {"enter"})' \subseteq On(x, {"enter"}),
             On(x, Removing)' \subseteq On(x, Removing),
             On(x, Entering)' \subseteq On(x, Entering)
      PROVE  /\ EvictAt(x)'
             /\ proj'[x] = "gone" => proj[x] = "gone"
  BY <1>1 DEF EvictAt, Active
<1>2. ASSUME NEW t \in Threads, Alone(t), job'[t].at \in {"ask", "idle"}
      PROVE  /\ On(x, {"enter"})' \subseteq On(x, {"enter"})
             /\ On(x, Removing)' \subseteq On(x, Removing)
             /\ On(x, Entering)' \subseteq On(x, Entering)
  BY <1>2, OnSteps DEF Removing, Entering
<1>3. ASSUME NEW t \in Threads, NEW y \in Projects, NEW p \in Profiles, ProposeProject(t, y, p)
      PROVE  /\ EvictAt(x)'
             /\ proj'[x] = "gone" => proj[x] = "gone"
  <2>1. Alone(t) /\ job'[t].at = "ask"
    BY <1>0, <1>3, ProjectMoves DEF Opens, Begun
  <2>2. proj[y] = "none" /\ proj' = [proj EXCEPT ![y] = "pending"] /\ members' = members
    BY <1>3 DEF ProposeProject
  <2>3. proj'[x] = proj[x] \/ (proj[x] = "none" /\ proj'[x] = "pending")
    BY <1>0, <2>2
  <2>4. QED
    BY <1>1, <1>2, <2>1, <2>2, <2>3
<1>4. ASSUME NEW t \in Threads, AskForProject(t)
      PROVE  /\ EvictAt(x)'
             /\ proj'[x] = "gone" => proj[x] = "gone"
  <2>1. Alone(t) /\ job'[t].at = "idle"
    BY <1>0, <1>4, ProjectMoves, KindStage DEF Ended
  <2>2. proj' = proj /\ members' = members
    BY <1>4 DEF AskForProject
  <2>3. QED
    BY <1>1, <1>2, <2>1, <2>2
<1>5. ASSUME NEW y \in Projects, (\E p \in Profiles : AskToJoin(y, p)) \/ Silence(y)
      PROVE  /\ EvictAt(x)'
             /\ proj'[x] = "gone" => proj[x] = "gone"
  <2>1. proj' = proj /\ members' = members /\ job' = job
    BY <1>5 DEF AskToJoin, Silence
  <2>3. /\ On(x, {"enter"})' \subseteq On(x, {"enter"})
        /\ On(x, Removing)' \subseteq On(x, Removing)
        /\ On(x, Entering)' \subseteq On(x, Entering)
    BY <2>1 DEF On
  <2>4. QED
    BY <1>1, <2>1, <2>3
<1>6. QED
  BY <1>3, <1>4, <1>5

LEMMA NextEvicts ==
  ASSUME Sound, NEW x \in Projects, EvictAt(x), Next
  PROVE  /\ EvictAt(x)'
         /\ proj'[x] = "gone" /\ members[x] # {} => x \in contested'
<1>1. CASE ProfilesMove
  <2>1. proj' = proj
    BY <1>1 DEF ProfilesMove, Cascade
  <2>2. proj'[x] = "gone" => members[x] = {}
    BY <2>1 DEF EvictAt, Active
  <2>3. QED
    BY <1>1, <2>2, ProfilesMoveEvicts
<1>2. CASE ProjectStep
  <2>1. CASE /\ \E t \in Threads : Recorded(t)
             /\ contested' = contested \cup UNION {Contest(y)' : y \in Projects}
    BY <2>1, RecordedEvicts
  <2>2. CASE \/ \E t \in Threads : \/ \E y \in Projects, p \in Profiles : ProposeProject(t, y, p)
                                   \/ AskForProject(t)
             \/ \E y \in Projects : (\E p \in Profiles : AskToJoin(y, p)) \/ Silence(y)
    <3>1. contested' = contested
      BY <2>2 DEF ProposeProject, AskForProject, AskToJoin, Silence
    <3>2. EvictAt(x)' /\ (proj'[x] = "gone" => proj[x] = "gone")
      BY <2>2, <3>1, OtherwiseEvicts
    <3>3. proj[x] = "gone" => members[x] = {}
      BY DEF EvictAt, Active
    <3>4. QED
      BY <3>2, <3>3
  <2>3. QED
    BY <1>2, <2>1, <2>2, RecordedIs
<1>3. QED
  BY <1>1, <1>2 DEF Next

\* No removal of a project takes members with it, unless it overlapped the
\* request that let them in.
THEOREM MembersAreNotEvictedHolds == Spec => MembersAreNotEvicted
<1> DEFINE I == Sound /\ \A x \in Projects : EvictAt(x)
<1>1. Init => I
  <2>1. ASSUME Init, NEW x \in Projects
        PROVE  EvictAt(x)
    <3>1. \A t \in Threads : job[t].at = "idle"
      BY <2>1, KindStage DEF Init, InitAccess
    <3>2. On(x, {"enter"}) = {} /\ On(x, Removing) = {}
      BY <3>1 DEF On, Removing
    <3>3. QED
      BY <2>1, <3>2 DEF Init, EvictAt
  <2>2. QED
    BY <2>1, InitSound
<1>2. I /\ [Next]_vars => I'
  <2>1. ASSUME Sound, \A x \in Projects : EvictAt(x), Next
        PROVE  \A x \in Projects : EvictAt(x)'
    BY <2>1, NextEvicts
  <2>2. ASSUME \A x \in Projects : EvictAt(x), UNCHANGED vars
        PROVE  \A x \in Projects : EvictAt(x)'
    BY <2>2 DEF EvictAt, Active, On, vars, projectVars, projectTables
  <2>3. Sound /\ [Next]_vars => Sound'
    BY NextSound, StutterSound
  <2>4. QED
    BY <2>1, <2>2, <2>3
<1>3. I /\ [Next]_vars =>
        [\A x \in Projects : proj'[x] = "gone" /\ members[x] # {} => x \in contested']_vars
  BY NextEvicts
<1>4. QED
  <2>1. Spec => []I
    BY <1>1, <1>2, PTL DEF Spec
  <2> HIDE DEF I
  <2>2. QED
    BY <1>3, <2>1, PTL DEF Spec, MembersAreNotEvicted

-----------------------------------------------------------------------------
(* Where the steps of profiles and projects leave their thread *)

ProfileAfter == {"idle", "issue", "grant"} \cup ProfileStages \cup Offline

LEMMA ProfileLeaves ==
  ASSUME JobsOK, RowsOK, NEW t \in Threads, ProfileWork(t)
  PROVE  Alone(t) /\ job'[t].at \in ProfileAfter
<1>0. /\ {"idle", "issue", "grant"} \cup Offline \subseteq ProfileAfter
      /\ {"insert", "wipe", "files", "rest", "unregister", "discard", "erase", "unlink", "revoke"}
           \subseteq ProfileAfter
  BY DEF ProfileAfter, ProfileStages, Creating, Deleting
<1>1. ASSUME NEW p \in Profiles,
             (\E pr \in Principals : AskCreate(t, pr, p)) \/ AskCreateTotp(t, p) \/ AskDelete(t, p)
      PROVE  Alone(t) /\ job'[t].at \in ProfileAfter
  <2>1. Begun(t) /\ job'[t].at \in {"insert", "wipe"}
    BY <1>1, ProfileMoves DEF RowsOK
  <2>2. QED
    BY <1>0, <2>1 DEF Begun
<1>2. ASSUME NEW old \in Profiles, NEW new \in Profiles,
             MigrateFiles(t, old, new) \/ ScriptFiles(t, old, new)
      PROVE  Alone(t) /\ job'[t].at \in ProfileAfter
  <2>1. Begun(t) /\ job'[t].at \in Offline
    BY <1>2, MigrationMoves DEF Offloaded, Offline
  <2>2. QED
    BY <1>0, <2>1 DEF Begun
<1>3. ASSUME NEW ps \in SUBSET Profiles, AskDevice(t, ps)
      PROVE  Alone(t) /\ job'[t].at \in ProfileAfter
  BY <1>0, <1>3, DeviceMoves DEF RowsOK, Begun
<1>4. ASSUME \/ IssueDevice(t) \/ InsertProfile(t) \/ MakeFiles(t) \/ FilesFail(t) \/ Unregister(t)
             \/ Discard(t) \/ WipeData(t) \/ EraseRow(t) \/ RemoveFiles(t) \/ RevokeAll(t)
             \/ MigrateCommit(t) \/ ScriptCommit(t) \/ MigrateBack(t)
             \/ WriteFiles(t) \/ GrantOwner(t)
      PROVE  Alone(t) /\ job'[t].at \in ProfileAfter
  <2>1. \/ \E s \in {"files", "rest", "unregister", "discard", "erase", "unlink", "revoke"} :
             Moved(t, s)
        \/ Ended(t)
        \/ Alone(t) /\ job'[t].at = "grant"
    <3>1. CASE MigrateCommit(t) \/ ScriptCommit(t) \/ MigrateBack(t)
      BY <3>1, MigrationMoves
    <3>2. CASE ~(MigrateCommit(t) \/ ScriptCommit(t) \/ MigrateBack(t))
      BY <1>4, <3>2, ProfileMoves, DeviceMoves DEF RowsOK
    <3>3. QED
      BY <3>1, <3>2
  <2>2. QED
    BY <1>0, <2>1, KindStage DEF Moved, Ended
<1>5. QED
  BY <1>1, <1>2, <1>3, <1>4 DEF ProfileWork

LEMMA ProjectLeaves ==
  ASSUME JobsOK, ProjectsOK, NEW t \in Threads, ProjectWork(t)
  PROVE  Alone(t) /\ job'[t].at \in {"idle"} \cup ProjectStages
<1>0. /\ asks \subseteq Asks /\ creator \in [Projects -> Profiles]
      /\ \A ask \in asks : ask[2] \in Projects
  BY DEF ProjectsOK, Asks
<1>1. {"idle", "ask", "depart", "drop", "activate", "reject", "enter", "settle", "look",
       "look back", "notify"} \subseteq {"idle"} \cup ProjectStages
  BY DEF ProjectStages, PlainStages, AskStages
<1>2. ASSUME NEW ask \in asks, NEW v \in BOOLEAN, Decide(t, ask, v)
      PROVE  Alone(t) /\ job'[t].at \in {"idle"} \cup ProjectStages
  <2>1. \/ Opens(t, "activate", ask[2]) \/ Opens(t, "reject", ask[2])
        \/ Opens(t, "enter", ask[2]) \/ Opens(t, "settle", ask[2])
    BY <1>0, <1>2, ProjectMoves
  <2>2. QED
    BY <1>1, <2>1 DEF Opens, Begun
<1>3. ASSUME NEW ask \in asks, Withdraw(t, ask)
      PROVE  Alone(t) /\ job'[t].at \in {"idle"} \cup ProjectStages
  BY <1>0, <1>1, <1>3, ProjectMoves, KindStage DEF Opens, Begun
<1>4. ASSUME NEW x \in Projects,
             \/ \E p \in Profiles : ProposeProject(t, x, p) \/ Leave(t, x, p)
             \/ AskDeleteProject(t, x)
      PROVE  Alone(t) /\ job'[t].at \in {"idle"} \cup ProjectStages
  BY <1>0, <1>1, <1>4, ProjectMoves DEF Opens, Begun
<1>5. ASSUME \/ AskForProject(t) \/ Activate(t) \/ Enter(t) \/ Reject(t) \/ Settle(t)
             \/ LookAtProject(t) \/ Depart(t) \/ LookBack(t) \/ Notify(t) \/ DropProject(t)
      PROVE  Alone(t) /\ job'[t].at \in {"idle"} \cup ProjectStages
  <2>1. \/ Ended(t) \/ Moved(t, "settle") \/ Moved(t, "reject") \/ Moved(t, "look back")
        \/ Moved(t, "notify")
    BY <1>0, <1>5, ProjectMoves
  <2>2. QED
    BY <1>1, <2>1, KindStage DEF Moved, Ended
<1>6. QED
  BY <1>2, <1>3, <1>4, <1>5 DEF ProjectWork

\* What a step is: one thread's, or of no thread, or an interruption.
EnrollWork(t) ==
  \/ \E i \in Invites, k \in Keys : AskEnroll(t, i, k)
  \/ CreatePrincipal(t) \/ CheckKey(t) \/ AddKey(t) \/ GrantCreate(t) \/ ConsumeInvite(t)

LEMMA EnrollmentStepIs ==
  EnrollmentStep <=> (\E t \in Threads : EnrollWork(t)) \/ \E i \in Invites : InviteExpires(i)
BY DEF EnrollmentStep, EnrollWork

LEMMA ProfileFrame ==
  ASSUME ProfileStep
  PROVE  keys' = keys /\ told' = told /\ invites' = invites /\ principals \subseteq principals'
<1>1. ASSUME NEW t \in Threads, ProfileWork(t)
      PROVE  keys' = keys /\ told' = told /\ invites' = invites /\ principals \subseteq principals'
  <2>1. CASE \/ \E p \in Profiles :
                 \/ \E pr \in Principals : AskCreate(t, pr, p)
                 \/ AskCreateTotp(t, p) \/ AskDelete(t, p)
                 \/ \E new \in Profiles : MigrateFiles(t, p, new) \/ ScriptFiles(t, p, new)
             \/ \E ps \in SUBSET Profiles : AskDevice(t, ps)
    BY <2>1 DEF AskCreate, AskCreateTotp, AskDelete, MigrateFiles, ScriptFiles, MoveFiles,
                AskDevice,
                access
  <2>2. CASE \/ IssueDevice(t) \/ InsertProfile(t) \/ MakeFiles(t) \/ WriteFiles(t) \/ FilesFail(t)
             \/ Unregister(t) \/ Discard(t) \/ GrantOwner(t)
    BY <2>2 DEF IssueDevice, InsertProfile, MakeFiles, WriteFiles, FilesFail, Unregister, Discard,
                GrantOwner, access
  <2>3. CASE \/ WipeData(t) \/ EraseRow(t) \/ RemoveFiles(t) \/ RevokeAll(t) \/ MigrateCommit(t)
             \/ ScriptCommit(t) \/ MigrateBack(t)
    BY <2>3 DEF WipeData, EraseRow, RemoveFiles, RevokeAll, MigrateCommit, ScriptCommit, Rewritten,
                MigrateBack, access
  <2>4. QED
    BY <1>1, <2>1, <2>2, <2>3 DEF ProfileWork
<1>2. ASSUME \/ \E pr \in Principals, p \in Profiles : AddData(pr, p)
             \/ \E pr \in Principals : RevokeDevice(pr)
             \/ \E ts \in SUBSET Threads : Interrupt(ts)
      PROVE  keys' = keys /\ told' = told /\ invites' = invites /\ principals \subseteq principals'
  BY <1>2 DEF AddData, RevokeDevice, Interrupt, access
<1>3. QED
  BY <1>1, <1>2, ProfileStepIs

\* The grants of a step about profiles, by what becomes of them.
LEMMA GrantSteps ==
  ASSUME ProfileStep
  PROVE  \/ grants' = grants
         \/ \E t \in Threads : GrantOwner(t) \/ IssueDevice(t) \/ RevokeAll(t) \/ MigrateCommit(t)
                               \/ ScriptCommit(t)
<1>1. ASSUME NEW t \in Threads, ProfileWork(t)
      PROVE  \/ grants' = grants
             \/ GrantOwner(t) \/ IssueDevice(t) \/ RevokeAll(t) \/ MigrateCommit(t)
             \/ ScriptCommit(t)
  <2>1. CASE \/ \E p \in Profiles :
                 \/ \E pr \in Principals : AskCreate(t, pr, p)
                 \/ AskCreateTotp(t, p) \/ AskDelete(t, p)
                 \/ \E new \in Profiles : MigrateFiles(t, p, new) \/ ScriptFiles(t, p, new)
             \/ \E ps \in SUBSET Profiles : AskDevice(t, ps)
    BY <2>1 DEF AskCreate, AskCreateTotp, AskDelete, MigrateFiles, ScriptFiles, MoveFiles,
                AskDevice,
                access
  <2>2. CASE \/ InsertProfile(t) \/ MakeFiles(t) \/ WriteFiles(t) \/ FilesFail(t)
             \/ Unregister(t) \/ Discard(t)
             \/ WipeData(t) \/ EraseRow(t) \/ RemoveFiles(t) \/ MigrateBack(t)
    BY <2>2 DEF InsertProfile, MakeFiles, WriteFiles, FilesFail, Unregister, Discard,
                WipeData, EraseRow, RemoveFiles, MigrateBack, access
  <2>3. QED
    BY <1>1, <2>1, <2>2 DEF ProfileWork
<1>2. ASSUME \/ \E pr \in Principals, p \in Profiles : AddData(pr, p)
             \/ \E pr \in Principals : RevokeDevice(pr)
             \/ \E ts \in SUBSET Threads : Interrupt(ts)
      PROVE  grants' = grants
  BY <1>2 DEF AddData, RevokeDevice, Interrupt, access
<1>3. QED
  BY <1>1, <1>2, ProfileStepIs

\* What a grant becomes when an id is rewritten.
LEMMA GrantRenamed ==
  ASSUME NEW w, NEW op, NEW p, NEW l, NEW q
  PROVE  [Grant(w, op, p, l) EXCEPT !.on = q] = Grant(w, op, q, l)
BY DEF Grant

LEMMA GrantHas ==
  ASSUME NEW w, NEW op, NEW p, NEW l
  PROVE  /\ Grant(w, op, p, l).who = w /\ Grant(w, op, p, l).op = op
         /\ Grant(w, op, p, l).on = p /\ Grant(w, op, p, l).life = l
BY DEF Grant

-----------------------------------------------------------------------------
(* Enrollment *)

MayCreate(w) == Grant(w, "create_profile", Anywhere, 0) \in grants
HasKey(w)    == \E c \in keys : c[1] = w

\* A request of an agent that is being enrolled has what it made so far.
EnrolledAt(t) ==
  /\ job[t].at \in EnrollStages => job[t].who \in principals /\ job[t].who # Admin
  /\ job[t].at \in {"admit", "consume"} => HasKey(job[t].who)
  /\ job[t].at = "consume" => MayCreate(job[t].who)

ToldWell ==
  /\ \A x \in told : /\ invites[x[1]] = "used"
                     /\ x[2] \in principals /\ x[2] # Admin /\ HasKey(x[2]) /\ MayCreate(x[2])
  /\ \A x, y \in told : x[1] = y[1] => x = y

AdmitInv ==
  /\ ToldWell
  /\ Admin \in principals
  /\ \A t \in Threads : EnrolledAt(t)

\* Grants that name no profile stay.
LEMMA GlobalGrantsStay ==
  ASSUME Sound, Next, NEW w, MayCreate(w)
  PROVE  MayCreate(w)'
<1>0. JobsOK /\ grants \subseteq GrantRows
  BY SoundHas DEF TablesOK
<1> DEFINE g == Grant(w, "create_profile", Anywhere, 0)
<1>1. g \in grants /\ g.on = Anywhere
  BY GrantHas DEF MayCreate
<1>2. ASSUME grants \subseteq grants'
      PROVE  MayCreate(w)'
  BY <1>1, <1>2 DEF MayCreate
<1>3. ASSUME NEW t \in Threads, RevokeAll(t)
      PROVE  MayCreate(w)'
  <2>1. job[t].profile \in Profiles /\ grants' = {h \in grants : h.on # job[t].profile}
    BY <1>0, <1>3, InKind DEF RevokeAll, WithoutGrantsOn, At, Deleting
  <2>2. g \in grants'
    BY <1>1, <2>1
  <2>3. QED
    BY <2>2 DEF MayCreate
<1>4. ASSUME NEW t \in Threads, MigrateCommit(t) \/ ScriptCommit(t)
      PROVE  MayCreate(w)'
  <2>1. Rewritten(t) /\ job[t].at \in Offline
    BY <1>4 DEF MigrateCommit, ScriptCommit, At, Offline
  <2>2. PICK old \in Profiles : old = job[t].old
    BY <1>0, <2>1, InKind
  <2>3. PICK new \in Profiles : new = job[t].new
    BY <1>0, <2>1, InKind
  <2>4. grants' = {[h EXCEPT !.on = Renamed(h.on, old, new)] : h \in grants}
    BY <2>1, <2>2, <2>3 DEF Rewritten
  <2>5. Renamed(g.on, old, new) = Anywhere
    BY <1>1 DEF Renamed
  <2>6. [g EXCEPT !.on = Anywhere] = g
    BY GrantRenamed
  <2>7. g \in grants'
    <3> HIDE DEF g
    <3>1. [g EXCEPT !.on = Renamed(g.on, old, new)] \in grants'
      BY <1>1, <2>4
    <3>2. QED
      BY <2>5, <2>6, <3>1
  <2>8. QED
    BY <2>7 DEF MayCreate
<1>5. CASE ProfileStep
  <2>1. ASSUME NEW t \in Threads, GrantOwner(t) \/ IssueDevice(t)
        PROVE  grants \subseteq grants'
    BY <2>1 DEF GrantOwner, IssueDevice
  <2>2. QED
    BY <1>2, <1>3, <1>4, <1>5, <2>1, GrantSteps
<1>6. CASE EnrollmentStep
  BY <1>2, <1>6 DEF EnrollmentStep, AskEnroll, CreatePrincipal, CheckKey, AddKey, GrantCreate,
     ConsumeInvite, InviteExpires, access
<1>7. CASE ProjectStep
  <2>1. UNCHANGED access
    BY <1>0, <1>7, ProjectWell, SoundHas DEF ProjectsOK
  <2>2. QED
    BY <1>2, <2>1 DEF access
<1>8. QED
  BY <1>5, <1>6, <1>7 DEF Next, ProfilesMove

LEMMA AccessGrows ==
  ASSUME Sound, Next
  PROVE  /\ principals \subseteq principals' /\ keys \subseteq keys'
         /\ \A i \in Invites : invites[i] = "used" => invites'[i] = "used"
<1>0. JobsOK /\ AccessTypeOK
  BY SoundHas
<1>1. CASE ProfileStep
  BY <1>1, ProfileFrame
<1>2. CASE EnrollmentStep
  <2>1. principals \subseteq principals' /\ keys \subseteq keys'
    BY <1>2 DEF EnrollmentStep, AskEnroll, CreatePrincipal, CheckKey, AddKey, GrantCreate,
       ConsumeInvite, InviteExpires, access
  <2>2. invites' = invites \/ \E i \in Invites : \/ invites' = [invites EXCEPT ![i] = "used"]
                                                \/ /\ invites[i] = "open"
                                                   /\ invites' = [invites EXCEPT ![i] = "expired"]
    <3>1. ASSUME NEW t \in Threads, ConsumeInvite(t)
          PROVE  invites' = invites \/ \E i \in Invites : invites' = [invites EXCEPT ![i] = "used"]
      <4>1. job[t].invite \in Invites
        BY <1>0, <3>1, InKind DEF ConsumeInvite, At, EnrollStages
      <4>2. QED
        BY <3>1, <4>1 DEF ConsumeInvite
    <3>2. ASSUME NEW t \in Threads,
                 \/ \E i \in Invites, k \in Keys : AskEnroll(t, i, k)
                 \/ CreatePrincipal(t) \/ CheckKey(t) \/ AddKey(t) \/ GrantCreate(t)
          PROVE  invites' = invites
      BY <3>2 DEF AskEnroll, CreatePrincipal, CheckKey, AddKey, GrantCreate, access
    <3>3. QED
      BY <1>2, <3>1, <3>2, EnrollmentStepIs DEF EnrollWork, InviteExpires
  <2>3. QED
    BY <1>0, <2>1, <2>2 DEF AccessTypeOK
<1>3. CASE ProjectStep
  <2>1. UNCHANGED access
    BY <1>0, <1>3, ProjectWell, SoundHas DEF ProjectsOK
  <2>2. QED
    BY <2>1 DEF access
<1>4. QED
  BY <1>1, <1>2, <1>3 DEF Next, ProfilesMove

\* A request keeps who it is for.
LEMMA EnrollKeeps ==
  ASSUME JobsOK, NEW t \in Threads, NEW s, job[t].at \in EnrollStages,
         Move(t, [job[t] EXCEPT !.at = s])
  PROVE  job'[t].who = job[t].who
<1>1. job[t] \in Enrolling
  BY StageKind DEF JobsOK
<1>2. [job[t] EXCEPT !.at = s].who = job[t].who
  BY <1>1 DEF Enrolling
<1>3. job'[t] = [job[t] EXCEPT !.at = s]
  BY DEF Move, JobsOK
<1>4. QED
  BY <1>2, <1>3

LEMMA EnrolledKept ==
  ASSUME Sound, Next, NEW t \in Threads, EnrolledAt(t),
         job'[t] = job[t] \/ job'[t].at \notin EnrollStages
  PROVE  EnrolledAt(t)'
<1>1. CASE job'[t] = job[t]
  BY <1>1, AccessGrows, GlobalGrantsStay DEF EnrolledAt, HasKey
<1>2. CASE job'[t].at \notin EnrollStages
  BY <1>2 DEF EnrolledAt, EnrollStages
<1>3. QED
  BY <1>1, <1>2

LEMMA EnrollSteps ==
  ASSUME Sound, Next, NEW t \in Threads, EnrollWork(t), AdmitInv
  PROVE  EnrolledAt(t)' /\ Alone(t)
<1>0. JobsOK
  BY SoundHas
<1>1. \A s \in {"key", "credential", "admit", "consume"} : s \in EnrollStages
  BY DEF EnrollStages
<1>2. ASSUME NEW i \in Invites, NEW k \in Keys, AskEnroll(t, i, k)
      PROVE  EnrolledAt(t)' /\ Alone(t)
  BY <1>0, <1>2, EnrollMoves DEF Begun, EnrolledAt, EnrollStages
<1>3. ASSUME CreatePrincipal(t)
      PROVE  EnrolledAt(t)' /\ Alone(t)
  BY <1>0, <1>3, EnrollMoves DEF EnrolledAt, AdmitInv
<1>4. ASSUME CheckKey(t)
      PROVE  EnrolledAt(t)' /\ Alone(t)
  <2>1. job[t].at = "key" /\ (Moved(t, "credential") \/ Ended(t))
    BY <1>0, <1>4, EnrollMoves
  <2>2. CASE Ended(t)
    BY <2>2, KindStage DEF Ended, EnrolledAt, EnrollStages
  <2>3. CASE Moved(t, "credential")
    <3>1. job'[t].at = "credential"
      BY <2>3 DEF Moved
    <3>2. ~Done(t)
      BY <1>0, <3>1, EndsIt
    <3>3. Move(t, [job[t] EXCEPT !.at = "credential"])
      BY <1>4, <3>2 DEF CheckKey
    <3>4. job'[t].who = job[t].who
      BY <1>0, <1>1, <2>1, <3>3, EnrollKeeps
    <3>5. QED
      BY <1>1, <2>1, <2>3, <3>1, <3>4, AccessGrows DEF EnrolledAt, AdmitInv, Moved
  <2>4. QED
    BY <2>1, <2>2, <2>3 DEF Ended
<1>5. ASSUME AddKey(t)
      PROVE  EnrolledAt(t)' /\ Alone(t)
  <2>1. job[t].at = "credential" /\ Moved(t, "admit")
    BY <1>0, <1>5, EnrollMoves
  <2>2. job'[t].who = job[t].who
    BY <1>0, <1>1, <1>5, <2>1, EnrollKeeps DEF AddKey
  <2>3. \E c \in keys' : c[1] = job'[t].who
    <3>1. <<job[t].who, job[t].key>> \in keys'
      BY <1>5 DEF AddKey
    <3>2. QED
      BY <2>2, <3>1
  <2>4. QED
    BY <1>1, <2>1, <2>2, <2>3, AccessGrows DEF EnrolledAt, AdmitInv, Moved, HasKey
<1>6. ASSUME GrantCreate(t)
      PROVE  EnrolledAt(t)' /\ Alone(t)
  <2>1. job[t].at = "admit" /\ Moved(t, "consume")
    BY <1>0, <1>6, EnrollMoves
  <2>2. job'[t].who = job[t].who
    BY <1>0, <1>1, <1>6, <2>1, EnrollKeeps DEF GrantCreate
  <2>3. Grant(job[t].who, "create_profile", Anywhere, 0) \in grants' /\ keys' = keys
    BY <1>6 DEF GrantCreate
  <2>4. QED
    BY <1>1, <2>1, <2>2, <2>3, AccessGrows DEF EnrolledAt, AdmitInv, Moved, HasKey, MayCreate
<1>7. ASSUME ConsumeInvite(t)
      PROVE  EnrolledAt(t)' /\ Alone(t)
  BY <1>0, <1>7, EnrollMoves, KindStage DEF Ended, EnrolledAt, EnrollStages
<1>8. QED
  BY <1>2, <1>3, <1>4, <1>5, <1>6, <1>7 DEF EnrollWork

LEMMA ThreadsEnrolled ==
  ASSUME Sound, Next, AdmitInv
  PROVE  \A t \in Threads : EnrolledAt(t)'
<1>0. JobsOK /\ RowsOK /\ ProjectsOK
  BY SoundHas
<1>1. ASSUME NEW u \in Threads, EnrolledAt(u)', Alone(u)
      PROVE  \A t \in Threads : EnrolledAt(t)'
  BY <1>1, EnrolledKept DEF AdmitInv, Alone
<1>2. ASSUME \A t \in Threads : job'[t] = job[t] \/ job'[t].at \notin EnrollStages
      PROVE  \A t \in Threads : EnrolledAt(t)'
  BY <1>2, EnrolledKept DEF AdmitInv
<1>3. CASE EnrollmentStep
  <2>1. ASSUME NEW u \in Threads, EnrollWork(u)
        PROVE  \A t \in Threads : EnrolledAt(t)'
    BY <1>1, <2>1, EnrollSteps
  <2>2. (\E i \in Invites : InviteExpires(i)) => job' = job
    BY DEF InviteExpires
  <2>3. QED
    BY <1>2, <1>3, <2>1, <2>2, EnrollmentStepIs
<1>4. CASE ProfileStep
  <2>1. ASSUME NEW u \in Threads, ProfileWork(u)
        PROVE  \A t \in Threads : EnrolledAt(t)'
    <3>1. Alone(u) /\ job'[u].at \notin EnrollStages
      BY <1>0, <2>1, ProfileLeaves
         DEF ProfileAfter, EnrollStages, ProfileStages, Creating, Deleting, Offline
    <3>2. QED
      BY <1>2, <3>1 DEF Alone
  <2>2. ASSUME NEW ts \in SUBSET Threads, Interrupt(ts)
        PROVE  \A t \in Threads : EnrolledAt(t)'
    <3>1. \A t \in Threads : job'[t] = job[t] \/ job'[t].at \notin EnrollStages
      BY <2>2, KindStage DEF Interrupt, Interrupted, EnrollStages
    <3>2. QED
      BY <1>2, <3>1
  <2>3. ASSUME \/ \E pr \in Principals, p \in Profiles : AddData(pr, p)
               \/ \E pr \in Principals : RevokeDevice(pr)
        PROVE  \A t \in Threads : EnrolledAt(t)'
    BY <1>2, <2>3 DEF AddData, RevokeDevice
  <2>4. QED
    BY <1>4, <2>1, <2>2, <2>3, ProfileStepIs
<1>5. CASE ProjectStep
  <2>1. ASSUME NEW u \in Threads, ProjectWork(u)
        PROVE  \A t \in Threads : EnrolledAt(t)'
    <3>1. Alone(u) /\ job'[u].at \notin EnrollStages
      BY <1>0, <2>1, ProjectLeaves DEF EnrollStages, ProjectStages, PlainStages, AskStages
    <3>2. QED
      BY <1>2, <3>1 DEF Alone
  <2>2. ProjectNotes => job' = job
    BY DEF ProjectNotes, AskToJoin, Silence
  <2>3. QED
    BY <1>2, <1>5, <2>1, <2>2, ProjectStepIs
<1>6. QED
  BY <1>3, <1>4, <1>5 DEF Next, ProfilesMove

LEMMA ToldKept ==
  ASSUME Sound, Next, AdmitInv
  PROVE  ToldWell'
<1>0. JobsOK /\ told \subseteq Invites \X Principals
  BY SoundHas DEF AccessTypeOK
<1>1. ASSUME NEW x \in told
      PROVE  /\ invites'[x[1]] = "used"
             /\ x[2] \in principals' /\ x[2] # Admin /\ HasKey(x[2])' /\ MayCreate(x[2])'
  BY <1>0, AccessGrows, GlobalGrantsStay DEF AdmitInv, ToldWell, HasKey
<1>2. CASE told' = told
  BY <1>1, <1>2 DEF ToldWell, AdmitInv
<1>3. ASSUME NEW t \in Threads, ConsumeInvite(t)
      PROVE  ToldWell'
  <2>1. job[t].at = "consume" /\ job[t].invite \in Invites /\ job[t].who \in Principals
    BY <1>0, <1>3, InKind DEF ConsumeInvite, At, EnrollStages
  <2>2. PICK i \in Invites : i = job[t].invite
    BY <2>1
  <2>3. PICK w \in Principals : w = job[t].who
    BY <2>1
  <2>4. /\ w \in principals /\ w # Admin /\ HasKey(w) /\ MayCreate(w)
    BY <2>1, <2>3 DEF AdmitInv, EnrolledAt, EnrollStages
  <2>5. /\ w \in principals' /\ HasKey(w)' /\ MayCreate(w)'
    BY <2>4, AccessGrows, GlobalGrantsStay DEF HasKey
  <2>6. CASE told' # told
    <3>1. /\ told' = told \cup {<<i, w>>} /\ invites[i] # "used"
          /\ invites' = [invites EXCEPT ![i] = "used"]
      BY <1>3, <2>2, <2>3, <2>6 DEF ConsumeInvite, Unspent
    <3>2. invites'[i] = "used"
      BY <1>0, <3>1, SoundHas DEF AccessTypeOK
    <3>3. \A x \in told : x[1] # i
      BY <3>1 DEF AdmitInv, ToldWell
    <3>4. QED
      BY <1>1, <2>4, <2>5, <3>1, <3>2, <3>3 DEF ToldWell, AdmitInv
  <2>7. QED
    BY <1>2, <2>6
<1>4. (\E t \in Threads : ConsumeInvite(t)) \/ told' = told
  <2>1. CASE EnrollmentStep
    BY <2>1 DEF EnrollmentStep, AskEnroll, CreatePrincipal, CheckKey, AddKey, GrantCreate,
       InviteExpires
  <2>2. CASE ProfileStep
    BY <2>2, ProfileFrame
  <2>3. CASE ProjectStep
    BY <1>0, <2>3, ProjectWell, SoundHas DEF ProjectsOK
  <2>4. QED
    BY <2>1, <2>2, <2>3 DEF Next, ProfilesMove
<1>5. QED
  BY <1>2, <1>3, <1>4

LEMMA AdmitKept ==
  ASSUME Sound, Next, AdmitInv
  PROVE  AdmitInv'
BY ToldKept, ThreadsEnrolled, AccessGrows DEF AdmitInv

LEMMA AdmitInit == Init => AdmitInv
BY KindStage DEF Init, InitAccess, AdmitInv, ToldWell, EnrolledAt, EnrollStages

LEMMA AdmitStutter == AdmitInv /\ UNCHANGED vars => AdmitInv'
BY DEF AdmitInv, ToldWell, EnrolledAt, HasKey, MayCreate, vars, access

LEMMA AdmittedOnce == AdmitInv => InviteAdmitsOne
<1>1. SUFFICES ASSUME AdmitInv, NEW x \in told, NEW y \in told
               PROVE  /\ x[1] = y[1] => x = y
                      /\ \E c \in keys : c[1] = x[2]
                      /\ Allowed(x[2], "create_profile", Anywhere)
  BY DEF InviteAdmitsOne
<1>2. (x[1] = y[1] => x = y) /\ (\E c \in keys : c[1] = x[2])
  BY <1>1 DEF AdmitInv, ToldWell, HasKey
<1>3. x[2] \in principals /\ Grant(x[2], "create_profile", Anywhere, 0) \in grants
  BY <1>1 DEF AdmitInv, ToldWell, MayCreate
<1>4. Allowed(x[2], "create_profile", Anywhere)
  BY <1>3, GrantHas DEF Allowed
<1>5. QED
  BY <1>2, <1>4

\* However many requests share an invite, and wherever they are cut off, at
\* most one caller is told of a credential, and what it is told of works.
THEOREM InviteAdmitsOneHolds == Spec => []InviteAdmitsOne
<1>1. Sound /\ AdmitInv /\ [Next]_vars => (Sound /\ AdmitInv)'
  BY NextSound, StutterSound, AdmitKept, AdmitStutter
<1>2. QED
  BY <1>1, InitSound, AdmitInit, AdmittedOnce, PTL DEF Spec

-----------------------------------------------------------------------------
(* The limit of profiles *)

\* The grant that a creation has still to make.
Coming(t) == Grant(job[t].who, "manage_profile", job[t].profile, job[t].life)

\* Stages of a creation before its first grant.
Early == {"insert", "files", "rest"}

AdminOwnsNone ==
  /\ \A g \in grants : g.op = "manage_profile" => g.who # Admin
  /\ \A t \in Threads : job[t].at = "grant" => job[t].who # Admin

Finite == \A pr \in Principals : IsFiniteSet(OwnedRows(pr))

CreatesOnce(pr, t) ==
  \A u \in Threads : job[u].at \in Creating /\ job[u].who = pr => u = t

CountAt(pr) ==
  /\ Cardinality(OwnedRows(pr)) <= MaxProfiles
  /\ \A t \in Threads : job[t].at \in Creating /\ job[t].who = pr =>
       /\ CreatesOnce(pr, t)
       /\ job[t].at \in Early => Cardinality(OwnedRows(pr)) < MaxProfiles
       /\ job[t].at = "grant" => Cardinality(OwnedRows(pr) \cup {Coming(t)}) <= MaxProfiles

LimitInv ==
  /\ AdminOwnsNone /\ Finite
  /\ \A pr \in Principals : pr # Admin /\ pr \notin hurried => CountAt(pr)

LEMMA SubsetCounts ==
  ASSUME NEW S, NEW T, IsFiniteSet(S), T \subseteq S, NEW x
  PROVE  /\ IsFiniteSet(T)
         /\ Cardinality(T) \in Nat /\ Cardinality(S) \in Nat
         /\ Cardinality(T) <= Cardinality(S)
         /\ Cardinality(T \cup {x}) \in Nat /\ Cardinality(S \cup {x}) \in Nat
         /\ Cardinality(T \cup {x}) <= Cardinality(S \cup {x})
         /\ Cardinality(S \cup {x}) <= Cardinality(S) + 1
<1>1. IsFiniteSet(T) /\ Cardinality(T) <= Cardinality(S)
  BY FS_Subset
<1>2. IsFiniteSet(S \cup {x}) /\ IsFiniteSet(T \cup {x})
  BY <1>1, FS_AddElement
<1>3. Cardinality(T \cup {x}) <= Cardinality(S \cup {x})
  <2>1. T \cup {x} \in SUBSET (S \cup {x})
    OBVIOUS
  <2>2. QED
    BY <1>2, <2>1, FS_Subset
<1>4. Cardinality(T) \in Nat /\ Cardinality(S) \in Nat
  BY <1>1, FS_CardinalityType
<1>5. Cardinality(T \cup {x}) \in Nat /\ Cardinality(S \cup {x}) \in Nat
  BY <1>2, FS_CardinalityType
<1>6. Cardinality(S \cup {x}) <= Cardinality(S) + 1
  <2>1. Cardinality(S \cup {x}) = IF x \in S THEN Cardinality(S) ELSE Cardinality(S) + 1
    BY FS_AddElement
  <2>2. QED
    BY <1>4, <2>1
<1>7. QED
  BY <1>1, <1>3, <1>4, <1>5, <1>6

\* What a step makes of the profiles that a principal owns.
LEMMA OwnedSteps ==
  ASSUME Sound, Next, NEW pr \in Principals
  PROVE  \/ OwnedRows(pr)' \subseteq OwnedRows(pr)
         \/ \E t \in Threads :
              /\ GrantOwner(t) /\ ProfileStep
              /\ OwnedRows(pr)' \subseteq OwnedRows(pr)
                                 \cup (IF pr = job[t].who THEN {Coming(t)} ELSE {})
         \/ \E t \in Threads :
              /\ MigrateCommit(t) \/ ScriptCommit(t)
              /\ IsFiniteSet(OwnedRows(pr)) =>
                   /\ IsFiniteSet(OwnedRows(pr)')
                   /\ Cardinality(OwnedRows(pr)') <= Cardinality(OwnedRows(pr))
<1>0. JobsOK /\ grants \subseteq GrantRows
  BY SoundHas DEF TablesOK
<1>1. ASSUME grants' \subseteq grants
      PROVE  OwnedRows(pr)' \subseteq OwnedRows(pr)
  BY <1>1 DEF OwnedRows
<1>2. ASSUME NEW t \in Threads, GrantCreate(t)
      PROVE  OwnedRows(pr)' \subseteq OwnedRows(pr)
  <2>1. PICK g : g = Grant(job[t].who, "create_profile", Anywhere, 0)
    OBVIOUS
  <2>2. grants' = grants \cup {g} /\ g.op # "manage_profile"
    BY <1>2, <2>1, GrantHas DEF GrantCreate
  <2>3. QED
    BY <2>2 DEF OwnedRows
<1>3. ASSUME NEW t \in Threads, IssueDevice(t)
      PROVE  OwnedRows(pr)' \subseteq OwnedRows(pr)
  <2> DEFINE of == job[t].lives
  <2>1. PICK w \in Principals \ principals :
          grants' = grants \cup {Grant(w, op, p, of[p]) : op \in DeviceOps, p \in DOMAIN of}
    BY <1>3 DEF IssueDevice
  <2>2. \A op \in DeviceOps, p \in DOMAIN of : Grant(w, op, p, of[p]).op # "manage_profile"
    BY GrantHas DEF DeviceOps
  <2> HIDE DEF of
  <2>3. \A g \in {Grant(w, op, p, of[p]) : op \in DeviceOps, p \in DOMAIN of} :
          g.op # "manage_profile"
    BY <2>2
  <2>4. \A g \in grants' : g \in grants \/ g.op # "manage_profile"
    BY <2>1, <2>3 DEF of
  <2>5. QED
    BY <2>4 DEF OwnedRows
<1>4. ASSUME NEW t \in Threads, GrantOwner(t)
      PROVE  OwnedRows(pr)' \subseteq OwnedRows(pr)
                                 \cup (IF pr = job[t].who THEN {Coming(t)} ELSE {})
  <2>1. grants' = grants
             \cup {Grant(job[t].who, OwnerOps[job[t].n], job[t].profile, job[t].life)}
    BY <1>4 DEF GrantOwner
  <2>2. PICK g : g = Grant(job[t].who, OwnerOps[job[t].n], job[t].profile, job[t].life)
    OBVIOUS
  <2>3. g.who = job[t].who /\ g.op = OwnerOps[job[t].n]
    BY <2>2, GrantHas
  <2>4. g.op = "manage_profile" => g = Coming(t)
    BY <2>2, <2>3 DEF Coming
  <2>5. QED
    BY <2>1, <2>2, <2>3, <2>4 DEF OwnedRows
<1>5. ASSUME NEW t \in Threads, MigrateCommit(t) \/ ScriptCommit(t), IsFiniteSet(OwnedRows(pr))
      PROVE  /\ IsFiniteSet(OwnedRows(pr)')
             /\ Cardinality(OwnedRows(pr)') <= Cardinality(OwnedRows(pr))
  <2>1. Rewritten(t) /\ job[t].at \in Offline
    BY <1>5 DEF MigrateCommit, ScriptCommit, At, Offline
  <2>2. PICK old \in Profiles : old = job[t].old
    BY <1>0, <2>1, InKind
  <2>3. PICK new \in Profiles : new = job[t].new
    BY <1>0, <2>1, InKind
  <2>4. grants' = {[g EXCEPT !.on = Renamed(g.on, old, new)] : g \in grants}
    BY <2>1, <2>2, <2>3 DEF Rewritten
  <2> DEFINE ren(g) == [g EXCEPT !.on = Renamed(g.on, old, new)]
             f == [g \in OwnedRows(pr) |-> ren(g)]
  <2>5. \A g \in grants : ren(g).who = g.who /\ ren(g).op = g.op
    <3>1. SUFFICES ASSUME NEW g \in grants
                   PROVE  ren(g).who = g.who /\ ren(g).op = g.op
      OBVIOUS
    <3>2. Renamed(g.on, old, new) \in Profiles \cup {Anywhere}
      BY <1>0, GrantRowHas DEF Renamed
    <3>3. QED
      BY <1>0, <3>2, GrantRowHas
  <2>6. grants' = {ren(g) : g \in grants}
    BY <2>4
  <2> HIDE DEF ren
  <2>7. OwnedRows(pr)' = {ren(g) : g \in OwnedRows(pr)}
    BY <2>5, <2>6 DEF OwnedRows
  <2>8. f \in Surjection(OwnedRows(pr), OwnedRows(pr)')
    BY <2>7 DEF Surjection
  <2> HIDE DEF f
  <2>9. QED
    BY <1>5, <2>8, FS_Surjection
<1>6. CASE ProfileStep
  <2>1. (\E t \in Threads : RevokeAll(t)) => grants' \subseteq grants
    BY DEF RevokeAll, WithoutGrantsOn
  <2>2. QED
    BY <1>1, <1>3, <1>4, <1>5, <1>6, <2>1, GrantSteps
<1>7. CASE EnrollmentStep
  <2>1. (\E t \in Threads : GrantCreate(t)) \/ grants' = grants
    BY <1>7 DEF EnrollmentStep, AskEnroll, CreatePrincipal, CheckKey, AddKey, ConsumeInvite,
       InviteExpires, access
  <2>2. QED
    BY <1>1, <1>2, <2>1
<1>8. CASE ProjectStep
  <2>1. UNCHANGED access
    BY <1>0, <1>8, ProjectWell, SoundHas DEF ProjectsOK
  <2>2. QED
    BY <1>1, <2>1 DEF access
<1>9. QED
  BY <1>6, <1>7, <1>8 DEF Next, ProfilesMove

\* A creation goes on without coming to its grants.
GoesOn(u) ==
  /\ job[u].at \in Creating /\ job'[u].who = job[u].who
  /\ job'[u].at \in Early => job[u].at \in Early
  /\ job'[u].at # "grant"

\* ... comes to its grants,
GoesGranting(u) ==
  /\ job[u].at = "rest" /\ job[u].who # Admin /\ WriteFiles(u)
  /\ job'[u].at = "grant" /\ job'[u].who = job[u].who
  /\ job'[u].profile = job[u].profile /\ job'[u].life = row[job[u].profile]

\* ... or makes them.
StaysGranting(u) ==
  /\ job[u].at = "grant" /\ job'[u].at = "grant"
  /\ job'[u].who = job[u].who /\ job'[u].profile = job[u].profile
  /\ job'[u].life = job[u].life

\* Where a creation comes from.
LEMMA CreatingSteps ==
  ASSUME Sound, Next, NEW u \in Threads, job'[u].at \in Creating
  PROVE  \/ job'[u] = job[u]
         \/ GoesOn(u)
         \/ GoesGranting(u)
         \/ StaysGranting(u)
         \/ \E p \in Profiles : \/ \E pr \in Principals :
                                     /\ AskCreate(u, pr, p) /\ Begun(u)
                                     /\ job'[u].who = pr /\ job'[u].at = "insert"
                                \/ /\ AskCreateTotp(u, p)
                                   /\ job'[u].who = Admin /\ job'[u].at = "insert"
<1>0. JobsOK /\ RowsOK /\ ProjectsOK
  BY SoundHas
<1> DEFINE Goal ==
      \/ job'[u] = job[u]
      \/ GoesOn(u)
      \/ GoesGranting(u)
      \/ StaysGranting(u)
      \/ \E p \in Profiles : \/ \E pr \in Principals :
                                  /\ AskCreate(u, pr, p) /\ Begun(u)
                                  /\ job'[u].who = pr /\ job'[u].at = "insert"
                             \/ /\ AskCreateTotp(u, p)
                                   /\ job'[u].who = Admin /\ job'[u].at = "insert"
<1>1. ASSUME NEW t \in Threads, Alone(t), t # u
      PROVE  Goal
  BY <1>1 DEF Alone
<1>2. ASSUME NEW t \in Threads, Alone(t), job'[t].at \notin Creating
      PROVE  Goal
  BY <1>1, <1>2
<1>3. CASE EnrollmentStep
  <2>1. ASSUME NEW t \in Threads, EnrollWork(t)
        PROVE  Alone(t) /\ job'[t].at \notin Creating
    <3>1. Alone(t) /\ job'[t].at \in {"principal", "key", "credential", "admit", "consume", "idle"}
      BY <1>0, <2>1, EnrollMoves, KindStage DEF EnrollWork, Begun, Moved, Ended
    <3>2. QED
      BY <3>1 DEF Creating
  <2>2. (\E i \in Invites : InviteExpires(i)) => job' = job
    BY DEF InviteExpires
  <2> HIDE DEF Goal
  <2>3. QED
    BY <1>2, <1>3, <2>1, <2>2, EnrollmentStepIs DEF Goal
<1>4. CASE ProjectStep
  <2>1. ASSUME NEW t \in Threads, ProjectWork(t)
        PROVE  Alone(t) /\ job'[t].at \notin Creating
    BY <1>0, <2>1, ProjectLeaves DEF Creating, ProjectStages, PlainStages, AskStages
  <2>2. ProjectNotes => job' = job
    BY DEF ProjectNotes, AskToJoin, Silence
  <2> HIDE DEF Goal
  <2>3. QED
    BY <1>2, <1>4, <2>1, <2>2, ProjectStepIs DEF Goal
<1>5. ASSUME ProfileWork(u)
      PROVE  Goal
  <2>1. ASSUME NEW s, Moved(u, s), job[u].at \in Creating \ {"grant"}, s # "grant",
               s \in Early => job[u].at \in Early
        PROVE  GoesOn(u)
    BY <2>1 DEF Moved, GoesOn, ProfileStages
  <2>2. CASE \E p \in Profiles : \/ \E pr \in Principals : AskCreate(u, pr, p)
                                 \/ AskCreateTotp(u, p)
    <3>1. ASSUME NEW p \in Profiles, NEW pr \in Principals, AskCreate(u, pr, p)
          PROVE  Begun(u) /\ job'[u].who = pr /\ job'[u].at = "insert"
      BY <1>0, <3>1, ProfileMoves DEF RowsOK
    <3>2. ASSUME NEW p \in Profiles, AskCreateTotp(u, p)
          PROVE  job'[u].who = Admin /\ job'[u].at = "insert"
      BY <1>0, <3>2, ProfileMoves DEF RowsOK
    <3>3. QED
      BY <2>2, <3>1, <3>2
  <2>3. CASE InsertProfile(u) \/ MakeFiles(u) \/ FilesFail(u) \/ Unregister(u)
    <3>1. /\ job[u].at \in {"insert", "files", "rest", "unregister"}
          /\ \/ Ended(u)
             \/ job[u].at = "insert" /\ Moved(u, "files")
             \/ job[u].at = "files" /\ Moved(u, "rest")
             \/ Moved(u, "unregister")
             \/ Moved(u, "discard")
      BY <1>0, <2>3, ProfileMoves DEF RowsOK
    <3>2. ~Ended(u)
      BY KindStage DEF Ended, Creating
    <3>3. QED
      BY <2>1, <3>1, <3>2 DEF Early, Creating
  <2>4. CASE WriteFiles(u)
    <3>1. ~Ended(u)
      BY KindStage DEF Ended, Creating
    <3>2. QED
      BY <1>0, <2>4, <3>1, ProfileMoves DEF RowsOK, GoesGranting
  <2>5. CASE GrantOwner(u)
    <3>1. ~Ended(u)
      BY KindStage DEF Ended, Creating
    <3>2. QED
      BY <1>0, <2>5, <3>1, ProfileMoves DEF RowsOK, StaysGranting
  <2>6. CASE \/ \E p \in Profiles : AskDelete(u, p)
             \/ Discard(u) \/ WipeData(u) \/ EraseRow(u) \/ RemoveFiles(u) \/ RevokeAll(u)
    <3>1. \/ job'[u].at = "wipe" \/ Ended(u) \/ Moved(u, "erase") \/ Moved(u, "unlink")
          \/ Moved(u, "revoke")
      BY <1>0, <2>6, ProfileMoves DEF RowsOK
    <3>2. QED
      BY <3>1, KindStage DEF Ended, Moved, Creating
  <2>7. CASE \/ \E p, new \in Profiles : MigrateFiles(u, p, new) \/ ScriptFiles(u, p, new)
             \/ MigrateCommit(u) \/ ScriptCommit(u) \/ MigrateBack(u)
    <3>1. Ended(u) \/ job'[u].at \in Offline
      BY <1>0, <2>7, MigrationMoves DEF Offloaded, Offline
    <3>2. QED
      BY <3>1, KindStage DEF Ended, Creating, Offline
  <2>8. CASE IssueDevice(u) \/ \E ps \in SUBSET Profiles : AskDevice(u, ps)
    <3>1. Ended(u) \/ job'[u].at = "issue"
      BY <1>0, <2>8, DeviceMoves DEF RowsOK
    <3>2. QED
      BY <3>1, KindStage DEF Ended, Creating
  <2>9. QED
    BY <1>5, <2>2, <2>3, <2>4, <2>5, <2>6, <2>7, <2>8 DEF ProfileWork
<1>6. CASE ProfileStep
  <2>1. ASSUME NEW t \in Threads, ProfileWork(t)
        PROVE  Goal
    BY <1>0, <1>1, <1>5, <2>1, ProfileLeaves
  <2>2. ASSUME NEW ts \in SUBSET Threads, Interrupt(ts)
        PROVE  Goal
    <3>1. job'[u] = job[u] \/ job'[u] = Nothing
      BY <2>2 DEF Interrupt, Interrupted
    <3>2. QED
      BY <3>1, KindStage DEF Creating
  <2>3. ASSUME \/ \E pr \in Principals, p \in Profiles : AddData(pr, p)
               \/ \E pr \in Principals : RevokeDevice(pr)
        PROVE  job' = job
    BY <2>3 DEF AddData, RevokeDevice
  <2>4. job' = job => Goal
    OBVIOUS
  <2> HIDE DEF Goal
  <2>5. Goal
    BY <1>6, <2>1, <2>2, <2>3, <2>4, ProfileStepIs
  <2>6. QED
    BY <2>5 DEF Goal
<1>7. QED
  BY <1>3, <1>4, <1>6 DEF Next, ProfilesMove

LEMMA HurriedGrows == Next => hurried \subseteq hurried'
<1>1. ASSUME ProfileStep
      PROVE  hurried \subseteq hurried'
  <2>1. ASSUME NEW t \in Threads, ProfileWork(t)
        PROVE  hurried \subseteq hurried'
    <3>1. CASE \/ \E p \in Profiles :
                   \/ AskCreateTotp(t, p) \/ AskDelete(t, p)
                   \/ \E new \in Profiles : MigrateFiles(t, p, new) \/ ScriptFiles(t, p, new)
               \/ \E ps \in SUBSET Profiles : AskDevice(t, ps)
      BY <3>1 DEF AskCreateTotp, AskDelete, MigrateFiles, ScriptFiles, MoveFiles, AskDevice,
                  profileVars, profileNotes
    <3>2. CASE \E p \in Profiles, pr \in Principals : AskCreate(t, pr, p)
      BY <3>2 DEF AskCreate
    <3>3. CASE \/ IssueDevice(t) \/ InsertProfile(t) \/ MakeFiles(t) \/ WriteFiles(t)
               \/ FilesFail(t)
               \/ Unregister(t) \/ Discard(t) \/ GrantOwner(t)
      BY <3>3 DEF IssueDevice, InsertProfile, MakeFiles, WriteFiles, FilesFail, Unregister, Discard,
                  GrantOwner, profileVars, profileNotes
    <3>4. CASE \/ WipeData(t) \/ EraseRow(t) \/ RemoveFiles(t) \/ RevokeAll(t) \/ MigrateCommit(t)
               \/ ScriptCommit(t) \/ MigrateBack(t)
      BY <3>4 DEF WipeData, EraseRow, RemoveFiles, RevokeAll, MigrateCommit, ScriptCommit,
                  Rewritten,
                  MigrateBack, profileVars, profileNotes
    <3>5. QED
      BY <2>1, <3>1, <3>2, <3>3, <3>4 DEF ProfileWork
  <2>2. ASSUME \/ \E pr \in Principals, p \in Profiles : AddData(pr, p)
               \/ \E pr \in Principals : RevokeDevice(pr)
               \/ \E ts \in SUBSET Threads : Interrupt(ts)
        PROVE  hurried \subseteq hurried'
    BY <2>2 DEF AddData, RevokeDevice, Interrupt, profileNotes
  <2>3. QED
    BY <1>1, <2>1, <2>2, ProfileStepIs
<1>2. UNCHANGED profileVars => hurried \subseteq hurried'
  BY DEF profileVars, profileNotes
<1>3. ProjectStep => hurried \subseteq hurried'
  <2>1. ASSUME NEW t \in Threads, ProjectWork(t)
        PROVE  UNCHANGED profileVars
    BY <2>1, ProjectFrame DEF ProjectWork
  <2>2. ProjectNotes => UNCHANGED profileVars
    BY DEF ProjectNotes, AskToJoin, Silence
  <2>3. QED
    BY <1>2, <2>1, <2>2, ProjectStepIs
<1>4. QED
  BY <1>1, <1>2, <1>3 DEF Next, ProfilesMove

\* A migration is never made while a profile is being created.
LEMMA NoMigration ==
  ASSUME Sound, NEW t \in Threads, NEW u \in Threads,
         MigrateCommit(t) \/ ScriptCommit(t), job[u].at \in Creating
  PROVE  FALSE
<1>1. Migrating(t) /\ job[t].at \in Offline
  BY DEF MigrateCommit, ScriptCommit, At, Migrating, Offline
<1>2. u # t
  BY <1>1 DEF Offline, Creating
<1>3. job[u] = Nothing
  BY <1>1, <1>2, SoundHas DEF MovesAlone, Idle
<1>4. QED
  BY <1>3, KindStage DEF Creating

LEMMA AdminStepsOwnNone ==
  ASSUME Sound, LimitInv, Next
  PROVE  AdminOwnsNone'
<1>1. OwnedRows(Admin) = {}
  BY DEF LimitInv, AdminOwnsNone, OwnedRows
<1>2. IsFiniteSet({}) /\ Cardinality({}) = 0
  BY FS_EmptySet
<1>3. OwnedRows(Admin)' = {}
  <2>1. CASE OwnedRows(Admin)' \subseteq OwnedRows(Admin)
    BY <1>1, <2>1
  <2>2. ASSUME NEW t \in Threads, GrantOwner(t),
               OwnedRows(Admin)' \subseteq OwnedRows(Admin)
                                 \cup (IF Admin = job[t].who THEN {Coming(t)} ELSE {})
        PROVE  OwnedRows(Admin)' = {}
    BY <1>1, <2>2 DEF GrantOwner, At, LimitInv, AdminOwnsNone
  <2>3. ASSUME IsFiniteSet(OwnedRows(Admin)'),
               Cardinality(OwnedRows(Admin)') <= Cardinality(OwnedRows(Admin))
        PROVE  OwnedRows(Admin)' = {}
    <3>1. Cardinality(OwnedRows(Admin)') \in Nat
      BY <2>3, FS_CardinalityType
    <3>2. Cardinality(OwnedRows(Admin)') = 0
      BY <1>1, <1>2, <2>3, <3>1
    <3>3. QED
      BY <2>3, <3>2, FS_EmptySet
  <2>4. QED
    BY <1>1, <1>2, <2>1, <2>2, <2>3, OwnedSteps
<1>4. \A g \in grants' : g.op = "manage_profile" => g.who # Admin
  BY <1>3 DEF OwnedRows
<1>5. ASSUME NEW u \in Threads, job'[u].at = "grant"
      PROVE  job'[u].who # Admin
  <2>1. job'[u].at \in Creating
    BY <1>5 DEF Creating
  <2>2. QED
    BY <1>5, <2>1, CreatingSteps
       DEF GoesOn, GoesGranting, StaysGranting, LimitInv, AdminOwnsNone
<1>6. QED
  BY <1>4, <1>5 DEF AdminOwnsNone

LEMMA StaysFinite ==
  ASSUME Sound, Finite, Next
  PROVE  Finite'
<1>1. SUFFICES ASSUME NEW pr \in Principals
               PROVE  IsFiniteSet(OwnedRows(pr)')
  BY DEF Finite
<1>2. IsFiniteSet(OwnedRows(pr))
  BY DEF Finite
<1>3. ASSUME NEW x, OwnedRows(pr)' \subseteq OwnedRows(pr) \cup {x}
      PROVE  IsFiniteSet(OwnedRows(pr)')
  <2>1. IsFiniteSet(OwnedRows(pr) \cup {x})
    BY <1>2, FS_AddElement
  <2>2. QED
    BY <1>3, <2>1, FS_Subset
<1>4. ASSUME OwnedRows(pr)' \subseteq OwnedRows(pr)
      PROVE  IsFiniteSet(OwnedRows(pr)')
  BY <1>2, <1>4, FS_Subset
<1>5. ASSUME NEW t \in Threads,
             OwnedRows(pr)' \subseteq OwnedRows(pr)
                               \cup (IF pr = job[t].who THEN {Coming(t)} ELSE {})
      PROVE  OwnedRows(pr)' \subseteq OwnedRows(pr) \cup {Coming(t)}
  BY <1>5
<1>6. QED
  BY <1>2, <1>3, <1>4, <1>5, OwnedSteps

\* Where a creation of a principal comes from, and what becomes of the rows.
CreatesFor(pr, t) == job[t].at \in Creating /\ job[t].who = pr

LEMMA CreationOrigin ==
  ASSUME Sound, Next, NEW pr \in Principals, pr # Admin, NEW u \in Threads, CreatesFor(pr, u)'
  PROVE  \/ CreatesFor(pr, u)
         \/ /\ \E p \in Profiles : AskCreate(u, pr, p)
            /\ Begun(u) /\ job'[u].at = "insert"
<1>1. job'[u].at \in Creating /\ job'[u].who = pr
  BY DEF CreatesFor
<1>2. \/ CreatesFor(pr, u)
      \/ \E p \in Profiles, q \in Principals :
           /\ AskCreate(u, q, p) /\ Begun(u) /\ job'[u].who = q /\ job'[u].at = "insert"
  BY <1>1, CreatingSteps DEF GoesOn, GoesGranting, StaysGranting, CreatesFor, Creating
<1>3. QED
  BY <1>1, <1>2

LEMMA RowsWhileCreating ==
  ASSUME Sound, Next, NEW pr \in Principals, CountAt(pr), NEW t \in Threads, CreatesFor(pr, t)
  PROVE  \/ OwnedRows(pr)' \subseteq OwnedRows(pr)
         \/ job[t].at = "grant" /\ OwnedRows(pr)' \subseteq OwnedRows(pr) \cup {Coming(t)}
<1>1. ASSUME NEW u \in Threads, GrantOwner(u),
             OwnedRows(pr)' \subseteq OwnedRows(pr)
                               \cup (IF pr = job[u].who THEN {Coming(u)} ELSE {})
      PROVE  \/ OwnedRows(pr)' \subseteq OwnedRows(pr)
             \/ job[t].at = "grant" /\ OwnedRows(pr)' \subseteq OwnedRows(pr) \cup {Coming(t)}
  <2>1. CASE pr = job[u].who
    <3>1. job[u].at = "grant" /\ job[u].at \in Creating
      BY <1>1 DEF GrantOwner, At, Creating
    <3>2. u = t
      BY <2>1, <3>1 DEF CountAt, CreatesOnce, CreatesFor
    <3>3. QED
      BY <1>1, <2>1, <3>1, <3>2
  <2>2. CASE pr # job[u].who
    BY <1>1, <2>2
  <2>3. QED
    BY <2>1, <2>2
<1>2. ~ \E u \in Threads : MigrateCommit(u) \/ ScriptCommit(u)
  BY NoMigration DEF CreatesFor
<1>3. QED
  BY <1>1, <1>2, OwnedSteps

LEMMA AskedAlone ==
  ASSUME NEW pr \in Principals, pr \notin hurried', NEW t \in Threads, NEW p \in Profiles,
         AskCreate(t, pr, p)
  PROVE  /\ \A u \in Threads : ~CreatesFor(pr, u)
         /\ WithinLimit(pr) /\ OwnedRows(pr)' = OwnedRows(pr)
<1>1. \A u \in Threads : ~CreatesFor(pr, u)
  BY DEF AskCreate, CreatesFor
<1>2. QED
  BY <1>1 DEF AskCreate, access, OwnedRows

LEMMA CountKept ==
  ASSUME Sound, Next, Finite, NEW pr \in Principals, pr # Admin, pr \notin hurried',
         CountAt(pr)
  PROVE  CountAt(pr)'
<1>1. IsFiniteSet(OwnedRows(pr))
  BY DEF Finite
<1>2. Cardinality(OwnedRows(pr)) \in Nat /\ Cardinality(OwnedRows(pr)) <= MaxProfiles
  BY <1>1, FS_CardinalityType DEF CountAt
\* The number of rows.
<1>3. Cardinality(OwnedRows(pr)') <= MaxProfiles
  <2>1. ASSUME OwnedRows(pr)' \subseteq OwnedRows(pr)
        PROVE  Cardinality(OwnedRows(pr)') <= MaxProfiles
    <3>1. /\ Cardinality(OwnedRows(pr)') <= Cardinality(OwnedRows(pr))
          /\ Cardinality(OwnedRows(pr)') \in Nat
      BY <1>1, <2>1, SubsetCounts
    <3>2. QED
      BY <1>2, <3>1
  <2>2. ASSUME NEW t \in Threads, GrantOwner(t), pr = job[t].who,
               OwnedRows(pr)' \subseteq OwnedRows(pr) \cup {Coming(t)}
        PROVE  Cardinality(OwnedRows(pr)') <= MaxProfiles
    <3>1. job[t].at = "grant" /\ job[t].at \in Creating
      BY <2>2 DEF GrantOwner, At, Creating
    <3>2. Cardinality(OwnedRows(pr) \cup {Coming(t)}) <= MaxProfiles
      BY <2>2, <3>1 DEF CountAt
    <3>3. IsFiniteSet(OwnedRows(pr) \cup {Coming(t)})
      BY <1>1, FS_AddElement
    <3>4. /\ Cardinality(OwnedRows(pr)') <= Cardinality(OwnedRows(pr) \cup {Coming(t)})
          /\ Cardinality(OwnedRows(pr)') \in Nat
          /\ Cardinality(OwnedRows(pr) \cup {Coming(t)}) \in Nat
      BY <2>2, <3>3, SubsetCounts
    <3>5. QED
      BY <3>2, <3>4
  <2>3. ASSUME IsFiniteSet(OwnedRows(pr)'),
               Cardinality(OwnedRows(pr)') <= Cardinality(OwnedRows(pr))
        PROVE  Cardinality(OwnedRows(pr)') <= MaxProfiles
    <3>1. Cardinality(OwnedRows(pr)') \in Nat
      BY <2>3, FS_CardinalityType
    <3>2. QED
      BY <1>2, <2>3, <3>1
  <2>4. ASSUME NEW t \in Threads, GrantOwner(t),
               OwnedRows(pr)' \subseteq OwnedRows(pr)
                                 \cup (IF pr = job[t].who THEN {Coming(t)} ELSE {})
        PROVE  Cardinality(OwnedRows(pr)') <= MaxProfiles
    <3>1. CASE pr = job[t].who
      BY <2>2, <2>4, <3>1
    <3>2. CASE pr # job[t].who
      BY <2>1, <2>4, <3>2
    <3>3. QED
      BY <3>1, <3>2
  <2>5. QED
    BY <1>1, <2>1, <2>3, <2>4, OwnedSteps
\* A second creation would have been noted.
<1>4. ASSUME NEW t \in Threads, CreatesFor(pr, t)', NEW u \in Threads, CreatesFor(pr, u)'
      PROVE  u = t
  <2>1. ASSUME NEW v \in Threads, NEW w \in Threads, NEW p \in Profiles,
               AskCreate(v, pr, p), Begun(v), CreatesFor(pr, w)'
        PROVE  w = v
    <3>1. ~CreatesFor(pr, w)
      BY <2>1, AskedAlone
    <3>2. Begun(w)
      BY <2>1, <3>1, CreationOrigin
    <3>3. job[w].at \notin Creating
      BY <3>2 DEF Begun, Creating
    <3>4. job'[w].at \in Creating
      BY <2>1 DEF CreatesFor
    <3>5. QED
      BY <2>1, <3>3, <3>4 DEF Begun, Alone
  <2>2. CASE CreatesFor(pr, t) /\ CreatesFor(pr, u)
    BY <2>2 DEF CountAt, CreatesOnce, CreatesFor
  <2>3. QED
    BY <1>4, <2>1, <2>2, CreationOrigin
\* Room for the grants to come.
<1>5. ASSUME NEW t \in Threads, CreatesFor(pr, t)', job'[t].at \in Early
      PROVE  Cardinality(OwnedRows(pr)') < MaxProfiles
  <2>1. ASSUME NEW p \in Profiles, AskCreate(t, pr, p)
        PROVE  Cardinality(OwnedRows(pr)') < MaxProfiles
    BY <2>1, AskedAlone DEF WithinLimit
  <2>2. CASE CreatesFor(pr, t)
    <3>1. job[t].at \in Early
      <4>1. job'[t].at \in Creating /\ job'[t].at \notin {"grant"}
        BY <1>5 DEF Early, Creating
      <4>2. QED
        BY <1>5, <2>2, <4>1, CreatingSteps
           DEF GoesOn, GoesGranting, StaysGranting, Begun, CreatesFor, Creating, AskCreateTotp,
               Begin, Idle, Nothing
    <3>2. Cardinality(OwnedRows(pr)) < MaxProfiles
      BY <2>2, <3>1 DEF CountAt, CreatesFor
    <3>3. OwnedRows(pr)' \subseteq OwnedRows(pr)
      BY <2>2, <3>1, RowsWhileCreating DEF Early
    <3>4. /\ Cardinality(OwnedRows(pr)') <= Cardinality(OwnedRows(pr))
          /\ Cardinality(OwnedRows(pr)') \in Nat
      BY <1>1, <3>3, SubsetCounts
    <3>5. QED
      BY <1>2, <3>2, <3>4
  <2>3. QED
    BY <1>5, <2>1, <2>2, CreationOrigin
<1>6. ASSUME NEW t \in Threads, CreatesFor(pr, t)', job'[t].at = "grant"
      PROVE  Cardinality((OwnedRows(pr) \cup {Coming(t)})') <= MaxProfiles
  <2>0. CreatesFor(pr, t)
    BY <1>6, CreationOrigin
  <2>1. \/ job'[t] = job[t]
        \/ GoesGranting(t)
        \/ StaysGranting(t)
    <3>1. job'[t].at \in Creating
      BY <1>6 DEF Creating
    <3>2. QED
      BY <1>6, <3>1, CreatingSteps DEF GoesOn
  <2>2. PICK x : x = Coming(t)'
    OBVIOUS
  <2>3. CASE job[t].at = "grant"
    <3>1. x = Coming(t)
      BY <2>1, <2>2, <2>3 DEF GoesGranting, StaysGranting, Coming
    <3>2. OwnedRows(pr)' \cup {x} \subseteq OwnedRows(pr) \cup {x}
      BY <2>0, <3>1, RowsWhileCreating
    <3>3. IsFiniteSet(OwnedRows(pr) \cup {x})
      BY <1>1, FS_AddElement
    <3>4. /\ Cardinality(OwnedRows(pr)' \cup {x}) <= Cardinality(OwnedRows(pr) \cup {x})
          /\ Cardinality(OwnedRows(pr)' \cup {x}) \in Nat
          /\ Cardinality(OwnedRows(pr) \cup {x}) \in Nat
      BY <3>2, <3>3, SubsetCounts
    <3>5. Cardinality(OwnedRows(pr) \cup {x}) <= MaxProfiles
      BY <2>0, <2>3, <3>1 DEF CountAt, CreatesFor
    <3>6. QED
      BY <2>2, <3>4, <3>5
  <2>4. CASE job[t].at # "grant"
    <3>1. job[t].at \in Early
      BY <1>6, <2>1, <2>4 DEF GoesGranting, StaysGranting, Early
    <3>2. Cardinality(OwnedRows(pr)) < MaxProfiles
      BY <2>0, <3>1 DEF CountAt, CreatesFor
    <3>3. OwnedRows(pr)' \subseteq OwnedRows(pr)
      BY <2>0, <2>4, RowsWhileCreating
    <3>4. /\ Cardinality(OwnedRows(pr)' \cup {x}) <= Cardinality(OwnedRows(pr) \cup {x})
          /\ Cardinality(OwnedRows(pr)' \cup {x}) \in Nat
          /\ Cardinality(OwnedRows(pr) \cup {x}) \in Nat
          /\ Cardinality(OwnedRows(pr) \cup {x}) <= Cardinality(OwnedRows(pr)) + 1
      BY <1>1, <3>3, SubsetCounts
    <3>5. QED
      BY <1>2, <2>2, <3>2, <3>4
  <2>5. QED
    BY <2>3, <2>4
<1>7. QED
  BY <1>3, <1>4, <1>5, <1>6 DEF CountAt, CreatesOnce, CreatesFor

LEMMA LimitKept ==
  ASSUME Sound, LimitInv, Next
  PROVE  LimitInv'
<1>1. AdminOwnsNone' /\ Finite'
  BY AdminStepsOwnNone, StaysFinite DEF LimitInv
<1>2. ASSUME NEW pr \in Principals, pr # Admin, pr \notin hurried'
      PROVE  CountAt(pr)'
  BY <1>2, HurriedGrows, CountKept DEF LimitInv
<1>3. QED
  BY <1>1, <1>2 DEF LimitInv

LEMMA LimitInit == Init => LimitInv
<1> SUFFICES ASSUME Init
             PROVE  LimitInv
  OBVIOUS
<1>1. InitAccess /\ InitProfiles /\ Sound
  BY InitSound DEF Init
<1>2. \A t \in Threads : job[t].at = "idle"
  BY <1>1, KindStage DEF InitAccess
<1> DEFINE of(p) == Grant(Standing[p], "manage_profile", p, row[p])
<1>3. ASSUME NEW g \in grants, g.op = "manage_profile"
      PROVE  \E p \in DOMAIN Standing : g = of(p) /\ g.who = Standing[p]
  <2>1. g \notin {Grant(pr, "create_profile", Anywhere, 0) : pr \in Founders}
    <3>1. \A pr : Grant(pr, "create_profile", Anywhere, 0).op = "create_profile"
      BY GrantHas
    <3>2. QED
      BY <1>3, <3>1
  <2>2. PICK p \in {q \in DOMAIN Standing : Present(q)}, n \in DOMAIN OwnerOps :
          g = Grant(Standing[p], OwnerOps[n], p, row[p])
    BY <1>1, <1>3, <2>1 DEF InitProfiles
  <2>3. g.op = OwnerOps[n] /\ g.who = Standing[p]
    BY <2>2, GrantHas
  <2>4. QED
    BY <1>3, <2>2, <2>3
<1> HIDE DEF of
<1>4. AdminOwnsNone
  BY <1>2, <1>3 DEF AdminOwnsNone
<1>5. ASSUME NEW pr \in Principals
      PROVE  /\ IsFiniteSet(OwnedRows(pr))
             /\ pr # Admin => Cardinality(OwnedRows(pr)) <= MaxProfiles
  <2> DEFINE mine == {p \in DOMAIN Standing : Standing[p] = pr}
             made == {of(p) : p \in mine}
             f == [p \in mine |-> of(p)]
  <2>1. OwnedRows(pr) \subseteq made
    BY <1>3 DEF OwnedRows
  <2>2. IsFiniteSet(mine)
    BY FS_Subset
  <2>3. f \in Surjection(mine, made)
    BY DEF Surjection
  <2>4. Cardinality(mine) <= MaxProfiles
    <3>1. CASE pr \in Founders
      BY <3>1
    <3>2. CASE pr \notin Founders
      <4>1. mine = {}
        BY <3>2
      <4>2. Cardinality({}) = 0
        BY FS_EmptySet
      <4> HIDE DEF mine
      <4>3. QED
        BY <4>1, <4>2
    <3>3. QED
      BY <3>1, <3>2
  <2> HIDE DEF mine, made, f
  <2>5. IsFiniteSet(made) /\ Cardinality(made) <= Cardinality(mine)
    BY <2>2, <2>3, FS_Surjection
  <2>6. IsFiniteSet(OwnedRows(pr)) /\ Cardinality(OwnedRows(pr)) <= Cardinality(made)
    BY <2>1, <2>5, FS_Subset
  <2>7. /\ Cardinality(mine) \in Nat /\ Cardinality(made) \in Nat
        /\ Cardinality(OwnedRows(pr)) \in Nat
    BY <2>2, <2>5, <2>6, FS_CardinalityType
  <2>8. QED
    BY <2>4, <2>5, <2>6, <2>7
<1>6. \A pr \in Principals : pr # Admin => CountAt(pr)
  BY <1>2, <1>5 DEF CountAt, Creating
<1>7. QED
  BY <1>4, <1>5, <1>6 DEF LimitInv, Finite

LEMMA LimitStutter == LimitInv /\ UNCHANGED vars => LimitInv'
BY DEF LimitInv, AdminOwnsNone, Finite, CountAt, CreatesOnce, Coming, OwnedRows, vars, access,
  profileVars, profileNotes

LEMMA LimitHeld == Sound /\ LimitInv => LimitNeedsOverlap
<1> SUFFICES ASSUME Sound, LimitInv, NEW pr \in Principals, pr \notin hurried
             PROVE  ~(Cardinality(OwnedRows(pr)) > MaxProfiles)
  BY DEF LimitNeedsOverlap
<1>1. CASE pr = Admin
  <2>1. OwnedRows(Admin) = {}
    BY DEF LimitInv, AdminOwnsNone, OwnedRows
  <2>2. QED
    BY <1>1, <2>1, FS_EmptySet
<1>2. CASE pr # Admin
  <2>1. Cardinality(OwnedRows(pr)) \in Nat
    BY FS_CardinalityType DEF LimitInv, Finite
  <2>2. QED
    BY <1>2, <2>1 DEF LimitInv, CountAt
<1>3. QED
  BY <1>1, <1>2

\* A principal is over the limit of profiles only if two of its creations
\* overlapped: the count that POST /profiles reads before it writes is exact
\* otherwise, through failures, deletions, interruptions and migrations.
THEOREM LimitNeedsOverlapHolds == Spec => []LimitNeedsOverlap
<1>1. Sound /\ LimitInv /\ [Next]_vars => Sound' /\ LimitInv'
  BY NextSound, StutterSound, LimitKept, LimitStutter
<1>2. QED
  BY InitSound, LimitInit, <1>1, LimitHeld, PTL DEF Spec

-----------------------------------------------------------------------------
(* What lasts as long as a profile *)

Half(p, t)    == job[t].at \in Halfway /\ job[t].profile = p
Going(p, t)   == job[t].at \in {"unlink", "revoke"} /\ job[t].profile = p
Touches(p, t) == Migrating(t) /\ p \in {job[t].old, job[t].new}

\* What a request that made p, or made it go, has done so far.
Midway(p, t) ==
  /\ job[t].at \in {"files", "rest", "grant", "unregister"} => Present(p)
  /\ job[t].at \in {"discard", "unlink", "revoke"} => ~Present(p)
  /\ job[t].at = "revoke" => files[p] = NoFiles
  /\ job[t].at = "discard" => \A g \in grants : g.on # p
  /\ job[t].at = "grant" =>
       /\ files[p] = row[p] /\ job[t].life = row[p]
       /\ \A n \in DOMAIN OwnerOps : n < job[t].n =>
            Grant(job[t].who, OwnerOps[n], p, row[p]) \in grants

MidwayAt(p) ==
  \A t \in Threads : Half(p, t) => Midway(p, t) /\ \A u \in Threads : Half(p, u) => u = t

GrantsAt(p) ==
  (\A t \in Threads : ~Going(p, t)) =>
    \A g \in grants : g.on = p => Present(p) /\ g.life = row[p]

OwnersAt(p) ==
  Present(p) => \A o \in owned : o[2] = row[p] =>
    \A n \in DOMAIN OwnerOps : Grant(o[1], OwnerOps[n], p, row[p]) \in grants

DevicesAt(p) ==
  Present(p) => \A d \in devices : d[2] = row[p] =>
    \A op \in DeviceOps : Grant(d[1], op, p, row[p]) \in grants

FilesAt(p) ==
  (\A t \in Threads : ~Half(p, t)) =>
    /\ (\A t \in Threads : ~Touches(p, t)) =>
         files[p] = row[p]
    /\ \A t \in Threads : Migrating(t) /\ job[t].old = p =>
         files[p] = NoFiles /\ files[job[t].new] = row[p]

KeptAt(p) ==
  p \notin torn => MidwayAt(p) /\ GrantsAt(p) /\ OwnersAt(p) /\ DevicesAt(p) /\ FilesAt(p)

\* A life that a request carries is that of the profile it looked up, or gone.
LivesFound ==
  \A t \in Threads :
    /\ job[t].at = "issue" => \A p \in DOMAIN job[t].lives :
         /\ job[t].lives[p] # 0
         /\ \A q \in Profiles : row[q] = job[t].lives[p] => q = p
    /\ job[t].at = "grant" =>
         \A q \in Profiles : Present(q) /\ row[q] = job[t].life => q = job[t].profile

LastsInv == LivesFound /\ \A p \in Profiles : KeptAt(p)

LEMMA HalfwayIs ==
  Halfway = {"files", "rest", "grant", "unregister", "discard", "unlink", "revoke"}
BY DEF Halfway, Creating, Deleting

\* A thread that goes from one stage to another while no migration is made.
Ashore(t) ==
  /\ Alone(t) /\ job[t].at \notin Offline /\ job'[t].at \notin Offline
  /\ Begun(t) \/ job[t].at # "idle"

LEMMA NothingMoves ==
  ASSUME Sound, NEW t \in Threads, Ashore(t)
  PROVE  \A u \in Threads : ~Migrating(u) /\ job'[u].at \notin Offline
<1>1. ASSUME NEW u \in Threads, Migrating(u)
      PROVE  FALSE
  <2>1. u # t
    BY <1>1 DEF Ashore, Migrating
  <2>2. job[t] = Nothing
    BY <1>1, <2>1, SoundHas DEF MovesAlone, Idle
  <2>3. Begun(t)
    BY <2>2, KindStage DEF Ashore
  <2>4. QED
    BY <1>1, <2>3 DEF Begun, Migrating
<1>2. QED
  BY <1>1 DEF Ashore, Alone, Migrating

\* A step that is not about p leaves what lasts with p alone.
LEMMA ElsewhereKept ==
  ASSUME Sound, NEW p \in Profiles, KeptAt(p), NEW t \in Threads, Ashore(t),
         ~Half(p, t), ~(job'[t].at \in Halfway /\ job'[t].profile = p),
         torn \subseteq torn', row'[p] = row[p], files'[p] = files[p],
         \A g : g.on = p => (g \in grants' <=> g \in grants),
         \A o \in owned' : Present(p) /\ o[2] = row[p] => o \in owned,
         \A d \in devices' : Present(p) /\ d[2] = row[p] => d \in devices
  PROVE  KeptAt(p)'
<1> SUFFICES ASSUME p \notin torn'
             PROVE  KeptAt(p)'
  BY DEF KeptAt
<1>1. p \notin torn /\ MidwayAt(p) /\ GrantsAt(p) /\ OwnersAt(p) /\ DevicesAt(p) /\ FilesAt(p)
  BY DEF KeptAt
<1>2. Present(p)' = Present(p)
  BY DEF Present
<1>3. \A u \in Threads : (Half(p, u)' => u # t /\ Half(p, u)) /\ (Half(p, u) => Half(p, u)')
  BY DEF Half, Ashore, Alone
<1>4. \A u \in Threads : u # t => job'[u] = job[u]
  BY DEF Ashore, Alone
<1>5. ASSUME NEW w, NEW op
      PROVE  Grant(w, op, p, row[p])' \in grants' <=> Grant(w, op, p, row[p]) \in grants
  <2>1. PICK g : g = Grant(w, op, p, row[p])
    OBVIOUS
  <2>2. g.on = p /\ Grant(w, op, p, row[p])' = g
    BY <2>1, GrantHas DEF Grant
  <2>3. QED
    BY <2>1, <2>2
<1>6. MidwayAt(p)'
  <2>1. ASSUME NEW u \in Threads, Half(p, u)'
        PROVE  Midway(p, u)'
    <3>1. u # t /\ Half(p, u) /\ job'[u] = job[u] /\ Midway(p, u)
      BY <1>1, <1>3, <1>4, <2>1 DEF MidwayAt
    <3>2. \A g \in grants' : g.on = p => g \in grants
      OBVIOUS
    <3>3. QED
      BY <1>2, <1>5, <3>1, <3>2 DEF Midway, Present
  <2>2. QED
    BY <1>1, <1>3, <2>1 DEF MidwayAt
<1>7. GrantsAt(p)'
  <2>1. \A u \in Threads : Going(p, u) => Going(p, u)'
    BY <1>3, HalfwayIs DEF Going, Half, Ashore, Alone
  <2>2. QED
    BY <1>1, <1>2, <2>1 DEF GrantsAt
<1>8. OwnersAt(p)' /\ DevicesAt(p)'
  BY <1>1, <1>2, <1>5 DEF OwnersAt, DevicesAt, DeviceOps
<1>9. FilesAt(p)'
  <2>1. \A u \in Threads : ~Migrating(u) /\ ~Migrating(u)'
    BY NothingMoves DEF Migrating
  <2>2. QED
    BY <1>1, <1>2, <1>3, <2>1 DEF FilesAt, Touches
<1>10. QED
  BY <1>6, <1>7, <1>8, <1>9 DEF KeptAt

\* A request that neither makes nor removes a profile, nor a device.
Distant == {"idle", "principal"} \cup EnrollStages \cup ProjectStages

LEMMA DistantIs ==
  /\ \A s \in Distant : s \notin Halfway /\ s \notin Offline /\ s # "issue"
  /\ {"principal", "key", "credential", "admit", "consume", "idle"} \subseteq Distant
BY HalfwayIs DEF Distant, EnrollStages, ProjectStages, PlainStages, AskStages, Offline

LEMMA EnrollComes ==
  ASSUME JobsOK, NEW t \in Threads, EnrollWork(t)
  PROVE  Ashore(t) /\ job[t].at \in Distant /\ job'[t].at \in Distant
<1>1. /\ \/ Begun(t) /\ job[t].at = "idle"
         \/ job[t].at \in {"principal", "key", "credential", "admit", "consume"}
      /\ job'[t].at \in {"principal", "key", "credential", "admit", "consume", "idle"}
      /\ Alone(t)
  BY EnrollMoves, KindStage DEF EnrollWork, Begun, Moved, Ended
<1>2. QED
  BY <1>1, DistantIs DEF Ashore

LEMMA ProjectComes ==
  ASSUME JobsOK, ProjectsOK, NEW t \in Threads, ProjectWork(t)
  PROVE  Ashore(t) /\ job[t].at \in Distant /\ job'[t].at \in Distant
<1>0. /\ asks \subseteq Asks /\ creator \in [Projects -> Profiles]
  BY DEF ProjectsOK
<1>1. Alone(t) /\ job'[t].at \in Distant
  BY ProjectLeaves DEF Distant
<1>2. (Begun(t) /\ job[t].at = "idle") \/ job[t].at \in ProjectStages
  <2>1. ASSUME \/ \E ask \in asks : (\E v \in BOOLEAN : Decide(t, ask, v)) \/ Withdraw(t, ask)
               \/ \E x \in Projects :
                    \/ \E p \in Profiles : ProposeProject(t, x, p) \/ Leave(t, x, p)
                    \/ AskDeleteProject(t, x)
        PROVE  Begun(t) /\ job[t].at = "idle"
    <3>1. ASSUME NEW ask \in asks, NEW v \in BOOLEAN, Decide(t, ask, v)
          PROVE  Begun(t)
      BY <1>0, <3>1, ProjectMoves DEF Opens
    <3>2. ASSUME NEW ask \in asks, Withdraw(t, ask)
          PROVE  Begun(t)
      BY <1>0, <3>2, ProjectMoves DEF Opens
    <3>3. ASSUME NEW x \in Projects,
                 \/ \E p \in Profiles : ProposeProject(t, x, p) \/ Leave(t, x, p)
                 \/ AskDeleteProject(t, x)
          PROVE  Begun(t)
      BY <1>0, <3>3, ProjectMoves DEF Opens
    <3>4. Begun(t)
      BY <2>1, <3>1, <3>2, <3>3
    <3>5. QED
      BY <3>4 DEF Begun
  <2>2. ASSUME \/ AskForProject(t) \/ Activate(t) \/ Enter(t) \/ Reject(t) \/ Settle(t)
               \/ LookAtProject(t) \/ Depart(t) \/ LookBack(t) \/ Notify(t) \/ DropProject(t)
        PROVE  job[t].at \in ProjectStages
    <3>1. job[t].at \in {"ask", "activate", "enter", "reject", "settle", "look", "depart",
                         "look back", "notify", "drop"}
      BY <1>0, <2>2, ProjectMoves
    <3>2. QED
      BY <3>1 DEF ProjectStages, PlainStages, AskStages
  <2>3. QED
    BY <2>1, <2>2 DEF ProjectWork
<1>3. job[t].at \in Distant
  BY <1>2 DEF Distant
<1>4. job[t].at \in ProjectStages => job[t].at # "idle"
  BY DEF ProjectStages, PlainStages, AskStages
<1>5. QED
  BY <1>1, <1>2, <1>3, <1>4, DistantIs DEF Ashore

\* Where a request for a device comes from.
LEMMA IssueSteps ==
  ASSUME Sound, Next, NEW u \in Threads, job'[u].at = "issue"
  PROVE  \/ job'[u] = job[u]
         \/ \E ps \in SUBSET Profiles : AskDevice(u, ps)
<1>0. JobsOK /\ RowsOK /\ ProjectsOK
  BY SoundHas
<1>1. ASSUME NEW t \in Threads, Alone(t), job'[t].at # "issue"
      PROVE  job'[u] = job[u]
  BY <1>1 DEF Alone
<1>2. ASSUME NEW t \in Threads, EnrollWork(t) \/ ProjectWork(t)
      PROVE  job'[u] = job[u]
  BY <1>0, <1>1, <1>2, EnrollComes, ProjectComes, DistantIs DEF Ashore
<1>3. ASSUME NEW t \in Threads, ProfileWork(t)
      PROVE  job'[u] = job[u] \/ \E ps \in SUBSET Profiles : AskDevice(u, ps)
  <2>1. CASE t # u
    BY <1>0, <1>3, <2>1, ProfileLeaves DEF Alone
  <2>2. CASE t = u
    <3>1. CASE \/ \E p \in Profiles : \/ \E pr \in Principals : AskCreate(u, pr, p)
                                      \/ AskCreateTotp(u, p) \/ AskDelete(u, p)
      <4>1. job'[u].at \in {"insert", "wipe"}
        BY <1>0, <3>1, ProfileMoves DEF RowsOK
      <4>2. QED
        BY <4>1
    <3>2. CASE \E p, new \in Profiles : MigrateFiles(u, p, new) \/ ScriptFiles(u, p, new)
      BY <1>0, <3>2, MigrationMoves DEF Offloaded
    <3>3. CASE \/ MigrateCommit(u) \/ ScriptCommit(u) \/ MigrateBack(u) \/ IssueDevice(u)
      BY <1>0, <3>3, MigrationMoves, DeviceMoves, KindStage DEF RowsOK, Ended
    <3>4. CASE \/ InsertProfile(u) \/ MakeFiles(u) \/ WriteFiles(u) \/ FilesFail(u)
               \/ Unregister(u) \/ Discard(u) \/ GrantOwner(u) \/ WipeData(u) \/ EraseRow(u)
               \/ RemoveFiles(u) \/ RevokeAll(u)
      BY <1>0, <3>4, ProfileMoves, KindStage DEF RowsOK, Ended, Moved
    <3>5. QED
      BY <1>3, <2>2, <3>1, <3>2, <3>3, <3>4 DEF ProfileWork
  <2>3. QED
    BY <2>1, <2>2
<1>4. ASSUME NEW ts \in SUBSET Threads, Interrupt(ts)
      PROVE  job'[u] = job[u]
  BY <1>4, KindStage DEF Interrupt, Interrupted
<1>5. CASE EnrollmentStep
  BY <1>2, <1>5, EnrollmentStepIs DEF InviteExpires
<1>6. CASE ProfileStep
  BY <1>3, <1>4, <1>6, ProfileStepIs DEF AddData, RevokeDevice
<1>7. CASE ProjectStep
  BY <1>2, <1>7, ProjectStepIs DEF ProjectNotes, AskToJoin, Silence
<1>8. QED
  BY <1>5, <1>6, <1>7 DEF Next, ProfilesMove

\* What a registration can become.
LEMMA RowBecomes ==
  ASSUME Sound, Next, NEW t \in Threads, job[t].at \in {"issue", "grant"},
         NEW q \in Profiles, row'[q] # 0, NEW l \in 0 .. lives, row'[q] = l
  PROVE  row[q] = row'[q]
<1>0. JobsOK /\ RowsOK /\ MovesAlone /\ RowStep
  BY NextRows, SoundHas DEF RowsWell
<1>1. ASSUME NEW r \in Profiles, RowAdded(r)
      PROVE  row[q] = row'[q]
  BY <1>0, <1>1 DEF RowAdded, RowsOK
<1>2. ASSUME NEW r \in Profiles, RowErased(r)
      PROVE  row[q] = row'[q]
  BY <1>0, <1>2 DEF RowErased, RowsOK
<1>3. ASSUME NEW u \in Threads, RowMoved(u)
      PROVE  FALSE
  <2>1. u # t /\ job[t] # Nothing
    BY <1>3, KindStage DEF RowMoved, Migrating, Offline
  <2>2. QED
    BY <1>0, <1>3, <2>1 DEF RowMoved, MovesAlone, Idle
<1>4. QED
  BY <1>0, <1>1, <1>2, <1>3 DEF RowStep

LEMMA LivesFoundKept ==
  ASSUME Sound, Next, LivesFound
  PROVE  LivesFound'
<1>0. JobsOK /\ RowsOK /\ OneIdEach /\ RowsOK'
  BY NextRows, SoundHas
<1>1. ASSUME NEW t \in Threads, job'[t].at = "issue", NEW p \in DOMAIN job'[t].lives
      PROVE  /\ job'[t].lives[p] # 0
             /\ \A q \in Profiles : row'[q] = job'[t].lives[p] => q = p
  <2>1. CASE job'[t] = job[t]
    <3>1. job[t].at = "issue" /\ p \in DOMAIN job[t].lives
      BY <1>1, <2>1
    <3>2. job[t].lives[p] # 0 /\ \A q \in Profiles : row[q] = job[t].lives[p] => q = p
      BY <3>1 DEF LivesFound
    <3>3. job[t].lives[p] \in 0 .. lives
      BY <1>0, <3>1, InKind
    <3>4. QED
      BY <2>1, <3>1, <3>2, <3>3, RowBecomes
  <2>2. ASSUME NEW ps \in SUBSET Profiles, AskDevice(t, ps)
        PROVE  /\ job'[t].lives[p] # 0
               /\ \A q \in Profiles : row'[q] = job'[t].lives[p] => q = p
    <3>1. p \in ps /\ Present(p) /\ job'[t].lives[p] = row[p] /\ p \in Profiles
      BY <1>0, <1>1, <2>2, DeviceMoves DEF RowsOK
    <3>2. row' = row
      BY <2>2 DEF AskDevice, profileVars, profileTables
    <3>3. QED
      BY <1>0, <3>1, <3>2 DEF OneIdEach, Present
  <2>3. QED
    BY <1>1, <2>1, <2>2, IssueSteps
<1>2. ASSUME NEW t \in Threads, job'[t].at = "grant", NEW q \in Profiles, row'[q] # 0,
             row'[q] = job'[t].life
      PROVE  q = job'[t].profile
  <2>0. job'[t].at \in Creating
    BY <1>2 DEF Creating
  <2>1. CASE job[t].at = "grant" /\ job'[t].life = job[t].life /\ job'[t].profile = job[t].profile
    <3>1. job[t].life \in 0 .. lives
      BY <1>0, <2>1, InKind
    <3>2. row[q] = row'[q]
      BY <1>2, <2>1, <3>1, RowBecomes
    <3>3. QED
      BY <1>2, <2>1, <3>2 DEF LivesFound, Present
  <2>2. CASE GoesGranting(t)
    <3>1. row' = row
      BY <2>2 DEF GoesGranting, WriteFiles
    <3>2. job[t].profile \in Profiles
      BY <1>0, <2>2, InKind DEF GoesGranting, Creating
    <3>3. QED
      BY <1>0, <1>2, <2>2, <3>1, <3>2 DEF GoesGranting, OneIdEach, Present
  <2>3. QED
    BY <1>2, <2>0, <2>1, <2>2, CreatingSteps DEF GoesOn, StaysGranting
<1>3. QED
  BY <1>1, <1>2 DEF LivesFound, Present

-----------------------------------------------------------------------------
(* Steps that are about no profile *)

\* What lasts with the profiles is as it was.
SameLasting ==
  /\ UNCHANGED <<row, files, owned, torn>> /\ devices' \subseteq devices
  /\ \A p \in Profiles : \A g : g.on = p => (g \in grants' <=> g \in grants)

LEMMA StillKept ==
  ASSUME Sound, NEW p \in Profiles, KeptAt(p), SameLasting, job' = job
  PROVE  KeptAt(p)'
<1> SUFFICES ASSUME p \notin torn'
             PROVE  KeptAt(p)'
  BY DEF KeptAt
<1>1. p \notin torn /\ MidwayAt(p) /\ GrantsAt(p) /\ OwnersAt(p) /\ DevicesAt(p) /\ FilesAt(p)
  BY DEF KeptAt, SameLasting
<1>2. UNCHANGED <<row, files, owned, torn, job>>
  BY DEF SameLasting
<1>5. ASSUME NEW w, NEW op
      PROVE  Grant(w, op, p, row[p])' \in grants' <=> Grant(w, op, p, row[p]) \in grants
  <2>1. PICK g : g = Grant(w, op, p, row[p])
    OBVIOUS
  <2>2. g.on = p /\ Grant(w, op, p, row[p])' = g
    BY <1>2, <2>1, GrantHas DEF Grant
  <2>3. QED
    BY <2>1, <2>2 DEF SameLasting
<1>6. MidwayAt(p)'
  BY <1>1, <1>2, <1>5 DEF MidwayAt, Midway, Half, Present, SameLasting
<1>7. GrantsAt(p)' /\ FilesAt(p)'
  BY <1>1, <1>2 DEF GrantsAt, FilesAt, Going, Half, Touches, Migrating, Present, SameLasting
<1>8. OwnersAt(p)' /\ DevicesAt(p)'
  BY <1>1, <1>2, <1>5 DEF OwnersAt, DevicesAt, DeviceOps, Present, SameLasting
<1>9. QED
  BY <1>6, <1>7, <1>8 DEF KeptAt

LEMMA DistantKept ==
  ASSUME Sound, NEW p \in Profiles, KeptAt(p), NEW t \in Threads, Ashore(t),
         job[t].at \notin Halfway, job'[t].at \notin Halfway, SameLasting
  PROVE  KeptAt(p)'
<1>1. /\ ~Half(p, t) /\ torn' = torn /\ row' = row /\ files' = files /\ owned' = owned
      /\ devices' \subseteq devices
  BY DEF Half, SameLasting
<1>2. \A g : g.on = p => (g \in grants' <=> g \in grants)
  BY DEF SameLasting
<1>3. QED
  BY <1>1, <1>2, ElsewhereKept

LEMMA InterruptKept ==
  ASSUME Sound, NEW p \in Profiles, KeptAt(p), NEW ts \in SUBSET Threads, Interrupt(ts)
  PROVE  KeptAt(p)'
<1> SUFFICES ASSUME p \notin torn'
             PROVE  KeptAt(p)'
  BY DEF KeptAt
<1>0. /\ job' = [t \in Threads |-> IF t \in ts THEN Nothing ELSE job[t]]
      /\ UNCHANGED <<row, files, owned, devices, grants>>
  BY DEF Interrupt, Interrupted, access, profileTables
<1>1. /\ p \notin torn
      /\ \A t \in ts : ~Half(p, t) /\ ~Touches(p, t)
  BY DEF Interrupt, About, Half, Touches
<1>2. MidwayAt(p) /\ GrantsAt(p) /\ OwnersAt(p) /\ DevicesAt(p) /\ FilesAt(p)
  BY <1>1 DEF KeptAt
<1>3. \A t \in Threads : t \in ts => job'[t].at = "idle"
  BY <1>0, KindStage
<1>4. \A t \in Threads : t \notin ts => job'[t] = job[t]
  BY <1>0
<1>5. \A t \in Threads : /\ Half(p, t)' <=> Half(p, t)
                         /\ Going(p, t)' <=> Going(p, t)
                         /\ Touches(p, t)' <=> Touches(p, t)
                         /\ Half(p, t) \/ Touches(p, t) => job'[t] = job[t]
  BY <1>1, <1>3, <1>4, HalfwayIs DEF Half, Going, Touches, Migrating, Offline
<1>6. MidwayAt(p)'
  BY <1>0, <1>2, <1>5 DEF MidwayAt, Midway, Present, Grant
<1>7. GrantsAt(p)' /\ OwnersAt(p)' /\ DevicesAt(p)'
  BY <1>0, <1>2, <1>5 DEF GrantsAt, OwnersAt, DevicesAt, Present, Grant
<1>8. FilesAt(p)'
  BY <1>0, <1>2, <1>5 DEF FilesAt, Present, Touches, Migrating
<1>9. QED
  BY <1>6, <1>7, <1>8 DEF KeptAt

-----------------------------------------------------------------------------
(* Steps of a creation and of a deletion *)

\* Only t is at work upon p before the step.
Sole(p, t) == \A u \in Threads : Half(p, u) => u = t

LEMMA SoleStays ==
  ASSUME NEW p, NEW t \in Threads, Sole(p, t), Alone(t)
  PROVE  \A u \in Threads : Half(p, u)' => u = t
BY DEF Sole, Alone, Half

\* The request goes on with p ...
LEMMA GoingOnKept ==
  ASSUME Sound, NEW p \in Profiles, NEW t \in Threads, Ashore(t), Sole(p, t),
         Half(p, t)', Midway(p, t)',
         GrantsAt(p)', OwnersAt(p)', DevicesAt(p)'
  PROVE  KeptAt(p)'
<1>1. \A u \in Threads : Half(p, u)' => u = t
  BY SoleStays DEF Ashore
<1>2. MidwayAt(p)'
  BY <1>1 DEF MidwayAt
<1>3. FilesAt(p)'
  BY DEF FilesAt
<1>4. QED
  BY <1>2, <1>3 DEF KeptAt

\* ... or is done with it.
LEMMA DoneWithKept ==
  ASSUME Sound, NEW p \in Profiles, NEW t \in Threads, Ashore(t), Sole(p, t), ~Half(p, t)',
         files'[p] = row'[p],
         GrantsAt(p)', OwnersAt(p)', DevicesAt(p)'
  PROVE  KeptAt(p)'
<1>1. \A u \in Threads : ~Half(p, u)'
  BY SoleStays DEF Ashore
<1>2. MidwayAt(p)'
  BY <1>1 DEF MidwayAt
<1>3. FilesAt(p)'
  BY NothingMoves DEF FilesAt, Present, Migrating
<1>4. QED
  BY <1>2, <1>3 DEF KeptAt

LEMMA SameRowKept ==
  ASSUME NEW p \in Profiles, row'[p] = row[p], grants \subseteq grants',
         owned' = owned, devices' = devices, OwnersAt(p), DevicesAt(p)
  PROVE  OwnersAt(p)' /\ DevicesAt(p)'
<1>1. \A w, op : Grant(w, op, p, row[p]) \in grants => Grant(w, op, p, row[p])' \in grants'
  BY DEF Grant
<1>2. QED
  BY <1>1 DEF OwnersAt, DevicesAt, DeviceOps, Present

LEMMA NoRowKept ==
  ASSUME NEW p \in Profiles, row'[p] = 0
  PROVE  OwnersAt(p)' /\ DevicesAt(p)'
BY DEF OwnersAt, DevicesAt, Present

\* Who is at work upon p, when it is one that Midway speaks of.
LEMMA AtWork ==
  ASSUME Sound, NEW p \in Profiles, KeptAt(p), p \notin torn, NEW t \in Threads, Half(p, t)
  PROVE  Sole(p, t) /\ Midway(p, t) /\ OwnersAt(p) /\ DevicesAt(p) /\ GrantsAt(p)
BY DEF KeptAt, MidwayAt, Sole

LEMMA MakeFilesKept ==
  ASSUME Sound, NEW p \in Profiles, KeptAt(p), NEW t \in Threads,
         MakeFiles(t) \/ FilesFail(t) \/ WriteFiles(t)
  PROVE  KeptAt(p)'
<1>0. JobsOK /\ RowsOK /\ TablesOK
  BY SoundHas
<1>1. /\ job[t].at \in {"files", "rest"} /\ Alone(t)
      /\ \/ job'[t].at \in {"rest", "unregister"}
         \/ job'[t].at = "grant" /\ job'[t].life = row[job[t].profile] /\ job'[t].n = 1
         \/ job'[t] = Nothing
      /\ job'[t] # Nothing => job'[t].profile = job[t].profile
      /\ job'[t].at \in {"grant", "idle"} => WriteFiles(t)
  BY <1>0, ProfileMoves, KindStage DEF RowsOK, Moved, Ended, ProfileStages, Creating
<1>2. Ashore(t)
  BY <1>1, KindStage DEF Ashore, Offline
<1>3. UNCHANGED <<row, grants, owned, devices, torn>>
  BY DEF MakeFiles, FilesFail, WriteFiles, access, profileVars, profileTables, profileNotes
<1>4. \A q \in Profiles : q # job[t].profile => files'[q] = files[q]
  <2>1. files' = files \/ files' = [files EXCEPT ![job[t].profile] = SomeFiles]
        \/ \E f : files' = [files EXCEPT ![job[t].profile] = f]
    BY DEF MakeFiles, FilesFail, WriteFiles, profileVars, profileTables
  <2>2. QED
    BY <1>0, <2>1 DEF TablesOK
<1>5. CASE p # job[t].profile
  <2>1. ~Half(p, t) /\ ~(job'[t].at \in Halfway /\ job'[t].profile = p)
    BY <1>1, <1>5, KindStage, HalfwayIs DEF Half
  <2>2. QED
    BY <1>2, <1>3, <1>4, <1>5, <2>1, ElsewhereKept
<1>6. CASE p = job[t].profile
  <2> SUFFICES ASSUME p \notin torn
               PROVE  KeptAt(p)'
    BY <1>3 DEF KeptAt
  <2>1. Half(p, t)
    BY <1>1, <1>6, HalfwayIs DEF Half
  <2>2. Sole(p, t) /\ Midway(p, t) /\ OwnersAt(p) /\ DevicesAt(p) /\ GrantsAt(p)
    BY <2>1, AtWork
  <2>3. Present(p) /\ row'[p] # 0
    BY <1>1, <1>3, <2>2 DEF Midway, Present
  <2>4. OwnersAt(p)' /\ DevicesAt(p)'
    BY <1>3, <2>2, SameRowKept
  <2>5. GrantsAt(p)'
    <3>1. \A u \in Threads : ~Going(p, u)
      BY <1>1, <2>1, <2>2, HalfwayIs DEF Going, Half, Sole
    <3>2. QED
      BY <1>3, <2>2, <3>1 DEF GrantsAt, Present
  <2>6. WriteFiles(t) => files'[p] = row'[p]
    BY <1>0, <1>3, <1>6, <2>3 DEF WriteFiles, TablesOK
  <2>7. CASE job'[t] = Nothing
    <3>1. job'[t].at = "idle" /\ ~Half(p, t)'
      BY <2>7, KindStage, HalfwayIs DEF Half
    <3>2. files'[p] = row'[p]
      BY <1>1, <2>6, <3>1
    <3>3. QED
      BY <1>2, <2>2, <2>3, <2>4, <2>5, <3>1, <3>2, DoneWithKept
  <2>8. CASE job'[t] # Nothing
    <3>1. Half(p, t)'
      BY <1>1, <1>6, <2>8, HalfwayIs DEF Half
    <3>2. Midway(p, t)'
      <4>1. job'[t].at \in {"rest", "unregister", "grant"}
        BY <1>1, <2>8
      <4>2. CASE job'[t].at = "grant"
        <5>1. files'[p] = row'[p] /\ job'[t].life = row'[p] /\ job'[t].n = 1
          BY <1>1, <1>3, <1>6, <2>6, <4>2, KindStage
        <5>2. \A n \in DOMAIN OwnerOps : ~(n < 1)
          OBVIOUS
        <5>3. QED
          BY <2>3, <4>2, <5>1, <5>2 DEF Midway, Present
      <4>3. CASE job'[t].at # "grant"
        BY <2>3, <4>1, <4>3 DEF Midway, Present
      <4>4. QED
        BY <4>2, <4>3
    <3>3. QED
      BY <1>2, <2>2, <2>4, <2>5, <3>1, <3>2, GoingOnKept
  <2>9. QED
    BY <2>7, <2>8
<1>7. QED
  BY <1>5, <1>6

LEMMA InsertKept ==
  ASSUME Sound, NEW p \in Profiles, KeptAt(p), NEW t \in Threads, InsertProfile(t)
  PROVE  KeptAt(p)'
<1>0. JobsOK /\ RowsOK /\ TablesOK
  BY SoundHas
<1>1. job[t].at = "insert" /\ (Moved(t, "files") \/ Ended(t))
  BY <1>0, ProfileMoves DEF RowsOK
<1>2. /\ Ashore(t) /\ job[t].at \notin Halfway /\ ~Half(p, t)
      /\ job[t].profile \in Profiles
      /\ job'[t].at \in Halfway => job'[t].profile = job[t].profile /\ job'[t].at = "files"
  BY <1>0, <1>1, KindStage, HalfwayIs, InKind
     DEF Ashore, Offline, Moved, Ended, Half, Creating, ProfileStages
<1>3. UNCHANGED <<grants, files, owned, devices>>
  BY DEF InsertProfile, access
<1>4. CASE Present(job[t].profile) \/ Retired(job[t].profile)
  <2>1. UNCHANGED <<row, torn>> /\ Done(t)
    BY <1>4 DEF InsertProfile
  <2>2. job'[t].at \notin Halfway
    BY <1>0, <2>1, EndsIt, HalfwayIs
  <2>3. SameLasting
    BY <1>3, <2>1 DEF SameLasting
  <2>4. QED
    BY <1>2, <2>2, <2>3, DistantKept
<1>5. CASE ~(Present(job[t].profile) \/ Retired(job[t].profile))
  <2>1. /\ row' = [row EXCEPT ![job[t].profile] = lives + 1]
        /\ torn' = IF About(job[t].profile, {"unlink", "revoke", "discard"}) = {} THEN torn
                   ELSE torn \cup {job[t].profile}
        /\ job' = [job EXCEPT ![t] = [job[t] EXCEPT !.at = "files"]]
    BY <1>5 DEF InsertProfile, Move
  <2>2. job'[t].at = "files" /\ job'[t].profile = job[t].profile
    <3>1. job'[t] = [job[t] EXCEPT !.at = "files"]
      BY <1>0, <2>1 DEF JobsOK
    <3>2. job'[t] # Nothing
      <4>1. job[t] \in Handled
        BY <1>0, <1>1, StageKind DEF JobsOK, ProfileStages, Creating
      <4>2. job'[t].at = "files"
        BY <3>1, <4>1 DEF Handled
      <4>3. QED
        BY <4>2, KindStage
    <3>3. Moved(t, "files")
      BY <1>1, <3>2 DEF Ended
    <3>4. QED
      BY <1>1, <3>3 DEF Moved, ProfileStages, Creating
  <2>3. CASE p # job[t].profile
    <3>1. row'[p] = row[p] /\ torn \subseteq torn' /\ files'[p] = files[p]
      BY <1>0, <1>3, <2>1, <2>3 DEF RowsOK
    <3>2. ~(job'[t].at \in Halfway /\ job'[t].profile = p)
      BY <2>2, <2>3
    <3>3. QED
      BY <1>2, <1>3, <3>1, <3>2, ElsewhereKept
  <2>4. CASE p = job[t].profile
    <3> SUFFICES ASSUME p \notin torn'
                 PROVE  KeptAt(p)'
      BY DEF KeptAt
    <3>1. p \notin torn /\ About(p, {"unlink", "revoke", "discard"}) = {}
      BY <2>1, <2>4
    <3>2. MidwayAt(p) /\ GrantsAt(p)
      BY <3>1 DEF KeptAt
    <3>3. ~Present(p) /\ row'[p] = lives + 1 /\ lives \in Nat
      BY <1>0, <1>5, <2>1, <2>4 DEF RowsOK
    <3>4. \A u \in Threads : ~Half(p, u)
      BY <3>1, <3>2, <3>3, HalfwayIs DEF MidwayAt, Midway, Half, About
    <3>5. \A g \in grants : g.on # p
      BY <3>2, <3>3, <3>4, HalfwayIs DEF GrantsAt, Going, Half
    <3>6. GrantsAt(p)'
      BY <1>3, <3>5 DEF GrantsAt
    <3>7. OwnersAt(p)' /\ DevicesAt(p)'
      <4>1. \A o \in owned' : o[2] # row'[p]
        BY <1>0, <1>3, <3>3 DEF TablesOK
      <4>2. \A d \in devices' : d[2] # row'[p]
        BY <1>0, <1>3, <3>3 DEF TablesOK
      <4>3. QED
        BY <4>1, <4>2 DEF OwnersAt, DevicesAt
    <3>8. Half(p, t)' /\ Midway(p, t)'
      <4>1. row'[p] # 0
        BY <3>3
      <4>2. QED
        BY <2>2, <2>4, <4>1, HalfwayIs DEF Half, Midway, Present
    <3>9. Sole(p, t)
      BY <3>4 DEF Sole
    <3>10. QED
      BY <1>2, <3>6, <3>7, <3>8, <3>9, GoingOnKept
  <2>5. QED
    BY <2>3, <2>4
<1>6. QED
  BY <1>4, <1>5

LEMMA UnregisterKept ==
  ASSUME Sound, NEW p \in Profiles, KeptAt(p), NEW t \in Threads, Unregister(t)
  PROVE  KeptAt(p)'
<1>0. JobsOK /\ RowsOK /\ TablesOK
  BY SoundHas
<1>1. job[t].at = "unregister" /\ (Moved(t, "discard") \/ Ended(t))
  BY <1>0, ProfileMoves DEF RowsOK
<1>2. /\ Ashore(t) /\ job[t].profile \in Profiles
      /\ job'[t].at \in Halfway => job'[t].profile = job[t].profile /\ job'[t].at = "discard"
  BY <1>0, <1>1, KindStage, HalfwayIs, InKind
     DEF Ashore, Offline, Moved, Ended, Half, Creating, ProfileStages
<1>3. UNCHANGED <<grants, files, owned, devices>>
  BY DEF Unregister, access
<1>4. /\ \/ torn' = torn \cup {job[t].profile} /\ row' = row
         \/ /\ row' = [row EXCEPT ![job[t].profile] = 0]
            /\ torn' = IF \E g \in grants : g.on = job[t].profile
                       THEN torn \cup {job[t].profile} ELSE torn
            /\ Move(t, [job[t] EXCEPT !.at = "discard"])
  BY DEF Unregister
<1>5. CASE p # job[t].profile
  <2>1. row'[p] = row[p] /\ torn \subseteq torn' /\ files'[p] = files[p]
    BY <1>0, <1>3, <1>4, <1>5 DEF RowsOK
  <2>2. ~(job'[t].at \in Halfway /\ job'[t].profile = p) /\ ~Half(p, t)
    BY <1>2, <1>5 DEF Half
  <2>3. QED
    BY <1>2, <1>3, <2>1, <2>2, ElsewhereKept
<1>6. CASE p = job[t].profile
  <2> SUFFICES ASSUME p \notin torn'
               PROVE  KeptAt(p)'
    BY DEF KeptAt
  <2>1. /\ p \notin torn /\ row' = [row EXCEPT ![p] = 0]
        /\ \A g \in grants : g.on # p
        /\ Move(t, [job[t] EXCEPT !.at = "discard"])
    BY <1>4, <1>6
  <2>2. row'[p] = 0
    BY <1>0, <2>1 DEF RowsOK
  <2>3. Half(p, t)
    BY <1>1, <1>6, HalfwayIs DEF Half
  <2>4. Sole(p, t)
    BY <2>1, <2>3, AtWork
  <2>5. GrantsAt(p)' /\ OwnersAt(p)' /\ DevicesAt(p)'
    BY <1>3, <2>1, <2>2, NoRowKept DEF GrantsAt
  <2>6. job'[t].at = "discard" /\ job'[t].profile = p
    <3>1. job'[t] = [job[t] EXCEPT !.at = "discard"]
      BY <1>0, <2>1 DEF JobsOK, Move
    <3>2. job[t] \in Handled
      BY <1>0, <1>1, StageKind DEF JobsOK, ProfileStages, Creating
    <3>3. QED
      BY <1>6, <3>1, <3>2 DEF Handled
  <2>7. Half(p, t)' /\ Midway(p, t)'
    BY <1>3, <2>1, <2>2, <2>6, HalfwayIs DEF Half, Midway, Present
  <2>8. QED
    BY <1>2, <2>4, <2>5, <2>7, GoingOnKept
<1>7. QED
  BY <1>5, <1>6

LEMMA DiscardKept ==
  ASSUME Sound, NEW p \in Profiles, KeptAt(p), NEW t \in Threads, Discard(t) \/ RemoveFiles(t)
  PROVE  KeptAt(p)'
<1>0. JobsOK /\ RowsOK /\ TablesOK
  BY SoundHas
<1>1. /\ job[t].at \in {"discard", "unlink"} /\ Alone(t)
      /\ \/ job[t].at = "discard" /\ job'[t] = Nothing /\ job'[t].at = "idle"
         \/ /\ job[t].at = "unlink" /\ job'[t].at = "revoke"
            /\ job'[t].profile = job[t].profile
  BY <1>0, ProfileMoves, KindStage DEF RowsOK, Moved, Ended, ProfileStages, Deleting
<1>2. Ashore(t) /\ job[t].profile \in Profiles
  BY <1>0, <1>1, InKind DEF Ashore, Offline, Creating, Deleting
<1>3. /\ UNCHANGED <<row, grants, owned, devices, torn>>
      /\ files' = [files EXCEPT ![job[t].profile] = NoFiles]
  BY DEF Discard, RemoveFiles, access, profileNotes
<1>4. CASE p # job[t].profile
  <2>1. files'[p] = files[p]
    BY <1>0, <1>3, <1>4 DEF TablesOK
  <2>2. ~(job'[t].at \in Halfway /\ job'[t].profile = p) /\ ~Half(p, t)
    BY <1>1, <1>4, HalfwayIs DEF Half
  <2>3. QED
    BY <1>2, <1>3, <2>1, <2>2, ElsewhereKept
<1>5. CASE p = job[t].profile
  <2> SUFFICES ASSUME p \notin torn
               PROVE  KeptAt(p)'
    BY <1>3 DEF KeptAt
  <2>1. files'[p] = NoFiles
    BY <1>0, <1>3, <1>5 DEF TablesOK
  <2>2. Half(p, t)
    BY <1>1, <1>5, HalfwayIs DEF Half
  <2>3. Sole(p, t) /\ Midway(p, t)
    BY <2>2, AtWork
  <2>4. ~Present(p) /\ row'[p] = 0
    BY <1>1, <1>3, <2>3 DEF Midway, Present
  <2>5. OwnersAt(p)' /\ DevicesAt(p)'
    BY <2>4, NoRowKept
  <2>6. CASE job[t].at = "discard"
    <3>1. \A g \in grants : g.on # p
      BY <2>3, <2>6 DEF Midway
    <3>2. GrantsAt(p)'
      BY <1>3, <3>1 DEF GrantsAt
    <3>3. ~Half(p, t)'
      BY <1>1, <2>6, HalfwayIs DEF Half
    <3>4. QED
      BY <1>2, <2>1, <2>3, <2>4, <2>5, <3>2, <3>3, DoneWithKept DEF NoFiles
  <2>7. CASE job[t].at = "unlink"
    <3>1. Half(p, t)' /\ Going(p, t)'
      BY <1>1, <1>5, <2>7, HalfwayIs DEF Half, Going
    <3>2. GrantsAt(p)'
      BY <3>1 DEF GrantsAt
    <3>3. Midway(p, t)'
      BY <1>1, <2>1, <2>4, <2>7 DEF Midway, Present
    <3>4. QED
      BY <1>2, <2>3, <2>5, <3>1, <3>2, <3>3, GoingOnKept
  <2>8. QED
    BY <1>1, <2>6, <2>7
<1>6. QED
  BY <1>4, <1>5

LEMMA EraseRowKept ==
  ASSUME Sound, NEW p \in Profiles, KeptAt(p), NEW t \in Threads, EraseRow(t)
  PROVE  KeptAt(p)'
<1>0. JobsOK /\ RowsOK /\ TablesOK
  BY SoundHas
<1>1. job[t].at = "erase" /\ (Moved(t, "unlink") \/ Ended(t))
  BY <1>0, ProfileMoves DEF RowsOK
<1>2. /\ Ashore(t) /\ job[t].at \notin Halfway /\ ~Half(p, t)
      /\ job[t].profile \in Profiles
      /\ job'[t].at \in Halfway => job'[t].profile = job[t].profile
  BY <1>0, <1>1, KindStage, HalfwayIs, InKind
     DEF Ashore, Offline, Moved, Ended, Half, Deleting, ProfileStages
<1>3. UNCHANGED <<grants, files, owned, devices>>
  BY DEF EraseRow, access
<1>4. CASE ~Present(job[t].profile) \/ HasData(job[t].profile)
  <2>1. UNCHANGED <<row, torn>> /\ Done(t)
    BY <1>4 DEF EraseRow
  <2>2. job'[t].at \notin Halfway
    BY <1>0, <2>1, EndsIt, HalfwayIs
  <2>3. SameLasting
    BY <1>3, <2>1 DEF SameLasting
  <2>4. QED
    BY <1>2, <2>2, <2>3, DistantKept
<1>5. CASE ~(~Present(job[t].profile) \/ HasData(job[t].profile))
  <2>1. /\ row' = [row EXCEPT ![job[t].profile] = 0]
        /\ torn' = IF About(job[t].profile, Creating \ {"insert"}) = {} THEN torn
                   ELSE torn \cup {job[t].profile}
        /\ Move(t, [job[t] EXCEPT !.at = "unlink"])
    BY <1>5 DEF EraseRow
  <2>2. job'[t].at = "unlink" /\ job'[t].profile = job[t].profile
    <3>1. job'[t] = [job[t] EXCEPT !.at = "unlink"]
      BY <1>0, <2>1 DEF JobsOK, Move
    <3>2. job[t] \in Handled
      BY <1>0, <1>1, StageKind DEF JobsOK, ProfileStages, Deleting
    <3>3. QED
      BY <3>1, <3>2 DEF Handled
  <2>3. CASE p # job[t].profile
    <3>1. row'[p] = row[p] /\ torn \subseteq torn' /\ files'[p] = files[p]
      BY <1>0, <1>3, <2>1, <2>3 DEF RowsOK
    <3>2. ~(job'[t].at \in Halfway /\ job'[t].profile = p)
      BY <2>2, <2>3
    <3>3. QED
      BY <1>2, <1>3, <3>1, <3>2, ElsewhereKept
  <2>4. CASE p = job[t].profile
    <3> SUFFICES ASSUME p \notin torn'
                 PROVE  KeptAt(p)'
      BY DEF KeptAt
    <3>1. p \notin torn /\ About(p, Creating \ {"insert"}) = {}
      BY <2>1, <2>4
    <3>2. MidwayAt(p)
      BY <3>1 DEF KeptAt
    <3>3. Present(p) /\ row'[p] = 0
      BY <1>0, <1>5, <2>1, <2>4 DEF RowsOK
    <3>4. \A u \in Threads : ~Half(p, u)
      BY <3>1, <3>2, <3>3, HalfwayIs DEF MidwayAt, Midway, Half, About, Creating
    <3>5. Half(p, t)' /\ Going(p, t)' /\ Midway(p, t)'
      BY <2>2, <2>4, <3>3, HalfwayIs DEF Half, Going, Midway, Present
    <3>6. GrantsAt(p)' /\ OwnersAt(p)' /\ DevicesAt(p)'
      BY <3>3, <3>5, NoRowKept DEF GrantsAt
    <3>7. Sole(p, t)
      BY <3>4 DEF Sole
    <3>8. QED
      BY <1>2, <3>5, <3>6, <3>7, GoingOnKept
  <2>5. QED
    BY <2>3, <2>4
<1>6. QED
  BY <1>4, <1>5

LEMMA RevokeAllKept ==
  ASSUME Sound, NEW p \in Profiles, KeptAt(p), NEW t \in Threads, RevokeAll(t)
  PROVE  KeptAt(p)'
<1>0. JobsOK /\ RowsOK /\ TablesOK
  BY SoundHas
<1>1. job[t].at = "revoke" /\ Alone(t) /\ job'[t].at = "idle"
  BY <1>0, ProfileMoves, KindStage DEF RowsOK, Ended
<1>2. Ashore(t) /\ job[t].profile \in Profiles
  BY <1>0, <1>1, InKind DEF Ashore, Offline, Deleting
<1>3. /\ UNCHANGED <<row, files, owned, devices, torn>>
      /\ grants' = {g \in grants : g.on # job[t].profile}
  BY DEF RevokeAll, WithoutGrantsOn, profileVars, profileTables, profileNotes
<1>4. ~Half(p, t)'
  BY <1>1, HalfwayIs DEF Half
<1>5. CASE p # job[t].profile
  <2>1. \A g : g.on = p => (g \in grants' <=> g \in grants)
    BY <1>3, <1>5
  <2>2. ~Half(p, t) /\ ~(job'[t].at \in Halfway /\ job'[t].profile = p)
    BY <1>4, <1>5 DEF Half
  <2>3. QED
    BY <1>2, <1>3, <2>1, <2>2, ElsewhereKept
<1>6. CASE p = job[t].profile
  <2> SUFFICES ASSUME p \notin torn
               PROVE  KeptAt(p)'
    BY <1>3 DEF KeptAt
  <2>1. Half(p, t)
    BY <1>1, <1>6, HalfwayIs DEF Half
  <2>2. Sole(p, t) /\ Midway(p, t)
    BY <2>1, AtWork
  <2>3. row'[p] = 0 /\ files'[p] = NoFiles
    BY <1>1, <1>3, <2>2 DEF Midway, Present
  <2>4. GrantsAt(p)'
    BY <1>3, <1>6 DEF GrantsAt
  <2>5. OwnersAt(p)' /\ DevicesAt(p)'
    BY <2>3, NoRowKept
  <2>6. QED
    BY <1>2, <1>4, <2>2, <2>3, <2>4, <2>5, DoneWithKept DEF NoFiles
<1>7. QED
  BY <1>5, <1>6

\* The owner's grants name the id that was created, in the life it has.
LEMMA GrantOwnerKept ==
  ASSUME Sound, LivesFound, NEW p \in Profiles, KeptAt(p), NEW t \in Threads, GrantOwner(t)
  PROVE  KeptAt(p)'
<1>0. JobsOK /\ RowsOK /\ TablesOK
  BY SoundHas
<1>1. /\ job[t].at = "grant" /\ Alone(t)
      /\ \/ job'[t] = Nothing /\ job'[t].at = "idle" /\ job[t].n = Len(OwnerOps)
         \/ /\ job'[t].at = "grant" /\ job'[t].who = job[t].who
            /\ job'[t].profile = job[t].profile
            /\ job'[t].life = job[t].life /\ job'[t].n = job[t].n + 1
  BY <1>0, ProfileMoves, KindStage DEF RowsOK, Ended
<1>2. Ashore(t) /\ job[t].profile \in Profiles /\ job[t].n \in DOMAIN OwnerOps
  BY <1>0, <1>1, InKind DEF Ashore, Offline, Creating
<1>3. PICK g : g = Grant(job[t].who, OwnerOps[job[t].n], job[t].profile, job[t].life)
  OBVIOUS
<1>4. /\ UNCHANGED <<row, files, devices, torn>>
      /\ grants' = grants \cup {g} /\ g.on = job[t].profile /\ g.life = job[t].life
      /\ \/ owned' = owned
         \/ owned' = owned \cup {<<job[t].who, job[t].life>>}
      /\ job'[t].at = "grant" => owned' = owned
  <2>1. /\ UNCHANGED <<row, files, devices, torn>>
        /\ grants' = grants \cup {g} /\ g.on = job[t].profile /\ g.life = job[t].life
    BY <1>3, GrantHas DEF GrantOwner, profileTables
  <2>2. \/ owned' = owned
        \/ owned' = owned \cup {<<job[t].who, job[t].life>>}
    BY DEF GrantOwner
  <2>3. ASSUME job'[t].at = "grant"
        PROVE  owned' = owned
    <3>1. ~Done(t)
      BY <1>0, <2>3, EndsIt
    <3>2. QED
      BY <3>1 DEF GrantOwner
  <2>4. QED
    BY <2>1, <2>2, <2>3
<1>5. CASE p # job[t].profile
  <2>1. \A h : h.on = p => (h \in grants' <=> h \in grants)
    BY <1>4, <1>5
  <2>2. ~Half(p, t) /\ ~(job'[t].at \in Halfway /\ job'[t].profile = p)
    BY <1>1, <1>5, HalfwayIs DEF Half
  <2>3. \A o \in owned' : Present(p) /\ o[2] = row[p] => o \in owned
    BY <1>1, <1>4, <1>5 DEF LivesFound
  <2>4. QED
    BY <1>2, <1>4, <2>1, <2>2, <2>3, ElsewhereKept
<1>6. CASE p = job[t].profile
  <2> SUFFICES ASSUME p \notin torn
               PROVE  KeptAt(p)'
    BY <1>4 DEF KeptAt
  <2>1. Half(p, t)
    BY <1>1, <1>6, HalfwayIs DEF Half
  <2>2. Sole(p, t) /\ Midway(p, t) /\ OwnersAt(p) /\ DevicesAt(p) /\ GrantsAt(p)
    BY <2>1, AtWork
  <2>3. Present(p) /\ row'[p] = row[p] /\ row'[p] # 0 /\ files'[p] = row'[p]
        /\ job[t].life = row[p]
    BY <1>1, <1>4, <2>2 DEF Midway, Present
  <2>4. GrantsAt(p)'
    <3>1. \A u \in Threads : ~Going(p, u)
      BY <1>1, <2>1, <2>2, HalfwayIs DEF Going, Half, Sole
    <3>2. \A h \in grants : h.on = p => h.life = row[p]
      BY <2>2, <3>1 DEF GrantsAt
    <3>3. \A h \in grants' : h.on = p => h.life = row'[p]
      BY <1>4, <2>3, <3>2
    <3>4. QED
      BY <2>3, <3>3 DEF GrantsAt, Present
  <2>5. \A w, op : Grant(w, op, p, row[p]) \in grants => Grant(w, op, p, row[p])' \in grants'
    BY <1>4, <2>3 DEF Grant
  <2>6. DevicesAt(p)'
    BY <1>4, <2>2, <2>3, <2>5 DEF DevicesAt, DeviceOps
  <2>0. PICK w : w = job[t].who
    OBVIOUS
  <2>7. \A n \in DOMAIN OwnerOps : n <= job[t].n =>
          Grant(w, OwnerOps[n], p, row[p])' \in grants'
    <3>1. ASSUME NEW n \in DOMAIN OwnerOps, n < job[t].n
          PROVE  Grant(w, OwnerOps[n], p, row[p])' \in grants'
      <4>1. Grant(w, OwnerOps[n], p, row[p]) \in grants
        BY <1>1, <2>0, <2>2, <3>1 DEF Midway
      <4>2. QED
        BY <2>5, <4>1
    <3>2. Grant(w, OwnerOps[job[t].n], p, row[p]) = g
      BY <1>3, <1>6, <2>0, <2>3
    <3>3. \A n \in DOMAIN OwnerOps : n = job[t].n =>
            Grant(w, OwnerOps[n], p, row[p])' \in grants'
      BY <1>4, <2>3, <3>2 DEF Grant
    <3>4. \A n \in DOMAIN OwnerOps : n <= job[t].n => n < job[t].n \/ n = job[t].n
      BY <1>2
    <3>5. QED
      BY <3>1, <3>3, <3>4
  <2>8. CASE job'[t].at = "grant"
    <3>1. owned' = owned
      BY <1>4, <2>8
    <3>2. OwnersAt(p)'
      BY <2>2, <2>3, <2>5, <3>1 DEF OwnersAt
    <3>3. Half(p, t)' /\ Midway(p, t)'
      <4>1. job'[t].profile = p /\ job'[t].who = job[t].who /\ job'[t].life = row'[p]
            /\ job'[t].n = job[t].n + 1
        BY <1>1, <1>6, <2>3, <2>8
      <4>2. \A n \in DOMAIN OwnerOps : n < job'[t].n => n <= job[t].n
        BY <1>2, <4>1
      <4>3. QED
        BY <2>0, <2>3, <2>7, <2>8, <4>1, <4>2, HalfwayIs DEF Half, Midway, Present
    <3>4. QED
      BY <1>2, <2>2, <2>4, <2>6, <3>2, <3>3, GoingOnKept
  <2>9. CASE job'[t].at = "idle" /\ job[t].n = Len(OwnerOps)
    <3>1. \A n \in DOMAIN OwnerOps : n <= job[t].n
      BY <2>9
    <3>2. \A o \in owned' : o[2] = row'[p] => o \in owned \/ o[1] = w
      BY <1>4, <2>0
    <3>3. OwnersAt(p)'
      BY <2>2, <2>3, <2>5, <2>7, <3>1, <3>2 DEF OwnersAt
    <3>4. ~Half(p, t)'
      BY <2>9, HalfwayIs DEF Half
    <3>5. QED
      BY <1>2, <2>2, <2>3, <2>4, <2>6, <3>3, <3>4, DoneWithKept
  <2>10. QED
    BY <1>1, <2>8, <2>9
<1>7. QED
  BY <1>5, <1>6

\* A device gets grants for the lives that were looked up.
LEMMA IssueDeviceKept ==
  ASSUME Sound, LivesFound, NEW p \in Profiles, KeptAt(p), NEW t \in Threads, IssueDevice(t)
  PROVE  KeptAt(p)'
<1> SUFFICES ASSUME p \notin torn'
             PROVE  KeptAt(p)'
  BY DEF KeptAt
<1>0. JobsOK /\ RowsOK /\ TablesOK
  BY SoundHas
<1>1. job[t].at = "issue" /\ Alone(t) /\ job'[t].at = "idle"
  BY <1>0, DeviceMoves, KindStage DEF RowsOK, Ended
<1>2. PICK of : of = job[t].lives
  OBVIOUS
<1>3. PICK w \in Principals \ principals :
        /\ grants' = grants \cup {Grant(w, op, q, of[q]) : op \in DeviceOps, q \in DOMAIN of}
        /\ devices' = devices \cup {<<w, of[q]>> : q \in DOMAIN of}
  BY <1>2 DEF IssueDevice
<1>4. /\ UNCHANGED <<row, files, owned>>
      /\ torn' = torn \cup {q \in DOMAIN of : row[q] # of[q] /\ About(q, {"unlink", "revoke"}) = {}}
  BY <1>2 DEF IssueDevice
<1>5. \A q \in DOMAIN of : of[q] # 0 /\ \A r \in Profiles : row[r] = of[q] => r = q
  BY <1>1, <1>2 DEF LivesFound
<1>6. p \notin torn /\ MidwayAt(p) /\ GrantsAt(p) /\ OwnersAt(p) /\ DevicesAt(p) /\ FilesAt(p)
  BY <1>4 DEF KeptAt
<1>7. ASSUME NEW g \in grants', g \notin grants, g.on = p
      PROVE  p \in DOMAIN of /\ g.life = of[p]
  <2>1. PICK op \in DeviceOps, q \in DOMAIN of : g = Grant(w, op, q, of[q])
    BY <1>3, <1>7
  <2>2. q = p
    BY <1>7, <2>1, GrantHas
  <2>3. QED
    BY <2>1, <2>2, GrantHas
<1>8. p \in DOMAIN of => row[p] = of[p] \/ \E u \in Threads : Going(p, u)
  BY <1>4 DEF About, Going
<1>9. \A u \in Threads : /\ Half(p, u)' <=> Half(p, u)
                         /\ Going(p, u)' <=> Going(p, u)
                         /\ Half(p, u) => job'[u] = job[u]
  BY <1>1, HalfwayIs DEF Half, Going, Alone
<1>10. \A v, op : Grant(v, op, p, row[p]) \in grants => Grant(v, op, p, row[p])' \in grants'
  BY <1>3, <1>4 DEF Grant
<1>11. MidwayAt(p)'
  <2>1. ASSUME NEW u \in Threads, Half(p, u)
        PROVE  Midway(p, u)'
    <3>1. Midway(p, u) /\ \A v \in Threads : Half(p, v) => v = u
      BY <1>6, <2>1 DEF MidwayAt
    <3>2. job[u].at = "discard" => \A g \in grants' : g.on # p
      <4>1. SUFFICES ASSUME job[u].at = "discard", p \in DOMAIN of
                     PROVE  FALSE
        BY <1>7, <3>1 DEF Midway
      <4>2. row[p] # of[p]
        BY <1>5, <3>1, <4>1 DEF Midway, Present
      <4>3. \A v \in Threads : ~Going(p, v)
        BY <3>1, <4>1, HalfwayIs DEF Going, Half
      <4>4. QED
        BY <1>8, <4>1, <4>2, <4>3
    <3>3. QED
      BY <1>4, <1>9, <1>10, <2>1, <3>1, <3>2 DEF Midway, Present
  <2>2. QED
    BY <1>6, <1>9, <2>1 DEF MidwayAt
<1>12. GrantsAt(p)'
  <2>1. SUFFICES ASSUME \A u \in Threads : ~Going(p, u), NEW g \in grants', g.on = p
                 PROVE  Present(p)' /\ g.life = row'[p]
    BY <1>9 DEF GrantsAt
  <2>2. CASE g \in grants
    BY <1>4, <1>6, <2>1, <2>2 DEF GrantsAt, Present
  <2>3. CASE g \notin grants
    BY <1>4, <1>5, <1>7, <1>8, <2>1, <2>3 DEF Present
  <2>4. QED
    BY <2>2, <2>3
<1>13. OwnersAt(p)'
  BY <1>4, <1>6, <1>10 DEF OwnersAt, Present
<1>14. DevicesAt(p)'
  <2>1. SUFFICES ASSUME Present(p), NEW d \in devices', d[2] = row[p], NEW op \in DeviceOps
                 PROVE  Grant(d[1], op, p, row[p])' \in grants'
    BY <1>4 DEF DevicesAt, Present
  <2>2. CASE d \in devices
    BY <1>6, <1>10, <2>1, <2>2 DEF DevicesAt
  <2>3. CASE d \notin devices
    <3>1. PICK q \in DOMAIN of : d = <<w, of[q]>>
      BY <1>3, <2>1, <2>3
    <3>2. q = p /\ of[q] = row[p] /\ d[1] = w
      BY <1>5, <2>1, <3>1
    <3>3. Grant(w, op, p, of[p]) \in grants'
      BY <1>3, <2>1, <3>1, <3>2
    <3>4. QED
      BY <1>4, <3>2, <3>3 DEF Grant
  <2>4. QED
    BY <2>2, <2>3
<1>15. FilesAt(p)'
  <2>1. Ashore(t)
    BY <1>1 DEF Ashore, Offline
  <2>2. \A u \in Threads : ~Migrating(u) /\ ~Migrating(u)'
    BY <2>1, NothingMoves DEF Migrating
  <2>3. QED
    BY <1>4, <1>6, <1>9, <2>2 DEF FilesAt, Present, Touches
<1>16. QED
  BY <1>11, <1>12, <1>13, <1>14, <1>15 DEF KeptAt

-----------------------------------------------------------------------------
(* Migrations *)

LEMMA MoveFilesKept ==
  ASSUME Sound, NEW p \in Profiles, KeptAt(p), NEW t \in Threads,
         NEW old \in Profiles, NEW new \in Profiles,
         MigrateFiles(t, old, new) \/ ScriptFiles(t, old, new)
  PROVE  KeptAt(p)'
<1> SUFFICES ASSUME p \notin torn'
             PROVE  KeptAt(p)'
  BY DEF KeptAt
<1>0. JobsOK /\ RowsOK /\ TablesOK
  BY SoundHas
<1>1. /\ \A u \in Threads : job[u].at = "idle"
      /\ \A u \in Threads : u # t => job'[u].at = "idle"
      /\ job'[t].at \in Offline /\ job'[t].old = old /\ job'[t].new = new
      /\ old # new /\ Present(old) /\ ~Present(new)
  <2>1. Offloaded(t, "rewrite", old, new) \/ Offloaded(t, "rewrite by script", old, new)
    BY <1>0, MigrationMoves
  <2>2. \A u \in Threads : job[u] = Nothing /\ (u # t => job'[u] = job[u])
    BY <2>1 DEF Offloaded, Idle, Begun, Alone
  <2>3. \A u \in Threads : job[u].at = "idle" /\ (u # t => job'[u].at = "idle")
    BY <2>2, KindStage
  <2>4. QED
    BY <2>1, <2>3 DEF Offloaded, Offline
<1>2. /\ UNCHANGED <<row, grants, owned, devices, torn>>
      /\ files' = [files EXCEPT ![new] = files[old], ![old] = NoFiles]
  BY DEF MigrateFiles, ScriptFiles, MoveFiles, access, profileNotes
<1>3. \A q \in Profiles : files'[q] = IF q = old THEN NoFiles ELSE IF q = new THEN files[old]
                                      ELSE files[q]
  BY <1>0, <1>1, <1>2 DEF TablesOK
<1>4. p \notin torn /\ MidwayAt(p) /\ GrantsAt(p) /\ OwnersAt(p) /\ DevicesAt(p) /\ FilesAt(p)
  BY <1>2 DEF KeptAt
<1>5. \A u \in Threads : /\ ~Half(p, u) /\ ~Going(p, u) /\ ~Touches(p, u)
                         /\ ~Half(p, u)' /\ ~Going(p, u)'
                         /\ u # t => ~Migrating(u)'
  BY <1>1, HalfwayIs DEF Half, Going, Touches, Migrating, Offline
<1>6. MidwayAt(p)'
  BY <1>5 DEF MidwayAt
<1>7. GrantsAt(p)' /\ OwnersAt(p)' /\ DevicesAt(p)'
  BY <1>2, <1>4, <1>5 DEF GrantsAt, OwnersAt, DevicesAt, Present, Grant
<1>8. FilesAt(p)'
  <2>1. files[p] = row[p]
    BY <1>4, <1>5 DEF FilesAt
  <2>2. p \notin {old, new} => files'[p] = row'[p]
    BY <1>2, <1>3, <2>1 DEF Present
  <2>3. p \in {old, new} => Touches(p, t)'
    BY <1>1 DEF Touches, Migrating
  <2>4. \A u \in Threads : Migrating(u)' /\ job'[u].old = p => u = t /\ p = old
    BY <1>1, <1>5
  <2>5. p = old => files'[p] = NoFiles /\ files'[job'[t].new] = row'[p]
    BY <1>1, <1>2, <1>3, <2>1
  <2>6. QED
    BY <2>2, <2>3, <2>4, <2>5 DEF FilesAt
<1>9. QED
  BY <1>6, <1>7, <1>8 DEF KeptAt

LEMMA MigrateBackKept ==
  ASSUME Sound, NEW p \in Profiles, KeptAt(p), NEW t \in Threads, MigrateBack(t)
  PROVE  KeptAt(p)'
<1> SUFFICES ASSUME p \notin torn'
             PROVE  KeptAt(p)'
  BY DEF KeptAt
<1>0. JobsOK /\ RowsOK /\ TablesOK /\ MovesAlone
  BY SoundHas
<1>1. Migrating(t) /\ Ended(t)
  BY <1>0, MigrationMoves
<1>2. PICK old \in Profiles : old = job[t].old
  BY <1>0, <1>1, JobsInKind
<1>3. PICK new \in Profiles : new = job[t].new
  BY <1>0, <1>1, JobsInKind
<1>4. /\ old # new /\ Present(old) /\ ~Present(new)
      /\ \A u \in Threads : u # t => job[u].at = "idle"
      /\ \A u \in Threads : job'[u].at = "idle"
  BY <1>0, <1>1, <1>2, <1>3, KindStage DEF MovesAlone, Idle, Ended, Alone
<1>5. /\ UNCHANGED <<row, grants, owned, devices, torn>>
      /\ files' = [files EXCEPT ![old] = files[new], ![new] = NoFiles]
  BY <1>2, <1>3 DEF MigrateBack, access, profileNotes
<1>6. \A q \in Profiles : files'[q] = IF q = new THEN NoFiles ELSE IF q = old THEN files[new]
                                      ELSE files[q]
  BY <1>0, <1>4, <1>5 DEF TablesOK
<1>7. p \notin torn /\ GrantsAt(p) /\ OwnersAt(p) /\ DevicesAt(p) /\ FilesAt(p)
  BY <1>5 DEF KeptAt
<1>8. \A u \in Threads : /\ ~Half(p, u) /\ ~Going(p, u)
                         /\ ~Half(p, u)' /\ ~Going(p, u)' /\ ~Migrating(u)'
                         /\ Touches(p, u) => p \in {old, new}
  BY <1>1, <1>2, <1>3, <1>4, HalfwayIs DEF Half, Going, Touches, Migrating, Offline
<1>9. MidwayAt(p)'
  BY <1>8 DEF MidwayAt
<1>10. GrantsAt(p)' /\ OwnersAt(p)' /\ DevicesAt(p)'
  BY <1>5, <1>7, <1>8 DEF GrantsAt, OwnersAt, DevicesAt, Present, Grant
<1>11. FilesAt(p)'
  <2>1. p \notin {old, new} => files[p] = row[p]
    BY <1>7, <1>8 DEF FilesAt
  <2>2. p = old => files[new] = row[old]
    BY <1>1, <1>2, <1>3, <1>7, <1>8 DEF FilesAt
  <2>3. files'[p] = row'[p]
    BY <1>4, <1>5, <1>6, <2>1, <2>2 DEF Present, NoFiles
  <2>4. QED
    BY <1>8, <2>3 DEF FilesAt
<1>12. QED
  BY <1>9, <1>10, <1>11 DEF KeptAt

\* The new id takes over files, row and grants of the old one.
LEMMA CommitKept ==
  ASSUME Sound, \A q \in Profiles : KeptAt(q), NEW p \in Profiles, NEW t \in Threads,
         MigrateCommit(t) \/ ScriptCommit(t)
  PROVE  KeptAt(p)'
<1> SUFFICES ASSUME p \notin torn'
             PROVE  KeptAt(p)'
  BY DEF KeptAt
<1>0. JobsOK /\ RowsOK /\ TablesOK /\ MovesAlone
  BY SoundHas
<1>1. Rewritten(t) /\ Migrating(t) /\ Ended(t)
  BY <1>0, MigrationMoves DEF MigrateCommit, ScriptCommit, Migrating, Offline
<1>2. PICK old \in Profiles : old = job[t].old
  BY <1>0, <1>1, JobsInKind
<1>3. PICK new \in Profiles : new = job[t].new
  BY <1>0, <1>1, JobsInKind
<1>4. /\ old # new /\ Present(old) /\ ~Present(new)
      /\ \A u \in Threads : u # t => job[u].at = "idle"
      /\ \A u \in Threads : job'[u].at = "idle"
  BY <1>0, <1>1, <1>2, <1>3, KindStage DEF MovesAlone, Idle, Ended, Alone
<1>5. /\ UNCHANGED <<files, owned, devices>>
      /\ row' = [row EXCEPT ![new] = row[old], ![old] = 0]
      /\ torn' = IF old \in torn THEN torn \cup {new} ELSE torn
      /\ grants' = {[g EXCEPT !.on = Renamed(g.on, old, new)] : g \in grants}
  BY <1>1, <1>2, <1>3 DEF Rewritten
<1>6. \A q \in Profiles : row'[q] = IF q = old THEN 0 ELSE IF q = new THEN row[old] ELSE row[q]
  BY <1>0, <1>4, <1>5 DEF RowsOK
<1>7. p \notin torn /\ (p = new => old \notin torn)
  BY <1>5
<1>8. \A q \in {p, old} : q \notin torn => GrantsAt(q) /\ OwnersAt(q) /\ DevicesAt(q) /\ FilesAt(q)
  BY DEF KeptAt
<1>9. \A q \in Profiles, u \in Threads : /\ ~Half(q, u) /\ ~Going(q, u)
                                         /\ ~Half(q, u)' /\ ~Going(q, u)' /\ ~Migrating(u)'
                                         /\ Touches(q, u) => u = t /\ q \in {old, new}
  BY <1>1, <1>2, <1>3, <1>4, HalfwayIs DEF Half, Going, Touches, Migrating, Offline
<1>10. MidwayAt(p)'
  BY <1>9 DEF MidwayAt
\* What becomes of a grant.
<1>11. ASSUME NEW h \in grants'
       PROVE  \E g \in grants : /\ h.on = Renamed(g.on, old, new) /\ h.life = g.life
                                /\ g.on # old => h = g
  <2>1. PICK g \in grants : h = [g EXCEPT !.on = Renamed(g.on, old, new)]
    BY <1>5, <1>11
  <2>2. PICK to : to = Renamed(g.on, old, new)
    OBVIOUS
  <2>3. g \in GrantRows
    BY <1>0 DEF TablesOK
  <2>4. h = [g EXCEPT !.on = to] /\ h.on = to /\ h.life = g.life
    BY <2>1, <2>2, <2>3 DEF GrantRows
  <2>5. to = g.on => h = g
    BY <2>3, <2>4 DEF GrantRows
  <2>6. QED
    BY <2>2, <2>4, <2>5 DEF Renamed
<1>12. ASSUME NEW w, NEW op, NEW l, NEW q \in Profiles, q # old, Grant(w, op, q, l) \in grants
       PROVE  Grant(w, op, q, l) \in grants'
  <2>1. PICK g \in grants : g = Grant(w, op, q, l)
    BY <1>12
  <2>2. [g EXCEPT !.on = q] = g /\ g.on = q
    BY <2>1, GrantRenamed, GrantHas
  <2>3. Renamed(g.on, old, new) = q
    BY <1>12, <2>2 DEF Renamed
  <2>4. QED
    BY <1>5, <2>1, <2>2, <2>3
<1>13. ASSUME NEW w, NEW op, NEW l, Grant(w, op, old, l) \in grants
       PROVE  Grant(w, op, new, l) \in grants'
  <2>1. PICK g \in grants : g = Grant(w, op, old, l)
    BY <1>13
  <2>2. [g EXCEPT !.on = new] = Grant(w, op, new, l) /\ g.on = old
    BY <2>1, GrantRenamed, GrantHas
  <2>3. Renamed(g.on, old, new) = new
    BY <2>2 DEF Renamed
  <2>4. QED
    BY <1>5, <2>1, <2>2, <2>3
\* The grants on p.
<1>14. GrantsAt(p)'
  <2>1. SUFFICES ASSUME NEW h \in grants', h.on = p
                 PROVE  row'[p] # 0 /\ h.life = row'[p]
    BY DEF GrantsAt, Present
  <2>2. PICK g \in grants : /\ h.on = Renamed(g.on, old, new) /\ h.life = g.life
                            /\ g.on # old => h = g
    BY <1>11, <2>1
  <2>3. CASE g.on = old
    <3>1. p = new /\ old \notin torn
      BY <1>7, <2>1, <2>2, <2>3 DEF Renamed
    <3>2. g.life = row[old]
      BY <1>8, <1>9, <2>3, <3>1 DEF GrantsAt
    <3>3. QED
      BY <1>4, <1>6, <2>2, <3>1, <3>2 DEF Present
  <2>4. CASE g.on # old
    <3>1. g = h /\ p # old
      BY <1>4, <2>1, <2>2, <2>4 DEF Renamed
    <3>2. Present(p) /\ h.life = row[p]
      BY <1>7, <1>8, <1>9, <2>1, <3>1 DEF GrantsAt
    <3>3. QED
      BY <1>4, <1>6, <3>1, <3>2 DEF Present
  <2>5. QED
    BY <2>3, <2>4
<1>15. OwnersAt(p)' /\ DevicesAt(p)'
  <2>1. CASE p = old
    BY <1>6, <2>1, NoRowKept
  <2>2. CASE p = new
    <3>1. row'[p] = row[old] /\ Present(old) /\ OwnersAt(old) /\ DevicesAt(old)
      BY <1>4, <1>6, <1>7, <1>8, <2>2
    <3>2. \A w, op : Grant(w, op, old, row[old]) \in grants => Grant(w, op, p, row[p])' \in grants'
      BY <1>13, <2>2, <3>1 DEF Grant
    <3>3. QED
      BY <1>5, <3>1, <3>2 DEF OwnersAt, DevicesAt, DeviceOps
  <2>3. CASE p # old /\ p # new
    <3>1. row'[p] = row[p] /\ OwnersAt(p) /\ DevicesAt(p)
      BY <1>6, <1>7, <1>8, <2>3
    <3>2. \A w, op : Grant(w, op, p, row[p]) \in grants => Grant(w, op, p, row[p])' \in grants'
      BY <1>12, <2>3, <3>1 DEF Grant
    <3>3. QED
      BY <1>5, <3>1, <3>2 DEF OwnersAt, DevicesAt, DeviceOps, Present
  <2>4. QED
    BY <2>1, <2>2, <2>3
<1>16. FilesAt(p)'
  <2>1. old \notin torn => files[old] = NoFiles /\ files[new] = row[old]
    BY <1>1, <1>2, <1>3, <1>8, <1>9 DEF FilesAt
  <2>2. p \notin {old, new} => files[p] = row[p]
    BY <1>7, <1>8, <1>9 DEF FilesAt
  <2>3. files'[p] = row'[p]
    BY <1>4, <1>5, <1>6, <1>7, <2>1, <2>2 DEF Present, NoFiles
  <2>4. QED
    BY <1>9, <2>3 DEF FilesAt, Touches
<1>17. QED
  BY <1>10, <1>14, <1>15, <1>16 DEF KeptAt

LEMMA ProfileWorkKept ==
  ASSUME Sound, LastsInv, NEW p \in Profiles, NEW t \in Threads, ProfileWork(t)
  PROVE  KeptAt(p)'
<1>0. JobsOK /\ RowsOK /\ LivesFound /\ KeptAt(p) /\ \A q \in Profiles : KeptAt(q)
  BY SoundHas DEF LastsInv
<1>1. ASSUME Begun(t), job'[t].at \in {"insert", "wipe", "issue"}, SameLasting
      PROVE  KeptAt(p)'
  <2>1. Ashore(t) /\ job[t].at \notin Halfway /\ job'[t].at \notin Halfway
    BY <1>1, HalfwayIs DEF Ashore, Begun, Offline
  <2>2. QED
    BY <1>0, <1>1, <2>1, DistantKept
<1>2. ASSUME NEW q \in Profiles, \/ \E pr \in Principals : AskCreate(t, pr, q)
                                 \/ AskCreateTotp(t, q) \/ AskDelete(t, q)
      PROVE  KeptAt(p)'
  <2>1. Begun(t) /\ job'[t].at \in {"insert", "wipe"}
    BY <1>0, <1>2, ProfileMoves DEF RowsOK
  <2>2. SameLasting
    BY <1>2 DEF AskCreate, AskCreateTotp, AskDelete, SameLasting, access, profileVars,
                profileTables, profileNotes
  <2>3. QED
    BY <1>1, <2>1, <2>2
<1>3. ASSUME NEW ps \in SUBSET Profiles, AskDevice(t, ps)
      PROVE  KeptAt(p)'
  <2>1. Begun(t) /\ job'[t].at = "issue"
    BY <1>0, <1>3, DeviceMoves DEF RowsOK
  <2>2. SameLasting
    BY <1>3 DEF AskDevice, SameLasting, access, profileVars, profileTables, profileNotes
  <2>3. QED
    BY <1>1, <2>1, <2>2
<1>4. ASSUME WipeData(t)
      PROVE  KeptAt(p)'
  <2>1. job[t].at = "wipe" /\ job'[t].at = "erase" /\ Alone(t)
    BY <1>0, <1>4, ProfileMoves DEF RowsOK, Moved
  <2>2. Ashore(t) /\ job[t].at \notin Halfway /\ job'[t].at \notin Halfway
    BY <2>1, HalfwayIs DEF Ashore, Offline
  <2>3. SameLasting
    BY <1>4 DEF WipeData, SameLasting, access, profileNotes
  <2>4. QED
    BY <1>0, <2>2, <2>3, DistantKept
<1>5. ASSUME \/ InsertProfile(t) \/ MakeFiles(t) \/ WriteFiles(t) \/ FilesFail(t)
             \/ Unregister(t) \/ Discard(t) \/ GrantOwner(t) \/ EraseRow(t) \/ RemoveFiles(t)
             \/ RevokeAll(t) \/ IssueDevice(t)
      PROVE  KeptAt(p)'
  BY <1>0, <1>5, InsertKept, MakeFilesKept, UnregisterKept, DiscardKept, GrantOwnerKept,
     EraseRowKept, RevokeAllKept, IssueDeviceKept
<1>6. ASSUME \/ \E old, new \in Profiles : MigrateFiles(t, old, new) \/ ScriptFiles(t, old, new)
             \/ MigrateCommit(t) \/ ScriptCommit(t) \/ MigrateBack(t)
      PROVE  KeptAt(p)'
  BY <1>0, <1>6, MoveFilesKept, CommitKept, MigrateBackKept
<1>7. QED
  BY <1>2, <1>3, <1>4, <1>5, <1>6 DEF ProfileWork

LEMMA EnrollmentSame ==
  ASSUME Sound, EnrollmentStep, UNCHANGED profileVars
  PROVE  SameLasting
<1>1. UNCHANGED <<row, files, owned, torn, devices>>
  BY DEF profileVars, profileTables, profileNotes
<1>2. \A p \in Profiles : \A g : g.on = p => (g \in grants' <=> g \in grants)
  <2>1. ASSUME NEW t \in Threads, GrantCreate(t)
        PROVE  \A p \in Profiles : \A g : g.on = p => (g \in grants' <=> g \in grants)
    <3>1. PICK h : h = Grant(job[t].who, "create_profile", Anywhere, 0)
      OBVIOUS
    <3>2. grants' = grants \cup {h} /\ h.on = Anywhere
      BY <2>1, <3>1, GrantHas DEF GrantCreate
    <3>3. QED
      BY <3>2
  <2>2. (\E t \in Threads : GrantCreate(t)) \/ grants' = grants
    BY DEF EnrollmentStep, AskEnroll, CreatePrincipal, CheckKey, AddKey, ConsumeInvite,
           InviteExpires, access
  <2>3. QED
    BY <2>1, <2>2
<1>3. QED
  BY <1>1, <1>2 DEF SameLasting

LEMMA LastsKept ==
  ASSUME Sound, LastsInv, Next
  PROVE  LastsInv'
<1>0. JobsOK /\ RowsOK /\ ProjectsOK /\ LivesFound /\ \A p \in Profiles : KeptAt(p)
  BY SoundHas DEF LastsInv
<1>1. LivesFound'
  BY <1>0, LivesFoundKept
<1>2. ASSUME NEW p \in Profiles
      PROVE  KeptAt(p)'
  <2>1. ASSUME NEW t \in Threads, EnrollWork(t) \/ ProjectWork(t), SameLasting
        PROVE  KeptAt(p)'
    BY <1>0, <2>1, EnrollComes, ProjectComes, DistantIs, DistantKept
  <2>2. ASSUME SameLasting, job' = job
        PROVE  KeptAt(p)'
    BY <1>0, <2>2, StillKept
  <2>3. CASE EnrollmentStep /\ UNCHANGED profileVars
    <3>1. SameLasting
      BY <2>3, EnrollmentSame
    <3>2. (\E t \in Threads : EnrollWork(t)) \/ job' = job
      BY <2>3, EnrollmentStepIs DEF InviteExpires
    <3>3. QED
      BY <2>1, <2>2, <3>1, <3>2
  <2>4. CASE ProjectStep
    <3>1. UNCHANGED <<access, told, profileVars>>
      BY <1>0, <2>4, ProjectWell, SoundHas DEF ProjectsOK
    <3>2. SameLasting
      BY <3>1 DEF SameLasting, access, profileVars, profileTables, profileNotes
    <3>3. (\E t \in Threads : ProjectWork(t)) \/ job' = job
      BY <2>4, ProjectStepIs DEF ProjectNotes, AskToJoin, Silence
    <3>4. QED
      BY <2>1, <2>2, <3>2, <3>3
  <2>5. CASE ProfileStep
    <3>1. ASSUME \/ \E pr \in Principals, q \in Profiles : AddData(pr, q)
                 \/ \E pr \in Principals : RevokeDevice(pr)
          PROVE  KeptAt(p)'
      <4>1. SameLasting /\ job' = job
        BY <3>1 DEF AddData, RevokeDevice, SameLasting, access, profileNotes
      <4>2. QED
        BY <2>2, <4>1
    <3>2. QED
      BY <1>0, <2>5, <3>1, ProfileStepIs, ProfileWorkKept, InterruptKept
  <2>6. QED
    BY <2>3, <2>4, <2>5 DEF Next, ProfilesMove
<1>3. QED
  BY <1>1, <1>2 DEF LastsInv

LEMMA LastsInit == Init => LastsInv
<1> SUFFICES ASSUME Init
             PROVE  LastsInv
  OBVIOUS
<1>1. InitAccess /\ InitProfiles /\ OneIdEach /\ RowsOK
  BY InitSound, SoundHas DEF Init
<1>2. \A t \in Threads : job[t].at = "idle"
  BY <1>1, KindStage DEF InitAccess
<1>3. LivesFound
  BY <1>2 DEF LivesFound
<1>4. ASSUME NEW p \in Profiles
      PROVE  KeptAt(p)
  <2>1. \A t \in Threads : ~Half(p, t) /\ ~Going(p, t) /\ ~Migrating(t)
    BY <1>2, HalfwayIs DEF Half, Going, Migrating, Offline
  <2>2. FilesAt(p) /\ MidwayAt(p)
    BY <1>1, <2>1 DEF FilesAt, MidwayAt, InitProfiles, Present
  <2>3. GrantsAt(p)
    <3>1. SUFFICES ASSUME NEW g \in grants, g.on = p
                   PROVE  Present(p) /\ g.life = row[p]
      BY DEF GrantsAt
    <3>2. g \notin {Grant(pr, "create_profile", Anywhere, 0) : pr \in Founders}
      <4>1. \A pr : Grant(pr, "create_profile", Anywhere, 0).on = Anywhere
        BY GrantHas
      <4>2. QED
        BY <3>1, <4>1
    <3>3. PICK q \in {r \in DOMAIN Standing : Present(r)}, n \in DOMAIN OwnerOps :
            g = Grant(Standing[q], OwnerOps[n], q, row[q])
      BY <1>1, <3>1, <3>2 DEF InitProfiles
    <3>4. g.on = q /\ g.life = row[q]
      BY <3>3, GrantHas
    <3>5. QED
      BY <3>1, <3>3, <3>4
  <2>4. OwnersAt(p)
    <3>1. SUFFICES ASSUME Present(p), NEW o \in owned, o[2] = row[p], NEW n \in DOMAIN OwnerOps
                   PROVE  Grant(o[1], OwnerOps[n], p, row[p]) \in grants
      BY DEF OwnersAt
    <3>2. PICK q \in {r \in DOMAIN Standing : Present(r)} : o = <<Standing[q], row[q]>>
      BY <1>1, <3>1 DEF InitProfiles
    <3>3. q = p
      BY <1>1, <3>1, <3>2 DEF OneIdEach
    <3>4. QED
      BY <1>1, <3>1, <3>2, <3>3 DEF InitProfiles
  <2>5. DevicesAt(p)
    BY <1>1 DEF DevicesAt, InitProfiles
  <2>6. QED
    BY <2>2, <2>3, <2>4, <2>5 DEF KeptAt
<1>5. QED
  BY <1>3, <1>4 DEF LastsInv

LEMMA LastsStutter == LastsInv /\ UNCHANGED vars => LastsInv'
<1> SUFFICES ASSUME LastsInv, UNCHANGED vars
             PROVE  LastsInv'
  OBVIOUS
<1>1. UNCHANGED <<job, row, files, grants, owned, devices, torn>>
  BY DEF vars, access, profileVars, profileTables, profileNotes
<1>2. LivesFound'
  BY <1>1 DEF LastsInv, LivesFound, Present
<1>3. ASSUME NEW p \in Profiles
      PROVE  KeptAt(p)'
  BY <1>1 DEF LastsInv, KeptAt, MidwayAt, Midway, Half, GrantsAt, Going, OwnersAt, DevicesAt,
     FilesAt, Touches, Migrating, Present, Grant
<1>4. QED
  BY <1>2, <1>3 DEF LastsInv

LEMMA LastsHeld == Sound /\ LastsInv => NothingOutlivesProfile
<1> SUFFICES ASSUME Sound, LastsInv, NEW p \in Profiles, Settled(p)
             PROVE  /\ files[p] = row[p]
                    /\ \A g \in grants : g.on = p => Present(p) /\ g.life = row[p]
                    /\ \A d \in data : d[1] = p => Present(p) /\ d[2] = row[p]
                    /\ \A o \in owned : Present(p) /\ o[2] = row[p] =>
                         \A n \in DOMAIN OwnerOps : Grant(o[1], OwnerOps[n], p, row[p]) \in grants
                    /\ \A d \in devices, op \in DeviceOps : Present(p) /\ d[2] = row[p] =>
                         Grant(d[1], op, p, row[p]) \in grants
  BY DEF NothingOutlivesProfile
<1>1. p \notin torn /\ KeptAt(p)
  BY DEF Settled, LastsInv
<1>2. \A t \in Threads : ~Half(p, t) /\ ~Going(p, t) /\ ~Touches(p, t)
  BY DEF Settled, About, Half, Going, Touches, Halfway, Deleting
<1>3. files[p] = row[p]
  BY <1>1, <1>2 DEF KeptAt, FilesAt
<1>4. \A g \in grants : g.on = p => Present(p) /\ g.life = row[p]
  BY <1>1, <1>2 DEF KeptAt, GrantsAt
<1>5. \A d \in data : d[1] = p => Present(p) /\ d[2] = row[p]
  BY SoundHas DEF DataRows, PresentIds
<1>6. /\ \A o \in owned : Present(p) /\ o[2] = row[p] =>
           \A n \in DOMAIN OwnerOps : Grant(o[1], OwnerOps[n], p, row[p]) \in grants
      /\ \A d \in devices, op \in DeviceOps : Present(p) /\ d[2] = row[p] =>
           Grant(d[1], op, p, row[p]) \in grants
  BY <1>1 DEF KeptAt, OwnersAt, DevicesAt
<1>7. QED
  BY <1>3, <1>4, <1>5, <1>6

\* Between requests, and unless one was interrupted or overtaken by another on
\* the same id, a registered profile has the files written for it and its owner's
\* and its devices' grants, and no prompt file, row of a dynamic store or grant of
\* an earlier profile lies under its id: for any number of creations, deletions,
\* devices and migrations.
THEOREM NothingOutlivesProfileHolds == Spec => []NothingOutlivesProfile
<1>1. Sound /\ LastsInv /\ [Next]_vars => Sound' /\ LastsInv'
  BY NextSound, StutterSound, LastsKept, LastsStutter
<1>2. QED
  BY InitSound, LastsInit, <1>1, LastsHeld, PTL DEF Spec

==============================================================================
