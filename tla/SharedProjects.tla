---------------------------- MODULE SharedProjects ----------------------------
(***************************************************************************)
(* Projects that companions share (profile_os/projects.py), the approvals  *)
(* that create them and admit members (profile_os/api.py), and what the    *)
(* deletion of a profile does to them through foreign keys.                *)
(*                                                                         *)
(* Each handler reads, then writes in a later transaction: between the two *)
(* a project may have been approved, joined, left or deleted.              *)
(***************************************************************************)
EXTENDS CompanionProfiles

CONSTANTS
  Projects,      \* project ids
  Running        \* projects that may be active at the start

ASSUME ProjectsAssumption == Running \subseteq Projects

VARIABLES
  proj,          \* projects: status of each id
  creator,       \* created_by_profile_id
  members,       \* project_members
  noted,         \* the last admin_notification of each project
  asks,          \* pending approvals, <<kind, project, profile>>
  unseen,        \* history: projects emptied by a deleted profile or a failure
  contested      \* history: projects with a removal and another change at once

projectTables == <<proj, creator, members, noted, asks>>
projectVars   == <<projectTables, unseen, contested>>
vars == <<access, told, job, budgets, profileVars, projectVars>>

Active(x) == proj[x] = "active"

Removing == {"drop", "reject"}
Entering == {"activate", "enter"}

On(x, stages) == {t \in Threads : job[t].at \in stages /\ job[t].project = x}

\* A request that may remove x meets one that may fill it.
Contest(x) ==
  IF On(x, Removing) # {} /\ On(x, Entering) # {} THEN {x} ELSE {}

Step(t, stage) == Move(t, [job[t] EXCEPT !.at = stage])

-----------------------------------------------------------------------------
(* Proposals *)

\* The project row, and its approval in a transaction of its own.
ProposeProject(t, x, p) ==
  /\ proj[x] = "none" /\ Reachable(p)
  /\ Begin(t, [at |-> "ask", project |-> x, profile |-> p])
  /\ proj' = [proj EXCEPT ![x] = "pending"]
  /\ creator' = [creator EXCEPT ![x] = p]
  /\ UNCHANGED <<access, told, profileVars, members, noted, asks, unseen, contested>>

AskForProject(t) ==
  /\ At(t, "ask")
  /\ asks' = asks \cup {<<"create", job[t].project, job[t].profile>>}
  /\ Done(t)
  /\ UNCHANGED <<access, told, budgets, profileVars, proj, creator, members, noted,
                 unseen, contested>>

AskToJoin(x, p) ==
  /\ reqs < MaxReqs
  /\ \A u \in Threads : job[u].at \notin Offline
  /\ Reachable(p) /\ Active(x) /\ p \notin members[x]
  /\ asks' = asks \cup {<<"join", x, p>>}
  /\ reqs' = reqs + 1
  /\ UNCHANGED <<access, told, job, faults, profileVars, proj, creator, members, noted,
                 unseen, contested>>

-----------------------------------------------------------------------------
(* POST /approvals/{id}/decide: first the project, then the approval *)

\* The first read: the status of a project, or that a join is possible.
Decide(t, ask, verdict) ==
  LET x == ask[2]
      p == ask[3]
      go(stage) == Begin(t, [at |-> stage, project |-> x, profile |-> p, ask |-> ask])
  IN
  /\ ask \in asks
  /\ CASE ask[1] = "create" /\ verdict ->
            proj[x] = "pending" /\ go("activate")
       [] ask[1] = "create" /\ ~verdict ->
            proj[x] # "gone" /\ go(IF proj[x] = "pending" THEN "reject" ELSE "settle")
       [] ask[1] = "join" /\ verdict ->
            Present(p) /\ Active(x) /\ p \notin members[x] /\ go("enter")
       [] ask[1] = "join" /\ ~verdict -> go("settle")
  /\ UNCHANGED <<access, told, profileVars, projectTables, unseen>>

\* approve_create: the status is not tested again.  A project that is gone, a
\* creator that is gone or already a member fail the transaction.
Activate(t) ==
  LET x == job[t].project IN
  /\ At(t, "activate")
  /\ IF proj[x] \in {"pending", "active"} /\ Present(creator[x])
        /\ creator[x] \notin members[x]
     THEN /\ proj' = [proj EXCEPT ![x] = "active"]
          /\ members' = [members EXCEPT ![x] = @ \cup {creator[x]}]
          /\ Step(t, "settle")
     ELSE Done(t) /\ UNCHANGED <<proj, members>>
  /\ UNCHANGED <<access, told, budgets, profileVars, creator, noted, asks, unseen>>

\* approve_join: the keys of the member row.
Enter(t) ==
  LET x == job[t].project
      p == job[t].profile
  IN
  /\ At(t, "enter")
  /\ IF proj[x] # "gone" /\ Present(p) /\ p \notin members[x]
     THEN members' = [members EXCEPT ![x] = @ \cup {p}] /\ Step(t, "settle")
     ELSE Done(t) /\ UNCHANGED members
  /\ UNCHANGED <<access, told, budgets, profileVars, proj, creator, noted, asks, unseen>>

\* The row, its members and its notifications go together.
Removed(x) ==
  /\ proj' = [proj EXCEPT ![x] = "gone"]
  /\ members' = [members EXCEPT ![x] = {}]
  /\ noted' = [noted EXCEPT ![x] = "none"]

\* reject_create deletes by id what was pending when it looked.
Reject(t) ==
  /\ At(t, "reject")
  /\ Removed(job[t].project)
  /\ IF job[t].ask \in asks THEN Step(t, "settle") ELSE Done(t)
  /\ UNCHANGED <<access, told, budgets, profileVars, creator, asks, unseen>>

\* access.decide_approval: an approval that is no longer pending gives a 409.
Settle(t) ==
  /\ At(t, "settle")
  /\ asks' = asks \ {job[t].ask}
  /\ Done(t)
  /\ UNCHANGED <<access, told, budgets, profileVars, proj, creator, members, noted,
                 unseen>>

\* A retraction, or the sweep of an overdue approval: the approval first.
Withdraw(t, ask) ==
  LET x == ask[2] IN
  /\ ask \in asks
  /\ asks' = asks \ {ask}
  /\ Begin(t, IF ask[1] = "create" /\ proj[x] # "gone"
              THEN [at |-> "look", project |-> x, profile |-> ask[3], ask |-> ask]
              ELSE Nothing)
  /\ UNCHANGED <<access, told, profileVars, proj, creator, members, noted, unseen>>

\* ... then the status of the project.
LookAtProject(t) ==
  LET x == job[t].project IN
  /\ At(t, "look")
  /\ IF proj[x] = "pending" THEN Step(t, "reject") ELSE Done(t)
  /\ UNCHANGED <<access, told, budgets, profileVars, projectTables, unseen>>

-----------------------------------------------------------------------------
(* Leaving, notifications, deletion *)

Leave(t, x, p) ==
  /\ Active(x) /\ p \in members[x] /\ Reachable(p)
  /\ Begin(t, [at |-> "depart", project |-> x, profile |-> p])
  /\ UNCHANGED <<access, told, profileVars, projectTables, unseen>>

Depart(t) ==
  LET x == job[t].project IN
  /\ At(t, "depart")
  /\ members' = [members EXCEPT ![x] = @ \ {job[t].profile}]
  /\ Step(t, "look back")
  /\ UNCHANGED <<access, told, budgets, profileVars, proj, creator, noted, asks, unseen>>

\* Mutant: the admin is told when the creator leaves last.
LastOut(t, x) == members[x] = {} /\ job[t].profile = creator[x]

\* Nobody is left after the departure was committed.
NobodyLeft(t, x) == members[x] = {}

LookBack(t) ==
  /\ At(t, "look back")
  /\ IF NobodyLeft(t, job[t].project) THEN Step(t, "notify") ELSE Done(t)
  /\ UNCHANGED <<access, told, budgets, profileVars, projectTables, unseen>>

\* The notification refers to the project; then everybody gets a message.
Notify(t) ==
  LET x == job[t].project IN
  /\ At(t, "notify")
  /\ IF proj[x] = "gone" THEN UNCHANGED <<noted, unseen>>
     ELSE noted' = [noted EXCEPT ![x] = "open"] /\ unseen' = unseen \ {x}
  /\ Done(t)
  /\ UNCHANGED <<access, told, budgets, profileVars, proj, creator, members, asks>>

Silence(x) ==
  /\ noted[x] = "open"
  /\ noted' = [noted EXCEPT ![x] = "silenced"]
  /\ UNCHANGED <<access, told, job, budgets, profileVars, proj, creator, members, asks,
                 unseen, contested>>

\* Mutant: the members are not looked at.
AnyProject(x) == TRUE

\* "only an empty project can be deleted"
Deletable(x) == members[x] = {}

AskDeleteProject(t, x) ==
  /\ Active(x) /\ Deletable(x)
  /\ Begin(t, [at |-> "drop", project |-> x, profile |-> creator[x]])
  /\ UNCHANGED <<access, told, profileVars, projectTables, unseen>>

\* The DELETE names the id alone; members that came meanwhile go with it.
DropProject(t) ==
  /\ At(t, "drop")
  /\ Removed(job[t].project)
  /\ Done(t)
  /\ UNCHANGED <<access, told, budgets, profileVars, creator, asks, unseen>>

-----------------------------------------------------------------------------
(* Composition with the profiles *)

\* Mutant: the foreign keys are not enforced.
WithoutCascade == UNCHANGED <<proj, creator, members, noted, asks>>

\* project_members refers to profiles with ON DELETE CASCADE; a migration
\* writes the new id, but the script not in payloads, where the profile that
\* asks to join is named.  Nobody is told of a project that is emptied this way.
Cascade ==
  LET now(p) == IF \E t \in Threads : Migrating(t) /\ job[t].old = p
                THEN CHOOSE q \in Profiles : row'[q] = row[p]
                ELSE p
      kept(p) == \E q \in Profiles : row'[q] = row[p]
      named(a) == IF kept(a[3]) /\ ~(a[1] = "join" /\ \E t \in Threads : At(t, "rewrite by script"))
                  THEN now(a[3]) ELSE a[3]
      left(x) == {now(p) : p \in {q \in members[x] : kept(q)}}
  IN
  IF row' = row THEN UNCHANGED <<proj, creator, members, noted, asks>>
  ELSE /\ members' = [x \in Projects |-> left(x)]
       /\ creator' = [x \in Projects |-> IF kept(creator[x]) THEN now(creator[x])
                                         ELSE creator[x]]
       /\ asks' = {<<a[1], a[2], named(a)>> : a \in asks}
       /\ UNCHANGED <<proj, noted>>

\* An interruption between the departure of the last member and the notification
\* leaves nobody told.
Unseen ==
  unseen' = unseen \cup {x \in Projects :
                           \/ Active(x) /\ members[x] # {} /\ members'[x] = {}
                           \/ \E t \in On(x, {"look back", "notify"}) : job'[t] = Nothing}

ProfilesMove ==
  /\ ProfileStep \/ (EnrollmentStep /\ UNCHANGED profileVars)
  /\ Cascade
  /\ Unseen
  /\ UNCHANGED contested

ProjectStep ==
  \/ /\ \E t \in Threads :
          \/ \E ask \in asks : \/ \E v \in BOOLEAN : Decide(t, ask, v)
                               \/ Withdraw(t, ask)
          \/ Activate(t) \/ Enter(t) \/ Reject(t) \/ Settle(t) \/ LookAtProject(t)
          \/ \E x \in Projects : \/ \E p \in Profiles : Leave(t, x, p)
                                 \/ AskDeleteProject(t, x)
          \/ Depart(t) \/ LookBack(t) \/ Notify(t) \/ DropProject(t)
     /\ contested' = contested \cup UNION {Contest(x)' : x \in Projects}
  \/ \E t \in Threads :
       \/ \E x \in Projects, p \in Profiles : ProposeProject(t, x, p)
       \/ AskForProject(t)
  \/ \E x \in Projects : \/ \E p \in Profiles : AskToJoin(x, p)
                         \/ Silence(x)

Init ==
  /\ InitAccess /\ InitProfiles
  /\ proj \in {f \in [Projects -> {"none", "active"}] :
                 \A x \in Projects : f[x] = "active" => x \in Running}
  /\ creator \in [Projects -> DOMAIN Standing]
  /\ members \in [Projects -> SUBSET {p \in Profiles : Present(p)}]
  /\ \A x \in Projects : IF Active(x) THEN creator[x] \in members[x] ELSE members[x] = {}
  /\ noted = [x \in Projects |-> "none"]
  /\ asks = {} /\ unseen = {} /\ contested = {}

Next == ProfilesMove \/ ProjectStep

Spec == Init /\ [][Next]_vars

-----------------------------------------------------------------------------
(* Properties *)

Asks == {"create", "join"} \X Projects \X Profiles

ProjectJobs ==
  [at : {"ask", "depart", "look back", "notify", "drop"}, project : Projects,
   profile : Profiles] \cup
  [at : {"activate", "enter", "reject", "settle", "look"}, project : Projects,
   profile : Profiles, ask : Asks]

\* Every table, request and history variable holds what the code can put there;
\* in particular members and data refer to registered profiles, as the foreign
\* keys say, and data to the profile it was added for.
TypeOK ==
  /\ AccessTypeOK /\ ProfileTypeOK
  /\ job \in [Threads -> {Nothing} \cup EnrollJobs \cup ProfileJobs \cup ProjectJobs]
  /\ proj \in [Projects -> {"none", "pending", "active", "gone"}]
  /\ creator \in [Projects -> Profiles]
  /\ members \in [Projects -> SUBSET {p \in Profiles : Present(p)}]
  /\ noted \in [Projects -> {"none", "open", "silenced"}]
  /\ asks \subseteq Asks
  /\ unseen \subseteq Projects /\ contested \subseteq Projects
  /\ data \subseteq {<<p, row[p]>> : p \in {q \in Profiles : Present(q)}}

\* When the last member has left and its request is over, the admin has a
\* notification, however many members leave at a time; a project that lost its
\* last member with a deleted profile, or whose last departure was interrupted,
\* has none.
EmptyProjectIsNoticed ==
  \A x \in Projects :
    Active(x) /\ members[x] = {} /\ x \notin unseen
      /\ On(x, {"look back", "notify"}) = {} => noted[x] # "none"

\* A project is removed with members in it only when its removal overlapped the
\* request that let them in.
MembersAreNotEvicted ==
  [][\A x \in Projects :
       proj'[x] = "gone" /\ members[x] # {} => x \in contested']_vars

=============================================================================
