--------------------------- MODULE AgentEnrollment ---------------------------
(***************************************************************************)
(* Principals, their keys and grants (profile_os/access.py) and the way an *)
(* agent becomes one: POST /enroll with a single-use invite                *)
(* (profile_os/enroll.py).                                                 *)
(*                                                                         *)
(* Requests run on threads of the backend; job[t] is what thread t has     *)
(* still to do.  Every write is a transaction of its own, and a request    *)
(* may end between two of them.  Modules that EXTEND this one add their    *)
(* requests to the same threads.                                           *)
(***************************************************************************)
EXTENDS Integers, Sequences, FiniteSets

CONSTANTS
  Threads,       \* threads of the backend
  Principals,    \* ids a principal can get
  Admin,         \* the principal made by bootstrap_admin
  Founders,      \* agents enrolled earlier
  Profiles,      \* profile ids
  Anywhere,      \* the scope of a global grant
  Keys,          \* public keys
  Invites,       \* invites that are minted
  MaxReqs,       \* bound: requests
  MaxFaults      \* bound: interruptions

ASSUME AccessAssumption ==
  /\ Admin \in Principals /\ Founders \subseteq Principals \ {Admin}
  /\ Anywhere \notin Profiles
  /\ MaxReqs \in Nat /\ MaxFaults \in Nat

VARIABLES
  principals,    \* access_principals
  keys,          \* access_credentials of kind ed25519
  grants,        \* access_grants that are not revoked
  invites,       \* access_invites, by status
  told,          \* history: enrollments that were answered, <<invite, principal>>
  job,           \* what each thread is doing
  reqs, faults   \* budgets

access  == <<principals, keys, grants, invites>>
budgets == <<reqs, faults>>

-----------------------------------------------------------------------------
(* Requests *)

Nothing == [at |-> "idle"]
Idle(t) == job[t] = Nothing
At(t, s) == job[t].at = s

Move(t, j) == job' = [job EXCEPT ![t] = j]
Done(t)    == Move(t, Nothing)

\* Stages of a local command that runs while the backend is stopped.
Offline == {"rewrite", "rewrite by script"}

Begin(t, j) ==
  /\ Idle(t) /\ reqs < MaxReqs
  /\ \A u \in Threads : job[u].at \notin Offline
  /\ Move(t, j)
  /\ reqs' = reqs + 1
  /\ UNCHANGED faults

\* Some requests end where they are: "database is locked", or a kill.
Interrupted(ts) ==
  /\ faults < MaxFaults /\ ts # {} /\ \A t \in ts : ~Idle(t)
  /\ faults' = faults + 1
  /\ job' = [t \in Threads |-> IF t \in ts THEN Nothing ELSE job[t]]
  /\ UNCHANGED reqs

-----------------------------------------------------------------------------
(* Grants.  The life of a profile is history: the code compares ids only. *)

Grant(pr, op, p, life) == [who |-> pr, op |-> op, on |-> p, life |-> life]

\* allowed: the admin's grants cover every profile.
Allowed(pr, op, p) ==
  /\ pr \in principals
  /\ \/ pr = Admin
     \/ \E g \in grants : g.who = pr /\ g.op = op /\ g.on = p

-----------------------------------------------------------------------------
(* POST /enroll *)

\* The invite matches, is unused and has not expired.
AskEnroll(t, i, k) ==
  /\ invites[i] = "open"
  /\ Begin(t, [at |-> "principal", invite |-> i, key |-> k])
  /\ UNCHANGED <<access, told>>

CreatePrincipal(t) ==
  /\ At(t, "principal")
  /\ \E pr \in Principals \ principals :
       /\ principals' = principals \cup {pr}
       /\ Move(t, [at |-> "key", invite |-> job[t].invite, key |-> job[t].key, who |-> pr])
  /\ UNCHANGED <<keys, grants, invites, told, budgets>>

\* add_public_key refuses a key that is registered ...
CheckKey(t) ==
  /\ At(t, "key")
  /\ IF \E c \in keys : c[2] = job[t].key
     THEN Done(t)
     ELSE Move(t, [job[t] EXCEPT !.at = "credential"])
  /\ UNCHANGED <<access, told, budgets>>

\* ... and inserts it in a later transaction.
AddKey(t) ==
  /\ At(t, "credential")
  /\ keys' = keys \cup {<<job[t].who, job[t].key>>}
  /\ Move(t, [job[t] EXCEPT !.at = "admit"])
  /\ UNCHANGED <<principals, grants, invites, told, budgets>>

GrantCreate(t) ==
  /\ At(t, "admit")
  /\ grants' = grants \cup {Grant(job[t].who, "create_profile", Anywhere, 0)}
  /\ Move(t, [job[t] EXCEPT !.at = "consume"])
  /\ UNCHANGED <<principals, keys, invites, told, budgets>>

\* Mutant: the UPDATE does not test used_at.
Unused(i) == TRUE

\* used_at IS NULL; the expiry is compared with the time the request began.
Unspent(i) == invites[i] # "used"

\* The invite is consumed last: the loser of two enrollments has its principal,
\* key and grant, but is never told which key id is its own.
ConsumeInvite(t) ==
  LET i == job[t].invite IN
  /\ At(t, "consume")
  /\ IF Unspent(i)
     THEN /\ invites' = [invites EXCEPT ![i] = "used"]
          /\ told' = told \cup {<<i, job[t].who>>}
     ELSE UNCHANGED <<invites, told>>
  /\ Done(t)
  /\ UNCHANGED <<principals, keys, grants, budgets>>

\* Time passes, by default 24 hours.
InviteExpires(i) ==
  /\ invites[i] = "open"
  /\ invites' = [invites EXCEPT ![i] = "expired"]
  /\ UNCHANGED <<principals, keys, grants, told, job, budgets>>

-----------------------------------------------------------------------------
InitAccess ==
  /\ principals = Founders \cup {Admin}
  /\ keys = {}
  /\ invites = [i \in Invites |-> "open"]
  /\ told = {}
  /\ job = [t \in Threads |-> Nothing]
  /\ reqs = 0 /\ faults = 0

EnrollmentStep ==
  \/ \E t \in Threads :
       \/ \E i \in Invites, k \in Keys : AskEnroll(t, i, k)
       \/ CreatePrincipal(t)
       \/ CheckKey(t)
       \/ AddKey(t)
       \/ GrantCreate(t)
       \/ ConsumeInvite(t)
  \/ \E i \in Invites : InviteExpires(i)

EnrollJobs ==
  [at : {"principal"}, invite : Invites, key : Keys] \cup
  [at : {"key", "credential", "admit", "consume"}, invite : Invites, key : Keys,
   who : Principals]

AccessTypeOK ==
  /\ principals \subseteq Principals
  /\ keys \subseteq Principals \X Keys
  /\ invites \in [Invites -> {"open", "used", "expired"}]
  /\ told \subseteq Invites \X Principals
  /\ reqs \in Nat /\ faults \in Nat

\* An invite enrolls one agent: whatever overlaps or is interrupted, at most
\* one caller of POST /enroll is told of its credential, and that one then has
\* a key and the right to create profiles.
InviteAdmitsOne ==
  \A x, y \in told :
    /\ x[1] = y[1] => x = y
    /\ \E c \in keys : c[1] = x[2]
    /\ Allowed(x[2], "create_profile", Anywhere)

=============================================================================
