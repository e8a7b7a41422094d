--------------------------- MODULE StoreApprovals ---------------------------
(***************************************************************************)
(* Approvals that wait for a human, and what they decide: definitions of   *)
(* dynamic stores and edits of prompts (profile_os/access.py, dynstores.py *)
(* and the routes of api.py that compose them).                            *)
(*                                                                         *)
(* A request runs on a thread of one backend process.  Each read of the    *)
(* database and each committed write is a step; what was read is kept in   *)
(* the request.  An approval is named by the request that issued it, whose *)
(* row, text and author are then the payload of the approval.              *)
(***************************************************************************)
EXTENDS Naturals, FiniteSets

CONSTANTS
  Reqs,          \* requests, and the approvals they issue
  NoReq,         \* none of them
  People,        \* principals that propose
  Names,         \* names of stores, in one profile
  Schemas,       \* purposes and schemas of a definition
  MaxVersion,    \* bound: definitions of one name
  MaxCode,       \* bound: codes the authenticator shows, as 30-second counters
  MaxOverdue,    \* bound: approvals that get older than a day
  MaxCrashes     \* bound: kills of the backend and failing calls of SQLite

Versions == 1 .. MaxVersion
Defs     == Names \X Versions
Codes    == 1 .. MaxCode

ASSUME ApprovalsAssumption ==
  /\ NoReq \notin Reqs
  /\ People # {} /\ Names # {} /\ Schemas # {}
  /\ MaxVersion \in Nat \ {0} /\ MaxCode \in Nat \ {0}
  /\ MaxOverdue \in Nat /\ MaxCrashes \in Nat

VARIABLES
  \* dynamic_stores
  status,        \* status[d] of definition d = <<name, version>>
  schema,        \* schema[d]
  \* access_pending_approvals and the prompts they change
  appr,          \* appr[a]: status of approval a
  overdue,       \* approvals whose expires_at has passed
  applied,       \* applied[a]: how much of prompt edit a was written
  \* access_totp of the one admin
  lastUsed,      \* last_used_counter, 0 for NULL
  \* requests
  pc,            \* program counter, then the outcome
  op,            \* what was asked for
  who,           \* the principal that asked
  row,           \* the definition the request is about
  text,          \* the schema it carries, then the one it reports
  target,        \* the approval it decides or retracts
  code,          \* the TOTP code it carries, as the counter that made it
  todo,          \* approvals a loop of the request still has to handle
  cur,           \* the one it is handling
  \* history and budgets
  stranded,      \* definitions whose approval went away with no one to follow up
  crashes

stores == <<status, schema>>
links  == <<appr, overdue, applied>>
asked  == <<op, who, target, code>>
local  == <<row, text, todo, cur>>
vars   == <<stores, links, lastUsed, pc, asked, local, stranded, crashes>>

-----------------------------------------------------------------------------
(* Vocabulary *)

Open     == {"pending", "approved"}
Statuses == {"absent", "pending", "approved", "rejected", "archived"}

Decisions == {"approve", "reject"}
Revisers  == {"patch", "withdraw"}
Ops == {"none", "propose", "promptEdit", "retract", "list", "show", "adminApprove",
        "adminReject", "archive"} \cup Decisions \cup Revisers

Sweeping == {"sweep", "mark", "close", "closeWrite"}
Labels   == Sweeping \cup
            {"get", "propose", "insert", "reread", "find", "update", "updateWrite",
             "collect", "retire", "issue", "read", "verify", "fetch", "apply",
             "record", "retract", "list", "settle", "sections", "rules"}
Outcomes == {"done", "refused", "lost"}

\* Values of what a request has not read yet.
SomePerson == CHOOSE w \in People : TRUE
SomeSchema == CHOOSE x \in Schemas : TRUE
SomeDef    == CHOOSE d \in Defs : TRUE

Active(k) == pc[k] \in Labels

\* Approvals of store definitions; the others are prompt edits.
ForStore(a) == op[a] # "promptEdit"

\* The definition dyn.get, _require and _latest find.
IsLatest(d) ==
  /\ status[d] # "absent"
  /\ \A v \in Versions : status[<<d[1], v>>] # "absent" => v <= d[2]
Fresh(n) == \A v \in Versions : status[<<n, v>>] = "absent"

\* Mutant: an open definition does not stand in the way of a new version.
IsNextAnyStatus(d) ==
  /\ \A v \in Versions : status[<<d[1], v>>] # "absent" => v < d[2]
  /\ d[2] > 1 => status[<<d[1], d[2] - 1>>] # "absent"

\* Version n, v is the one propose would give to a new definition.
IsNext(d) ==
  /\ \A v \in Versions : status[<<d[1], v>>] # "absent" => v < d[2]
  /\ d[2] > 1 => status[<<d[1], d[2] - 1>>] \notin {"absent"} \cup Open

To(k, label)   == pc' = [pc EXCEPT ![k] = label]
Set(f, k, val) == [f EXCEPT ![k] = val]

-----------------------------------------------------------------------------
(* Expiry *)

Age(a) ==
  /\ appr[a] = "pending" /\ a \notin overdue
  /\ Cardinality(overdue) < MaxOverdue
  /\ overdue' = overdue \cup {a}
  /\ UNCHANGED <<stores, appr, applied, lastUsed, pc, asked, local, stranded, crashes>>

Lapsed  == {a \in overdue : appr[a] = "pending"}
Live(a) == appr[a] = "pending" /\ a \notin overdue

\* expire_pending_approvals as access.py itself calls it: the list of what
\* expired is thrown away, so nobody rejects the definitions.
ExpireAndForget ==
  /\ appr' = [a \in Reqs |-> IF a \in Lapsed THEN "expired" ELSE appr[a]]
  /\ stranded' = stranded \cup {row[a] : a \in {b \in Lapsed : ForStore(b)}}

\* Where a request goes after _expire_approvals, or at once.
Entry(o) == CASE o = "propose"     -> "get"
              [] o \in {"retract", "list"} -> o
              [] o \in Decisions   -> "read"
              [] OTHER             -> "done"

\* _expire_approvals: SELECT the overdue ones, UPDATE them, then reject the
\* definition of each.
SweepSelect(k) ==
  /\ pc[k] = "sweep"
  /\ IF Lapsed = {} THEN To(k, Entry(op[k])) ELSE To(k, "mark")
  /\ todo' = Set(todo, k, Lapsed)
  /\ UNCHANGED <<stores, links, lastUsed, asked, row, text, cur, stranded, crashes>>

\* Mutant: the list of what expired is dropped.
SweepMarkOnly(k) ==
  /\ pc[k] = "mark"
  /\ appr' = [a \in Reqs |-> IF a \in todo[k] /\ appr[a] = "pending" THEN "expired"
                                                                   ELSE appr[a]]
  /\ todo' = Set(todo, k, {})
  /\ To(k, "close")
  /\ UNCHANGED <<stores, overdue, applied, lastUsed, asked, row, text, cur, stranded, crashes>>

SweepMark(k) ==
  /\ pc[k] = "mark"
  /\ appr' = [a \in Reqs |-> IF a \in todo[k] /\ appr[a] = "pending" THEN "expired"
                                                                   ELSE appr[a]]
  /\ todo' = Set(todo, k, {a \in todo[k] : ForStore(a)})
  /\ To(k, "close")
  /\ UNCHANGED <<stores, overdue, applied, lastUsed, asked, row, text, cur, stranded, crashes>>

\* reject_id reads the row; a conflict is swallowed.
SweepClose(k) ==
  /\ pc[k] = "close"
  /\ \/ todo[k] = {} /\ To(k, Entry(op[k])) /\ UNCHANGED <<todo, cur>>
     \/ \E a \in todo[k] :
          IF status[row[a]] = "pending"
          THEN cur' = Set(cur, k, a) /\ To(k, "closeWrite") /\ UNCHANGED todo
          ELSE todo' = Set(todo, k, todo[k] \ {a}) /\ UNCHANGED <<pc, cur>>
  /\ UNCHANGED <<stores, links, lastUsed, asked, row, text, stranded, crashes>>

SweepCloseWrite(k) ==
  /\ pc[k] = "closeWrite"
  /\ status' = Set(status, row[cur[k]], "rejected")
  /\ todo' = Set(todo, k, todo[k] \ {cur[k]})
  /\ cur'  = Set(cur, k, NoReq)
  /\ To(k, "close")
  /\ UNCHANGED <<schema, links, lastUsed, asked, row, text, stranded, crashes>>

SweepStep(k) == SweepSelect(k) \/ SweepMark(k) \/ SweepClose(k) \/ SweepCloseWrite(k)

-----------------------------------------------------------------------------
(* Requests begin *)

Begin(k, o, label, w, d, x, a, c) ==
  /\ pc[k] = "new"
  /\ op'     = Set(op, k, o)
  /\ who'    = Set(who, k, w)
  /\ row'    = Set(row, k, d)
  /\ text'   = Set(text, k, x)
  /\ target' = Set(target, k, a)
  /\ code'   = Set(code, k, c)
  /\ To(k, label)
  /\ UNCHANGED <<stores, links, lastUsed, todo, cur, stranded, crashes>>

\* POST, PATCH and DELETE of a store; the version of the row named is not
\* looked at.
Submit(k) ==
  \E w \in People, n \in Names :
    \/ \E x \in Schemas : \/ Begin(k, "propose", "sweep", w, <<n, 1>>, x, NoReq, 0)
                          \/ Begin(k, "patch", "get", w, <<n, 1>>, x, NoReq, 0)
    \/ Begin(k, "withdraw", "get", w, <<n, 1>>, text[k], NoReq, 0)

\* Requests of the admin, who is not told apart from the rest.
Administer(k) ==
  \/ \E n \in Names, o \in {"adminApprove", "adminReject", "archive"} :
       Begin(k, o, "fetch", who[k], <<n, 1>>, text[k], NoReq, 0)
  \/ \E o \in {"list", "show"} : Begin(k, o, "sweep", who[k], row[k], text[k], NoReq, 0)

\* A link is used by whoever holds it, with the code an authenticator showed;
\* a retraction is checked against its author.
Decide(k) ==
  \E a \in Reqs :
    /\ appr[a] # "absent"
    /\ \/ \E c \in Codes : Begin(k, "approve", "sweep", who[k], row[a], text[k], a, c)
       \/ Begin(k, "reject", "sweep", who[k], row[a], text[k], a, 0)
       \/ \E w \in People : Begin(k, "retract", "sweep", w, row[a], text[k], a, 0)

EditPrompt(k) ==
  \E w \in People : Begin(k, "promptEdit", "issue", w, row[k], text[k], NoReq, 0)

-----------------------------------------------------------------------------
(* Proposing a definition *)

\* dyn.get.  A pending definition is revised as PATCH revises it.
Get(k) ==
  /\ pc[k] = "get"
  /\ \/ /\ Fresh(row[k][1])
        /\ To(k, IF op[k] = "propose" THEN "propose" ELSE "refused")
        /\ UNCHANGED <<op, row>>
     \/ \E d \in Defs :
          /\ d[1] = row[k][1] /\ IsLatest(d)
          /\ row' = Set(row, k, d)
          /\ IF op[k] = "propose" /\ status[d] # "pending"
             THEN To(k, "propose") /\ UNCHANGED op
             ELSE To(k, "find") /\ op' = Set(op, k, IF op[k] = "propose" THEN "patch" ELSE op[k])
  /\ UNCHANGED <<stores, links, lastUsed, who, target, code, text, todo, cur, stranded, crashes>>

\* dyn.propose: the latest version is read again ...
Propose(k) ==
  /\ pc[k] = "propose"
  /\ \E d \in Defs :
       /\ d[1] = row[k][1]
       /\ \/ IsNext(d) /\ row' = Set(row, k, d) /\ To(k, "insert")
          \/ IsLatest(d) /\ status[d] \in Open /\ To(k, "refused") /\ UNCHANGED row
  /\ UNCHANGED <<stores, links, lastUsed, asked, text, todo, cur, stranded, crashes>>

\* ... and the row inserted, unless UNIQUE(profile_id, name, version) objects.
Insert(k) ==
  /\ pc[k] = "insert"
  /\ IF status[row[k]] = "absent"
     THEN /\ status' = Set(status, row[k], "pending")
          /\ schema' = Set(schema, row[k], text[k])
          /\ To(k, "reread")
     ELSE To(k, "refused") /\ UNCHANGED stores
  /\ UNCHANGED <<links, lastUsed, asked, local, stranded, crashes>>

\* The result is what dyn.get finds by name.  _maybe_auto_approve may approve
\* it for an owner within the budget; otherwise a pending one gets a link.
Reread(k) ==
  /\ pc[k] = "reread"
  /\ \E d \in Defs :
       /\ d[1] = row[k][1] /\ IsLatest(d)
       /\ row'  = Set(row, k, d)
       /\ text' = Set(text, k, schema[d])
       /\ \/ op[k] = "patch" /\ To(k, "collect")
          \/ op[k] # "patch" /\ To(k, "fetch")
          \/ op[k] # "patch" /\ To(k, IF status[d] = "pending" THEN "issue" ELSE "done")
  /\ UNCHANGED <<stores, links, lastUsed, asked, todo, cur, stranded, crashes>>

Issue(k) ==
  /\ pc[k] = "issue"
  /\ appr' = Set(appr, k, "pending")
  /\ To(k, "done")
  /\ UNCHANGED <<stores, overdue, applied, lastUsed, asked, local, stranded, crashes>>

-----------------------------------------------------------------------------
(* Revising or withdrawing a pending definition *)

LiveLinks(d) == {a \in Reqs : Live(a) /\ ForStore(a) /\ row[a] = d}

\* list_pending_approvals; only the proposer may go on.
Find(k) ==
  /\ pc[k] = "find"
  /\ ExpireAndForget
  /\ \/ LiveLinks(row[k]) = {} /\ To(k, "refused")
     \/ \E a \in LiveLinks(row[k]) :
          To(k, IF who[a] # who[k] THEN "refused"
                ELSE IF op[k] = "withdraw" THEN "fetch" ELSE "update")
  /\ UNCHANGED <<stores, overdue, applied, lastUsed, asked, local, crashes>>

\* update_pending looks the name up again ...
Update(k) ==
  /\ pc[k] = "update"
  /\ \E d \in Defs :
       /\ d[1] = row[k][1] /\ IsLatest(d)
       /\ IF status[d] = "pending" THEN row' = Set(row, k, d) /\ To(k, "updateWrite")
                                   ELSE To(k, "refused") /\ UNCHANGED row
  /\ UNCHANGED <<stores, links, lastUsed, asked, text, todo, cur, stranded, crashes>>

\* ... and writes by id, whatever became of the row.
UpdateWrite(k) ==
  /\ pc[k] = "updateWrite"
  /\ schema' = Set(schema, row[k], text[k])
  /\ To(k, "reread")
  /\ UNCHANGED <<status, links, lastUsed, asked, local, stranded, crashes>>

\* Every live link of the definition is retracted, one after the other, before
\* the new one is issued.
Collect(k) ==
  /\ pc[k] = "collect"
  /\ ExpireAndForget
  /\ todo' = Set(todo, k, LiveLinks(row[k]))
  /\ To(k, "retire")
  /\ UNCHANGED <<stores, overdue, applied, lastUsed, asked, row, text, cur, crashes>>

\* retract_approval reads the approval; it raises when that is decided already
\* or somebody else's, and the request ends there.
Retire(k) ==
  /\ pc[k] = "retire"
  /\ \/ /\ todo[k] = {}
        /\ To(k, IF op[k] = "patch" THEN "issue" ELSE "done")
        /\ UNCHANGED <<appr, cur, stranded>>
     \/ \E a \in todo[k] :
          \/ /\ Live(a) /\ who[a] = who[k]
             /\ ExpireAndForget
             /\ cur' = Set(cur, k, a) /\ To(k, "settle")
          \/ /\ ~(Live(a) /\ who[a] = who[k])
             /\ appr' = [b \in Reqs |-> IF b \in Lapsed THEN "expired" ELSE appr[b]]
             /\ stranded' = stranded \cup {row[k]}
                                     \cup {row[b] : b \in {c \in Lapsed : ForStore(c)}}
             /\ To(k, "refused") /\ UNCHANGED cur
  /\ UNCHANGED <<stores, overdue, applied, lastUsed, asked, row, text, todo, crashes>>

-----------------------------------------------------------------------------
(* Deciding and retracting an approval *)

\* Mutant: the decision on a definition is recorded before it is looked at.
DecidedIsRecorded(k) == "record"

\* Where a decision goes once it is authorized.
Decided(k) == IF ForStore(target[k]) THEN "fetch" ELSE "record"

\* decide_approval reads the approval before it asks for the code.
Read(k) ==
  /\ pc[k] = "read"
  /\ \/ appr[target[k]] # "pending" /\ To(k, "refused")
     \/ /\ appr[target[k]] = "pending"
        /\ To(k, IF op[k] = "approve" THEN "verify" ELSE Decided(k))
  /\ UNCHANGED <<stores, links, lastUsed, asked, local, stranded, crashes>>

\* Mutant: any code of the drift window is good.
VerifyReused(k) ==
  /\ pc[k] = "verify"
  /\ \/ lastUsed' = code[k] /\ To(k, Decided(k))
     \/ To(k, "refused") /\ UNCHANGED lastUsed
  /\ UNCHANGED <<stores, links, asked, local, stranded, crashes>>

\* verify_totp: the counter must be newer than the last one.  Whether the code
\* is of the drift window around the clock is left open.
Verify(k) ==
  /\ pc[k] = "verify"
  /\ \/ code[k] > lastUsed /\ lastUsed' = code[k] /\ To(k, Decided(k))
     \/ To(k, "refused") /\ UNCHANGED lastUsed
  /\ UNCHANGED <<stores, links, asked, local, stranded, crashes>>

\* The definition a decision is about: by id for a link, else the latest.
Found(k, d) ==
  IF op[k] \in Decisions \cup {"retract"} THEN d = row[k]
                                          ELSE d[1] = row[k][1] /\ IsLatest(d)

Needed(o) == IF o = "archive" THEN "approved" ELSE "pending"

\* _approve_row, _reject_row and archive test the status ...
Fetch(k) ==
  /\ pc[k] = "fetch"
  /\ \/ /\ \E d \in Defs : Found(k, d) /\ status[d] = Needed(op[k])
                           /\ row' = Set(row, k, d)
        /\ To(k, "apply")
     \/ /\ ~\E d \in Defs : Found(k, d) /\ status[d] = Needed(op[k])
        /\ To(k, "refused") /\ UNCHANGED row
  /\ UNCHANGED <<stores, links, lastUsed, asked, text, todo, cur, stranded, crashes>>

NewStatus(o) == CASE o \in {"approve", "adminApprove", "propose"} -> "approved"
                  [] o = "archive"                                -> "archived"
                  [] OTHER                                        -> "rejected"

\* ... and then write by id without testing it again.
Apply(k) ==
  /\ pc[k] = "apply"
  /\ status' = Set(status, row[k], NewStatus(op[k]))
  /\ To(k, CASE op[k] \in Decisions  -> "record"
             [] op[k] = "withdraw"   -> "collect"
             [] OTHER                -> "done")
  /\ UNCHANGED <<schema, links, lastUsed, asked, local, stranded, crashes>>

\* GET /approvals lists after a second expiry.
List(k) ==
  /\ pc[k] = "list"
  /\ ExpireAndForget
  /\ To(k, "done")
  /\ UNCHANGED <<stores, overdue, applied, lastUsed, asked, local, crashes>>

\* access.decide_approval and access.retract_approval test the approval ...
Record(k) ==
  /\ pc[k] \in {"record", "retract"}
  /\ ExpireAndForget
  /\ To(k, IF /\ Live(target[k])
              /\ op[k] = "retract" => who[target[k]] = who[k]
           THEN "settle" ELSE "refused")
  /\ UNCHANGED <<stores, overdue, applied, lastUsed, asked, local, crashes>>

\* Mutant: a retraction is recorded under the word the stores use.
SettlementWithdrawn(o) == CASE o = "approve" -> "approved"
                            [] o = "reject"  -> "rejected"
                            [] OTHER         -> "withdrawn"

Settlement(o) == CASE o = "approve" -> "approved"
                   [] o = "reject"  -> "rejected"
                   [] OTHER         -> "retracted"

Settled(k) == IF op[k] \in Revisers THEN cur[k] ELSE target[k]

\* ... and write by id.  A retraction closes the definition afterwards, an
\* approved prompt edit is written afterwards.
Settle(k) ==
  /\ pc[k] = "settle"
  /\ appr' = Set(appr, Settled(k), Settlement(op[k]))
  /\ todo' = Set(todo, k, todo[k] \ {Settled(k)})
  /\ cur'  = Set(cur, k, NoReq)
  /\ To(k, CASE op[k] \in Revisers                             -> "retire"
             [] op[k] = "retract" /\ ForStore(target[k])       -> "fetch"
             [] op[k] = "approve" /\ ~ForStore(target[k])      -> "sections"
             [] OTHER                                          -> "done")
  /\ UNCHANGED <<stores, overdue, applied, lastUsed, asked, row, text, stranded, crashes>>

\* update_prompts, then update_closeout_rules.
WriteSections(k) ==
  /\ pc[k] = "sections"
  /\ applied' = Set(applied, target[k], IF applied[target[k]] = "whole" THEN "whole" ELSE "sections")
  /\ To(k, "rules")
  /\ UNCHANGED <<stores, appr, overdue, lastUsed, asked, local, stranded, crashes>>

WriteRules(k) ==
  /\ pc[k] = "rules"
  /\ applied' = Set(applied, target[k], "whole")
  /\ To(k, "done")
  /\ UNCHANGED <<stores, appr, overdue, lastUsed, asked, local, stranded, crashes>>

-----------------------------------------------------------------------------
(* Requests that end half-way *)

\* What a request was about, and what it had taken over.
Handled(k) == {row[k]} \cup {row[a] : a \in todo[k]}

Wiped(S, f, val) == [k \in Reqs |-> IF k \in S THEN val ELSE f[k]]

\* The requests S are gone, with what they remembered.
Lose(S) ==
  /\ crashes < MaxCrashes /\ S # {}
  /\ crashes'  = crashes + 1
  /\ stranded' = stranded \cup UNION {Handled(k) : k \in S}
  /\ pc'     = Wiped(S, pc, "lost")
  /\ op'     = Wiped(S, op, "none")
  /\ who'    = Wiped(S, who, SomePerson)
  /\ row'    = Wiped(S, row, SomeDef)
  /\ text'   = Wiped(S, text, SomeSchema)
  /\ target' = Wiped(S, target, NoReq)
  /\ code'   = Wiped(S, code, 0)
  /\ todo'   = Wiped(S, todo, {})
  /\ cur'    = Wiped(S, cur, NoReq)
  /\ UNCHANGED <<stores, links, lastUsed>>

\* A kill of the backend, and a call of SQLite that fails: no handler of these
\* routes catches it.
Crash == Lose({k \in Reqs : Active(k)})
DbFails(k) == Active(k) /\ Lose({k})

-----------------------------------------------------------------------------
(* Specification *)

Init ==
  /\ status = [d \in Defs |-> "absent"]
  /\ schema = [d \in Defs |-> SomeSchema]
  /\ appr = [a \in Reqs |-> "absent"]
  /\ overdue = {}
  /\ applied = [a \in Reqs |-> "no"]
  /\ lastUsed = 0
  /\ pc = [k \in Reqs |-> "new"]
  /\ op = [k \in Reqs |-> "none"]
  /\ who = [k \in Reqs |-> SomePerson]
  /\ row = [k \in Reqs |-> SomeDef]
  /\ text = [k \in Reqs |-> SomeSchema]
  /\ target = [k \in Reqs |-> NoReq]
  /\ code = [k \in Reqs |-> 0]
  /\ todo = [k \in Reqs |-> {}]
  /\ cur = [k \in Reqs |-> NoReq]
  /\ stranded = {}
  /\ crashes = 0

StoreStep(k) ==
  \/ Get(k)  \/ Propose(k) \/ Insert(k)      \/ Reread(k)  \/ Issue(k)
  \/ Find(k) \/ Update(k)  \/ UpdateWrite(k) \/ Collect(k) \/ Retire(k)

DecisionStep(k) ==
  \/ Read(k)   \/ Verify(k) \/ Fetch(k)         \/ Apply(k)
  \/ List(k)   \/ Record(k) \/ Settle(k) \/ WriteSections(k) \/ WriteRules(k)

Next ==
  \/ \E k \in Reqs : \/ Submit(k) \/ Administer(k) \/ Decide(k) \/ EditPrompt(k)
                     \/ SweepStep(k) \/ StoreStep(k) \/ DecisionStep(k) \/ DbFails(k)
  \/ \E a \in Reqs : Age(a)
  \/ Crash

Spec == Init /\ [][Next]_vars

-----------------------------------------------------------------------------
(* Properties *)

\* Every variable has the values its declaration promises.
TypeOK ==
  /\ status \in [Defs -> Statuses]
  /\ schema \in [Defs -> Schemas]
  /\ appr \in [Reqs -> {"absent", "pending", "approved", "rejected", "retracted", "expired"}]
  /\ overdue \subseteq Reqs
  /\ applied \in [Reqs -> {"no", "sections", "whole"}]
  /\ lastUsed \in {0} \cup Codes
  /\ pc \in [Reqs -> {"new"} \cup Labels \cup Outcomes]
  /\ op \in [Reqs -> Ops]
  /\ who \in [Reqs -> People]
  /\ row \in [Reqs -> Defs]
  /\ text \in [Reqs -> Schemas]
  /\ target \in [Reqs -> Reqs \cup {NoReq}]
  /\ code \in [Reqs -> {0} \cup Codes]
  /\ todo \in [Reqs -> SUBSET Reqs]
  /\ cur \in [Reqs -> Reqs \cup {NoReq}]
  /\ stranded \subseteq Defs
  /\ crashes \in 0 .. MaxCrashes

\* Approving requests that are past verify_totp.
Authorized ==
  {k \in Reqs : op[k] = "approve" /\ pc[k] \in {"fetch", "apply", "record", "settle",
                                                "sections", "rules", "done"}}

\* A code of the authenticator decides one approval, whichever threads present
\* it and however often.
CodeDecidesOnce ==
  \A j, k \in Authorized : j # k => code[j] # code[k]

\* A name never has two pending definitions, and a pending one is the newest:
\* concurrent proposals are told apart by the UNIQUE constraint and no decision,
\* however late, makes a definition pending again.
PendingIsLatest ==
  \A d \in Defs : status[d] = "pending" => IsLatest(d)

\* A decision that is recorded has taken effect: its definition is no longer
\* pending, its prompt edit is written or being written, unless a kill hit the
\* requests at work.
DecisionsTakeEffect ==
  \A a \in Reqs :
    IF ForStore(a)
    THEN appr[a] \in {"approved", "rejected"} => status[row[a]] # "pending"
    ELSE appr[a] = "approved" =>
           \/ applied[a] = "whole"
           \/ \E k \in Reqs : target[k] = a /\ pc[k] \in {"sections", "rules"}
           \/ crashes > 0

\* Requests that have taken away an approval of d, or created d, and have yet to
\* issue its approval or close it.
Owes(k, d) ==
  \/ /\ row[k] = d
     /\ \/ op[k] = "propose" /\ pc[k] \in {"reread", "fetch", "apply", "issue"}
        \/ op[k] = "patch"   /\ pc[k] \in {"retire", "settle", "issue"}
        \/ op[k] = "retract" /\ pc[k] \in {"fetch", "apply"}
  \/ /\ pc[k] \in {"close", "closeWrite"}
     /\ \E a \in todo[k] : row[a] = d

\* A pending definition can be decided by a link, or a request is at work that
\* will see to it, unless a kill, an expiry that was forgotten or a retirement
\* that failed left it behind.
PendingIsDecidable ==
  \A d \in Defs :
    status[d] = "pending" =>
      \/ \E a \in Reqs : ForStore(a) /\ row[a] = d /\ appr[a] = "pending"
      \/ \E k \in Reqs : Owes(k, d)
      \/ d \in stranded

\* A link approves what it shows (comment of propose_store, lines 1527-1529).
ApprovedAsShown ==
  [][\A k \in Reqs :
       /\ pc[k] = "apply" /\ pc'[k] # "apply" /\ pc'[k] # "lost"
       /\ op[k] = "approve"
       => schema[row[k]] = text[target[k]]]_vars
=============================================================================
