--------------------------- MODULE CloseoutCodes ---------------------------
(***************************************************************************)
(* One-time closeout codes: CloseoutCodeState and the closeout tool of     *)
(* MCPToolRunner (profile_os/mcp_server.py), with the backend's closeout   *)
(* (profile_os/storage.py) at the other end of an HTTP request.            *)
(*                                                                         *)
(* MCP servers share one SQLite ledger of codes.  A server runs one tool   *)
(* call at a time, on its event loop, but the request it sends lives on    *)
(* in the backend when the server stops waiting for the answer.  Time is   *)
(* counted in ticks of int(time.time()).                                   *)
(***************************************************************************)
EXTENDS Naturals, FiniteSets

CONSTANTS
  Servers,       \* MCP processes over one ledger: a redeploy overlaps two
  NoServer,      \* the server of a call that was not made yet
  Calls,         \* completion calls: the first try and its retries
  Codes,         \* codes that may be prepared
  NoCode,        \* the code of a call that was not made yet
  Life,          \* ticks a code is valid (30 minutes)
  MaxTime,       \* bound: ticks in a behaviour
  MaxLost,       \* bound: answers that do not arrive (timeout, broken connection)
  MaxCrashes,    \* bound: kills of a server
  MaxFaults      \* bound: ledger writes that fail (database is locked)

ASSUME CodesAssumption ==
  /\ NoServer \notin Servers /\ NoCode \notin Codes
  /\ IsFiniteSet(Calls)
  /\ Life \in Nat \ {0}
  /\ MaxTime \in Nat /\ MaxLost \in Nat /\ MaxCrashes \in Nat /\ MaxFaults \in Nat

VARIABLES
  now,           \* int(time.time())
  expiry,        \* expiry[c]: expires_at signed into code c, 0 until it is prepared
  ledger,        \* ledger[c]: state of c's row in mcp_closeout_codes, "none" without one
  pc,            \* pc[k]: program counter of call k, then its outcome
  code,          \* code[k]: the code it carries
  server,        \* server[k]: the process that runs it
  request,       \* request[k]: the HTTP request it made, seen at the backend
  written,       \* written[c]: rows of closeouts committed on behalf of code c
  lost,          \* lost[c]: answers to c's requests that did not arrive (history)
  purges,        \* purges[c]: times c's row was purged (history)
  stranded,      \* stranded[c]: a dead server or a failed write left c leased (history)
  crashes, faults

clock  == <<now, expiry>>
call   == <<pc, code, server>>
remote == <<request, written>>
hist   == <<lost, purges, stranded>>
budget == <<crashes, faults>>
vars   == <<clock, ledger, call, remote, hist, budget>>

\* Decoded and in time; holding the lease; waiting for the backend; it raised;
\* it answered.
Active   == {"decoded", "leased", "waiting", "failing", "answered"}
Outcomes == {"expired", "replayed", "failed", "closed", "error", "dead"}

Holding == Active \ {"decoded"}

Idle(m) == \A k \in Calls : server[k] = m => pc[k] \notin Active

To(k, label) == pc' = [pc EXCEPT ![k] = label]

-----------------------------------------------------------------------------
Tick ==
  /\ now < MaxTime
  /\ now' = now + 1
  /\ UNCHANGED <<expiry, ledger, call, remote, hist, budget>>

\* _prepare_closeout: the code is signed, the ledger does not hear of it.
Prepare(c) ==
  /\ expiry[c] = 0
  /\ expiry' = [expiry EXCEPT ![c] = now + Life]
  /\ UNCHANGED <<now, ledger, call, remote, hist, budget>>

\* _decode_closeout_code reads the clock.
Decode(k, c, m) ==
  /\ pc[k] = "new"
  /\ expiry[c] # 0
  /\ Idle(m)
  /\ code'   = [code EXCEPT ![k] = c]
  /\ server' = [server EXCEPT ![k] = m]
  /\ To(k, IF expiry[c] <= now THEN "expired" ELSE "decoded")
  /\ UNCHANGED <<clock, ledger, remote, hist, budget>>

\* Mutant: rows are purged a tick before their codes expire.
PurgedEarly == {c \in Codes : ledger[c] # "none" /\ expiry[c] <= now + 1}

\* DELETE ... WHERE expires_at <= now.
Purged == {c \in Codes : ledger[c] # "none" /\ expiry[c] <= now}

\* Mutant: only a consumed row refuses a second caller.
RefusedIfConsumed(c) == ledger[c] = "consumed" /\ c \notin Purged

Refused(c) == ledger[c] # "none" /\ c \notin Purged

\* acquire, one transaction that reads the clock again: a refusal rolls the
\* purge back.
Acquire(k) ==
  /\ pc[k] = "decoded"
  /\ IF Refused(code[k])
     THEN To(k, "replayed") /\ UNCHANGED <<ledger, purges>>
     ELSE /\ To(k, "leased")
          /\ ledger' = [c \in Codes |-> IF c = code[k]    THEN "leased"
                                        ELSE IF c \in Purged THEN "none" ELSE ledger[c]]
          /\ purges' = [c \in Codes |-> purges[c] + IF c \in Purged THEN 1 ELSE 0]
  /\ UNCHANGED <<clock, code, server, remote, lost, stranded, budget>>

AcquireFails(k) ==
  /\ pc[k] = "decoded"
  /\ faults < MaxFaults
  /\ faults' = faults + 1
  /\ To(k, "error")
  /\ UNCHANGED <<clock, ledger, code, server, remote, hist, crashes>>

-----------------------------------------------------------------------------
(* bridge.closeout: an HTTP request with httpx's five-second timeouts *)

Send(k) ==
  /\ pc[k] = "leased"
  /\ To(k, "waiting")
  /\ request' = [request EXCEPT ![k] = "sent"]
  /\ UNCHANGED <<clock, ledger, code, server, written, hist, budget>>

\* The backend could not be reached.
SendFails(k) ==
  /\ pc[k] = "leased"
  /\ To(k, "failing")
  /\ UNCHANGED <<clock, ledger, code, server, remote, hist, budget>>

\* store.closeout commits the row and the compact state in one transaction, and
\* nothing after the commit can raise.
Commit(k) ==
  /\ request[k] = "sent"
  /\ request' = [request EXCEPT ![k] = "committed"]
  /\ written' = [written EXCEPT ![code[k]] = @ + 1]
  /\ UNCHANGED <<clock, ledger, call, hist, budget>>

\* Authorization, validation or the transaction fails: nothing is written.
Refuse(k) ==
  /\ request[k] = "sent"
  /\ request' = [request EXCEPT ![k] = "refused"]
  /\ UNCHANGED <<clock, ledger, call, written, hist, budget>>

Receive(k) ==
  /\ pc[k] = "waiting"
  /\ \/ request[k] = "committed" /\ To(k, "answered")
     \/ request[k] = "refused"   /\ To(k, "failing")
  /\ UNCHANGED <<clock, ledger, code, server, remote, hist, budget>>

\* The server stops waiting, whether the backend is still at work on the request
\* or its answer is on the way.
LoseAnswer(k) ==
  /\ pc[k] = "waiting"
  /\ lost[code[k]] < MaxLost
  /\ lost' = [lost EXCEPT ![code[k]] = @ + 1]
  /\ To(k, "failing")
  /\ UNCHANGED <<clock, ledger, code, server, remote, purges, stranded, budget>>

-----------------------------------------------------------------------------
(* The end of _complete_closeout *)

\* Mutant: the lease is kept when the backend fails.
ReleaseForgotten(k) ==
  /\ pc[k] = "failing"
  /\ To(k, "failed")
  /\ UNCHANGED <<clock, ledger, code, server, remote, hist, budget>>

\* release: DELETE ... WHERE state='leased', whoever holds it.
Release(k) ==
  /\ pc[k] = "failing"
  /\ To(k, "failed")
  /\ ledger' = [ledger EXCEPT ![code[k]] = IF @ = "leased" THEN "none" ELSE @]
  /\ UNCHANGED <<clock, code, server, remote, hist, budget>>

\* Mutant: a state the table's CHECK does not know.
ConsumeMarksUsed(k) ==
  /\ pc[k] = "answered"
  /\ To(k, IF ledger[code[k]] = "leased" THEN "closed" ELSE "error")
  /\ ledger' = [ledger EXCEPT ![code[k]] = IF @ = "leased" THEN "used" ELSE @]
  /\ UNCHANGED <<clock, code, server, remote, hist, budget>>

\* consume: UPDATE ... WHERE state='leased' must meet a row.
Consume(k) ==
  /\ pc[k] = "answered"
  /\ To(k, IF ledger[code[k]] = "leased" THEN "closed" ELSE "error")
  /\ ledger' = [ledger EXCEPT ![code[k]] = IF @ = "leased" THEN "consumed" ELSE @]
  /\ UNCHANGED <<clock, code, server, remote, hist, budget>>

\* A failed release or consume leaves the row leased until it expires.
LedgerWriteFails(k) ==
  /\ pc[k] \in {"failing", "answered"}
  /\ faults < MaxFaults
  /\ faults' = faults + 1
  /\ stranded' = [stranded EXCEPT ![code[k]] = TRUE]
  /\ To(k, "error")
  /\ UNCHANGED <<clock, ledger, code, server, remote, lost, purges, crashes>>

\* A kill of the process.  The backend still handles what it was sent.
Crash(m) ==
  /\ crashes < MaxCrashes
  /\ ~Idle(m)
  /\ crashes' = crashes + 1
  /\ pc' = [k \in Calls |-> IF server[k] = m /\ pc[k] \in Active THEN "dead" ELSE pc[k]]
  /\ stranded' = [c \in Codes |->
       stranded[c] \/ \E k \in Calls : server[k] = m /\ code[k] = c /\ pc[k] \in Holding]
  /\ UNCHANGED <<clock, ledger, code, server, remote, lost, purges, faults>>

-----------------------------------------------------------------------------
(* Specification *)

Init ==
  /\ now = 0
  /\ expiry  = [c \in Codes |-> 0]
  /\ ledger  = [c \in Codes |-> "none"]
  /\ pc      = [k \in Calls |-> "new"]
  /\ code    = [k \in Calls |-> NoCode]
  /\ server  = [k \in Calls |-> NoServer]
  /\ request = [k \in Calls |-> "none"]
  /\ written = [c \in Codes |-> 0]
  /\ lost    = [c \in Codes |-> 0]
  /\ purges  = [c \in Codes |-> 0]
  /\ stranded = [c \in Codes |-> FALSE]
  /\ crashes = 0 /\ faults = 0

ServerStep(k) ==
  \/ Acquire(k) \/ Send(k) \/ Receive(k) \/ Release(k) \/ Consume(k)

BackendStep(k) == Commit(k) \/ Refuse(k)

Next ==
  \/ Tick
  \/ \E c \in Codes : Prepare(c)
  \/ \E k \in Calls : \/ \E c \in Codes, m \in Servers : Decode(k, c, m)
                      \/ ServerStep(k) \/ BackendStep(k)
                      \/ SendFails(k) \/ LoseAnswer(k)
                      \/ AcquireFails(k) \/ LedgerWriteFails(k)
  \/ \E m \in Servers : Crash(m)

Spec == Init /\ [][Next]_vars

\* A server runs the call it has begun and the backend handles what it receives.
FairSpec ==
  Spec /\ \A k \in Calls : WF_vars(ServerStep(k)) /\ WF_vars(BackendStep(k))

-----------------------------------------------------------------------------
(* Properties *)

\* Every variable has the values its declaration promises.
TypeOK ==
  /\ now \in 0 .. MaxTime
  /\ expiry \in [Codes -> Nat]
  /\ ledger \in [Codes -> {"none", "leased", "consumed"}]
  /\ pc \in [Calls -> {"new"} \cup Active \cup Outcomes]
  /\ code \in [Calls -> Codes \cup {NoCode}]
  /\ server \in [Calls -> Servers \cup {NoServer}]
  /\ request \in [Calls -> {"none", "sent", "committed", "refused"}]
  /\ written \in [Codes -> Nat]
  /\ lost \in [Codes -> 0 .. MaxLost]
  /\ purges \in [Codes -> Nat]
  /\ stranded \in [Codes -> BOOLEAN]
  /\ crashes \in 0 .. MaxCrashes
  /\ faults \in 0 .. MaxFaults

\* Crashes, retries, overlapping servers and failed ledger writes never write a
\* closeout twice: a second row is owed to an answer that did not arrive or to a
\* row purged at its expiry.
DuplicatesExplained == \A c \in Codes : written[c] <= 1 + lost[c] + purges[c]

\* The induction behind it.  A call may still free c's lease without a commit it
\* knows of, a request may still commit, an absent row admits one more call:
\* each of them, and each row written, is paid for by a term of the bound.
MayFree(c) ==
  {k \in Calls : /\ code[k] = c
                 /\ \/ pc[k] \in {"leased", "failing"}
                    \/ pc[k] = "waiting" /\ request[k] = "refused"}
MayCommit(c) == {k \in Calls : code[k] = c /\ request[k] = "sent"}
Admits(c) == IF ledger[c] = "none" THEN 1 ELSE 0

WritesPaidFor ==
  \A c \in Codes :
    written[c] + Cardinality(MayFree(c)) + Cardinality(MayCommit(c)) + Admits(c)
      <= 1 + lost[c] + purges[c]

\* A call carries a prepared code, sends its request after it took the lease and
\* has its answer from a commit.
CallsInOrder ==
  \A k \in Calls : /\ pc[k] = "new" <=> code[k] = NoCode
                   /\ code[k] \in Codes => expiry[code[k]] # 0
                   /\ pc[k] \in {"new", "decoded", "leased"} => request[k] = "none"
                   /\ pc[k] = "answered" => request[k] = "committed"

\* Once a client was told its session is closed the ledger refuses the code for
\* as long as the code is valid, through restarts and whatever other calls do.
ClosedIsRemembered ==
  \A k \in Calls : pc[k] = "closed" /\ now < expiry[code[k]] => ledger[code[k]] = "consumed"

\* A valid code is refused only when it was used, is in use, or was stranded: a
\* closeout the backend refused can be tried again.
RefusalHasReason ==
  [][\A k \in Calls :
       pc[k] = "decoded" /\ pc'[k] = "replayed" =>
         \/ written[code[k]] > 0
         \/ stranded[code[k]]
         \/ \E j \in Calls : code[j] = code[k] /\ pc[j] \in Holding]_vars

\* A lease does not outlive the call that took it, unless it was stranded.
LeaseIsReturned ==
  \A c \in Codes : ledger[c] = "leased" ~> ledger[c] # "leased" \/ stranded[c]

\* A code writes at most one closeout (docstring of CloseoutCodeState, and the
\* comment after the transaction in store.closeout).
OneCloseoutPerCode == \A c \in Codes : written[c] <= 1
=============================================================================
