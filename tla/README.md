# Formal model of Profile OS

TLA+ modules for the Profile OS server (`src/profile_os`, `src/life_mcp`), the
TLC configurations that check them on small instances, and theorems about them
checked by TLAPS.  Everything is translated from the Python source; the line
numbers below and in `PROJECT.json` are those of the repository.

    tlc -config pet_turns.cfg MCPetTurns       # a run
    tlapm PetTurnsProofs.tla                   # the proofs of a module

## 1. The system

Profile OS keeps the memory of AI companions.  A FastAPI backend (`api.py`) owns
one SQLite database and a directory of prompt files.  Its endpoints
are synchronous functions, so every request runs on a thread of the server's
pool, and `Store.db` gives every thread its own SQLite connection: two requests
interleave at every statement that is not inside one transaction, and a second
process over the same data directory interleaves in the same way.  An MCP
server (`mcp_server.py`) turns tool calls into HTTP requests to that backend; it
runs tool calls synchronously on its event loop, so one at a time.  A small
second service, Life MCP, serves snapshots read from files.

Client -> MCP server -> `ToolBridge` (HTTP) -> `api.py` -> stores -> SQLite.
Pet devices call the backend directly; their turns run on an executor inside the
backend and call OpenAI.

### 1.1 Components

| Component (source) | State | Operations | What is hard | Correct when | Here |
|---|---|---|---|---|---|
| Pet turn service (`pet_conversations.py`) | `pet_conversations`, `pet_turns` (stage, revision), `pet_turns.lock`, `running`, the executor's queue | create_conversation, submit, cancel, `_run`, start, stop | several processes on one database, threads of `submit`/`_run`/`stop`, shutdown that drops queued work, kills, repeated requests | one active turn in a conversation, one row per request, bounded queue, cancellation that stops work, every turn settles | `PetTurns`, `TurnContract` |
| Pet runtime (`pet_runtime.py`) | messages, round and tool counters, deadline of one run | `run`, `_checkpoint`, `_dispatch` | a check followed by a remote call, deadline, tool effects that cannot be undone | no effect after a stop but the one under way | its effects and its end in `PetTurns`; counters over-approximated |
| Pet devices (`pet_devices.py`) | `pet_devices`, a principal, a credential and grants for each | issue, authorize, revoke | revocation while a turn runs | a revoked device starts no work, a device reaches the profiles it was issued for | authorization in `PetTurns`, issue and revocation in `CompanionProfiles` |
| Pet HTTP routes (`pet_api.py`) | none | map requests and exceptions | - | - | no |
| Closeout codes (`mcp_server.py` 1046-1200) | `mcp_closeout_codes` on a persistent volume | prepare, acquire, release, consume | the answer of the backend may be lost after its commit, expiry, overlapping servers, kills | a code closes one session, a replay is refused, a refusal has a reason | `CloseoutCodes` |
| Session closeout (`storage.py` 862) | `closeouts`, `compact_state` | closeout, boot, recent_session_log | time stamp taken before the transaction | the compact state is the newest closeout | `ContinuityStore`; as the far end of a code, `CloseoutCodes` |
| Approvals and TOTP (`access.py`, `api.py` 1412-1560) | `access_pending_approvals`, `access_totp` | propose, decide, retract, expire, confirm and verify a code | every decision is read, check, write in different transactions, composed with a store or a project | a code decides once, a decision takes effect, what is approved is what was shown | `StoreApprovals`; project kinds in `SharedProjects`, other uses of codes in `RequestGate` |
| Dynamic stores (`dynstores.py`) | `dynamic_stores` (status, version), `dynamic_records`, `store_audit` | propose, approve, reject, archive, withdraw, update_pending, record operations, automatic approval | updates by id without a status test, read-merge-write of records, limits counted before the write | one open definition of a name, no lost patch, limits hold | definitions in `StoreApprovals`, records in `QuestionPractice` and `ContinuityStore` |
| Principals and grants (`access.py`) | `access_principals`, `access_credentials`, `access_grants`, `access_audit` | create, issue, revoke, grant, authenticate | profile limit checked before the creation | revocation takes effect, limits hold | `AgentEnrollment`, `CompanionProfiles` |
| Enrollment (`enroll.py`) | `access_invites` | mint_invite, enroll | principal, key and grant precede the consumption of the invite | an invite makes one principal | `AgentEnrollment` |
| Request authentication (`api.py` 404-560, `request_limits.py`) | nonce cache, session table, rate windows, all in memory | authenticate, login, limit | test before and store after a signature check, several threads | a signed request is accepted once | `RequestGate` |
| Question practice (`questions.py`) | `question_attempts`, two audit tables, weights in records | draw, grade, regrade, revise_answer | concurrent grades, statistics recomputed from a replay, an `UPDATE` outside a transaction block | every attempt is counted once, the replay equals the increments | `QuestionPractice` |
| Profile store (`storage.py`) | profiles, redirects, memories, messages, files | create, delete, prompts, remember, inbox | rows and files change in different steps | a deleted profile leaves nothing behind | `CompanionProfiles`, `ContinuityStore` |
| Profile-ID migration (`migrate_profile_id.py`, `scripts/migrate_profile_id.py`) | rows and a directory | migrate | a directory rename inside a database transaction | files and rows agree after a crash | `CompanionProfiles`, `SharedProjects` |
| Shared projects (`projects.py`) | `projects`, members, records, notifications | propose, approve, join, leave, delete | membership against deletion | no member of a deleted project | `SharedProjects` |
| MCP OAuth (`mcp_server.py` 900-1045) | codes in memory, client registry in a file | register, authorize, exchange | failed probes before the exchange that counts | a code is exchanged once | `AuthorizationServers`, `Grants` |
| Tool bridge, schemas (`bridge.py`, `tool_schemas.py`, `mcp_server.py` 1120-1830) | one call at a time | translate a tool call into a request | a time-out of a request that goes on, an answer that is lost, the model's retry | a retry leaves no more than its tries | `ToolCalls`: timeouts, lost answers, repeated calls |
| Life MCP (`life_mcp/`) | snapshot files, a pointer, a JSON state file | publish, load, OAuth | publishers in two processes, kills between two files | the files lead back to every snapshot that was current | its OAuth in `AuthorizationServers`, its snapshots in `LifeSnapshots` |
| Bootstrap, seeding, extraction | none of their own | one-shot commands | - | - | no: sequential, text parsing |
| Operations, pages, tests, docs | - | - | - | - | no |

`PROJECT.json` lists the hazards behind the column "what is hard", each at its
line, with the properties that answer for it or the reason why none does yet.

### 1.2 Shared facts the models rest on

* A `with self.db:` block, or `BEGIN IMMEDIATE` to `COMMIT`, is one step: SQLite
  serialises writers, and readers see whole transactions.
* A read outside the transaction that uses it is a step of its own; what it
  found lives on in the reader's program counter.
* A call of SQLite can fail without effect ("database is locked" after the busy
  timeout).  Where the caller does nothing with the failure but report it and
  holds nothing, the failed call is not a step of the model.
* A kill ends all threads of a process between any two steps; the kernel
  releases its `flock`, the database keeps what was committed.

## 2. Plan

| Order | Module | Question | State |
|---|---|---|---|
| 1 | `PetTurns`, `TurnContract` | durable turns: admission, cancellation, shutdown, recovery | done |
| 1p | `PetTurnsProofs`, `PetWorkProofs` | types, rows and the queue; work, late effects, orphans, and the refinement of `TurnContract` | done |
| 2 | `CloseoutCodes` | one-time codes against lost answers, expiry and crashes | done |
| 2p | `CloseoutCodesProofs` | types, duplicates are explained, closed codes are remembered, refusals have a reason | done |
| 3 | `StoreApprovals` | approvals, TOTP and dynamic stores composed: decide, retract, revise, expire, archive, automatic approval | done |
| 3p | `StoreApprovalsProofs` | types, a code decides once, one pending definition that can be decided, decisions take effect | done |
| 4 | `QuestionPractice` | attempts, grading, replayed weights, records written back whole | done |
| 5 | `AgentEnrollment`, `CompanionProfiles`, `SharedProjects` | invites, grants, the life of a profile, migrations, membership; composed | done |
| 6 | `ContinuityStore`, `ToolCalls` | closeout order, session assembly, files, prompts; tool calls with retries over it | done |
| 7 | `RequestGate`, `LifeSnapshots`, `AuthorizationServers`, `Grants` | nonces, codes, rate windows; two OAuth servers and what both promise; snapshots | done |
| 6p | `ToolCallsProofs` | all six properties of the companion's memory under tool calls | done |
| 7p | `AuthorizationServersProofs` | nonces, codes, windows, snapshots, and the refinement of `Grants` | done |
| 8p | `SharedProjectsProofs` | invites, limits, the life of a profile, membership: all six properties | done |
| 9p | `QuestionPracticeProofs` | keys, texts and replayed statistics of questions: all three properties | done |

Each module has one exhaustive run with the smallest instance in which two
actors and one fault meet, and a proof module when its main invariant is
inductive within reach.

## 3. Durable pet turns: `PetTurns`

### State

| Variable | Code |
|---|---|
| `convs`, `stage`, `revision` | the rows of `pet_conversations` and `pet_turns`; `"absent"` is no row |
| `auth` | whether a device's credential is unexpired and its device not revoked |
| `flock`, `proc` | the lock file; `_flock`, `running` and `_executor` of each process and where `start`/`stop` stand |
| `sub`, `arg`, `home` | a call of `submit`: where it stands, its arguments, its process |
| `job` | a call of `_run`, from the executor's queue to its end |
| `effects`, `late` | history: provider rounds and tool calls of a turn, and those made although the turn should have stopped |
| `crashes`, `dbFaults` | budgets |

A submission and the row it may create share an identity, as `submit` draws the
row's uuid.  Message text, reply, history and the conversation's attributes are
not tell-apart data and are left out, except through `Texts`, which stands for
the payload hash.

### Actions

* `SubmitBegin` is everything before `BEGIN IMMEDIATE`: ownership,
  authorization, the look-up of an earlier row, `running`.  `SubmitTransaction`
  is the transaction: the look-up again, the conversation's active turn, the
  queue cap, the insert.  `Dispatch`, `DispatchAfterStop` and `DispatchFailed`
  are the block under `_lock`.  `executor.submit` can raise after the work item
  was queued, when no thread can be started: then the handler marks the row
  unknown with the work item still in the queue, a state only `_run`'s first
  read protects from (`Dispatch`'s second disjunct).
* `Cancel` is `cancel`; its read and guarded update are merged, because the
  update tests the stage it read.
* `RunStart` ... `RunHandle` are `_run`, one step per database access, with the
  runtime's calls in between: a checkpoint, then perhaps an effect, then perhaps
  the end.  `RunEnds` lets `runtime.run` end in each way it can at any time, an
  over-approximation of its rounds.  A failed authorization check and the write
  that follows are one step: a lost authorization does not return.
* `Start` ... `Exit` are `start` and `stop`: the lock, the recovery
  transaction, `running`, `shutdown(cancel_futures=True, wait=True)`, the
  release of the lock, the interpreter waiting for handler threads.  A refused
  `start` is followed by `stop` because the lifespan's `finally` calls it.
* `Crash` is a kill.  `SubmitWriteFails`, `RunDbFails` and `RecoverFails` are
  calls of SQLite that fail, each with the handler that catches it.

Left out: profile grants that are re-issued to a device, branches that handle an
absent runtime (an admitted turn has one), `get_turn` and `get_request` (reads).

### Runs

| Run | Instance | Shows | Size |
|---|---|---|---|
| `pet_turns` | 1 process, 2 submissions, 2 conversations, 2 request ids, 2 workers, 2 effects, queue of 1 | `OneActiveTurn`, `QueueBounded`, `OneRowPerRequest`, `AtMostOneLateEffect`, `VerdictEndsWork`, `RepeatIsNotRefused` | 1.5 million states |
| `pet_ownership` | 2 processes, 1 kill, 1 failing SQLite call, 2 submissions to 1 conversation | `TypeOK`, `WorkersHoldLock`, `ImplementsContract` | 1.2 million |
| `pet_recovery` | 1 process, 1 kill, 2 devices with a conversation each, fairness | `NoOrphanedTurn`, `EveryTurnSettles` | 0.4 million |

The properties, in words: a conversation has at most one turn that is active or
unresolved; the database has at most `MaxPending` unfinished turns; a request is
stored once and a repeat of it is answered from its row; after a cancellation or
revocation at most one more effect happens; a verdict is final for the worker
too; turns are executed only under the lock, so a recovery never gives up a turn
someone is executing; a turn that nobody will finish does not exist while the
service is up, and every turn settles.  `ImplementsContract` is the refinement:
`TurnContract` says which stages may follow each other, that each change adds
one to the revision a client polls, and when a turn may be accepted.

Bounds.  Every race in the code is between two turns (admission), or between
one turn and cancellation, revocation, shutdown or a second process, so two
submissions are enough for the interleavings; `MaxPending = 1` puts the queue at
its limit with two submissions; two effects are one more than `AtMostOneLateEffect`
allows.  One kill and one failing call are enough for each handler to be hit
once, alone and together.  Submissions and processes are symmetric where the run
has no liveness property.

Fairness.  Weak fairness of every thread that can run, of the end of
`runtime.run` (it has a 90-second deadline and bounded tool calls) and of the
life cycle of the process: a service that is down is started again.  Nothing in
the repository starts it (`docker-compose.yml` sets no restart policy for the
backend, `ops/tamagochi/2026-10-17-deployment.md` restarts it by hand), so read
`EveryTurnSettles` as "provided the service comes back": a stop drops queued
turns whose rows only the next recovery ends.  No fairness on submissions,
cancellations, revocations, stops, kills or failing calls.

What the model also showed, and no property claims: `NoOrphanedTurn` and
`EveryTurnSettles` need one process and no failing call.  When a handler of
`_run` cannot write its verdict, or a killed process inserted its row after the
recovery of its successor, a row stays unfinished until the next restart; both
are listed as hazards.

### Proofs: `PetTurnsProofs`, `PetWorkProofs`

For any number of processes, submissions, conversations and devices and any
limits: `TypeCorrect`, `OneActiveTurnHolds`, `OneRowPerRequestHolds` and
`QueueBoundedHolds`.  From `ConstantsAssumption` only.

`TypeOK` is inductive.  The other three need to know that the turn whose row is
inserted did not have a row before, which the transaction does not test: the
lemma `RowAfterTransaction` (a submission that is new or checked has no row) is
the strengthening, itself proved by induction over all actions.  With it,
`OneActiveTurn` and `OneRowPerRequest` survive `SubmitTransaction` because the
transaction looks at exactly the rows that would conflict, and every other
action because stages only move among nonterminal ones or to terminal ones, no
row leaves a terminal stage, and arguments never change once a row exists.
`QueueBounded` counts: the set of unfinished turns grows by at most one
element, only in `SubmitTransaction`, and only below the limit; every other
action keeps it or shrinks it.

`PetWorkProofs` is about work.  None of its invariants is inductive alone; the
induction hypothesis `WorkInv` has five clauses, stated in `PetTurns`.

* `LockIsHeld`: a process that is starting, up, stopping or draining owns the
  lock file.  `WorkIsServed`: work belongs to such a process, and nothing is
  queued any more once the queue was cancelled.  Together they are
  `WorkersHoldLock`.
* `WorkFollowsDispatch`: work starts from a row that exists, once.
  `StageOfWork`: what the row may say at each place of the worker, which implies
  `VerdictEndsWork`.  It needs the lock: a recovery changes rows, and it meets no
  worker because no other process has the lock.
* `LateIsLast`: after a late effect the worker is not in front of another one,
  and from `running` its checkpoint refuses.  A cancellation is not undone and an
  authorization does not return, so that stays so: `AtMostOneLateEffect`.

`RepeatIsNotRefusedHolds` is about steps.  Only the transaction refuses as busy,
and it looks for a row of the same request first.

`ServiceImplementsContract` is the refinement, action by action: the stages,
arguments and revisions are those of `TurnContract`, with nothing hidden that the
mapping would have to invent.  `SubmitTransaction` maps to an acceptance and
needs `RowAfterTransaction`; the steps that write a row map to the change of
stage the contract allows from there, and need `StageOfWork` to know from which
stage they start; recovery changes several rows in one step; everything else
stutters.

`NoOrphanedTurnHolds` has the two hypotheses the property has in the run, one
process and no failing call of SQLite, and neither can be dropped: the hazards
at lines 76 and 247 are the states it would miss.

## 4. Closeout codes: `CloseoutCodes`

A companion's session is closed in two steps: `prepare` signs a code that
carries the text, `complete` sends it.  The ledger makes the code single-use:
`acquire` leases it, `consume` marks it used after the backend committed,
`release` frees it after a failure.

### State and actions

`now` is `int(time.time())`; `expiry` is what was signed into the code; `ledger`
is the table; `pc`, `code`, `server` are calls of `_complete_closeout`;
`request` is the HTTP request as the backend sees it; `written` counts the
closeouts committed for a code.  `lost`, `purges` and `stranded` are history.

`Decode` reads the clock; `Acquire` is one transaction that reads the clock
again, purges what has expired and inserts the lease (a refusal rolls the purge
back).  `Send`, `Commit`, `Refuse`, `Receive` and `LoseAnswer` are the request:
the backend's handler runs on a thread of the backend's pool and ends whether or
not the client, with the HTTP library's default five-second timeout, still
waits.  `Release`, `Consume` and `LedgerWriteFails` end the call.  `Crash` kills
a server: the lease stays, the request goes on.  A server runs one call at a
time (`Idle`), since the MCP endpoint runs tools on the event loop; two servers
over one ledger are an overlapping redeploy, for which the ledger is on a
persistent volume.

### Runs

| Run | Result | Shows |
|---|---|---|
| `closeout_codes` | pass | `TypeOK`, `DuplicatesExplained`, `ClosedIsRemembered`, `RefusalHasReason`, `LeaseIsReturned` |
| `closeout_lost_answer` | violation of `OneCloseoutPerCode` | a closeout whose answer is lost is written twice |

`closeout_codes` has three calls (a call, its retry and a late one), two
servers, one code that lives one tick, and two ticks, one lost answer, one kill
and one failing ledger write: three calls are needed for a release to hit the
lease of a successor while a third call waits.  Codes interact only through the
purge, which touches each row by itself.  Fairness is weak, of the steps of a
server and of the backend on what they have begun; none of retries, time or
losses.  The system may stop when its calls are used up, so deadlock is not
checked.

### Finding

`_complete_closeout` (line 1196) treats every exception of the HTTP call as a
failed write and releases the lease, also when the backend committed and only
the answer was lost.  A retry of the same code then writes a second closeout.
The docstring of `CloseoutCodeState` (line 1052) says a *failed backend write*
releases the lease, and the comment in `Store.closeout` (`storage.py` 889) names
a duplicate closeout as the thing to avoid.

What the model also showed: expiry is judged at line 1180 with one reading of
the clock, and rows are purged at line 1085 with a later one.  A replay that is
decoded in a code's last second and acquired in the next finds the consumed row
gone and is leased again.

`DuplicatesExplained` says these two are the only ways: the closeouts of a code
are at most one, plus one for each lost answer and each purge of its row.

### Proofs: `CloseoutCodesProofs`

For any number of servers, calls and codes: `TypeCorrect`,
`ClosedIsRememberedHolds`, `DuplicatesExplainedHolds` and the action property
`RefusalHasReasonHolds`, from `CodesAssumption`.

`DuplicatesExplained` is not inductive.  Its strengthening `WritesPaidFor` is a
potential: rows written, plus calls that may still free the lease without a
known commit, plus requests that may still commit, plus one when the row is
absent, are together at most `1 + lost + purges`.  Each action moves one unit of
it: `Acquire` turns an absent row into a call that may free it, `Send` adds a
request that may commit and removes the call from those that may free, `Commit`
turns a request into a row, a refusal turns the request back into a call that
may free the lease, and `Release` turns that into an absent row.  `LoseAnswer`
is the one step where both a request or a row and a call that may free the
lease exist: it is paid for by `lost`; a purge is paid for by `purges`.
Cardinalities are handled by three lemmas (kept, added, removed).
`ClosedIsRemembered` needs `CallsInOrder` (an answered call's request was
committed, a call carries a prepared code) and the observation that only an
`Acquire` after the expiry removes a consumed row.
`RefusalHasReason` follows from `RowsHaveReason`: a committed request was
written, a consumed row stands for a closeout, and a leased row for a closeout, a
stranded lease or a call that holds it.  `ReasonKept` is its core: of all steps
only `Release` and `Consume` take a reason away, and both end the leased row.

## 5. Approvals, codes and definitions: `StoreApprovals`

What a companion may not do alone waits as an approval for a human: a new
definition of a dynamic store, or an edit of its prompts.  A handler composes
three stores (approvals, definitions, prompts) without a transaction around
them, so the module is about what the pieces still guarantee together.

### State

| Variable | Code |
|---|---|
| `status`, `schema` | rows of `dynamic_stores`, by name and version; `"absent"` is no row |
| `appr`, `overdue` | `access_pending_approvals.status`, and whether `expires_at` has passed |
| `applied` | how much of an approved edit `update_prompts` and `update_closeout_rules` have written |
| `lastUsed` | `access_totp.last_used_counter` of the one admin |
| `pc`, `op`, `who`, `row`, `text`, `target`, `code`, `todo`, `cur` | a request: where it stands, what it asked, what it read |
| `stranded` | history: definitions whose approval went away with nobody to follow up |
| `crashes` | budget for kills and failing calls of SQLite |

An approval has the identity of the request that issued it: `row`, `text` and
`who` of that request are its payload and author.  A purpose and schema are one
value.  Only what the code tells apart is kept: audit rows, reasons, time
stamps and the permissions of the caller are left out.

### Actions

* `Submit`, `Administer`, `Decide`, `EditPrompt` begin the requests: POST,
  PATCH, DELETE of a store; approve, reject, archive by an admin; decide and
  retract; POST of a prompt.
* `SweepSelect`, `SweepMark`, `SweepClose`, `SweepCloseWrite` are
  `_expire_approvals`, which runs in front of some routes.  `ExpireAndForget`
  is the same expiry called inside `access.py`, where the list of what expired
  is dropped; it is part of the read that follows it, since both only look at
  approvals.
* `Get` ... `Retire` are `propose_store`, `update_pending_store` and
  `withdraw_pending_store` over `dynstores.py`: look-ups by name, the insert
  with its UNIQUE constraint, the update by id, the loop that retracts one link
  after the other.
* `Read`, `Verify`, `Fetch`, `Apply`, `Record`, `Settle` are `decide_approval`
  and `retract_approval`.  `Fetch` is the status test of `_approve_row`,
  `_reject_row` and `archive`, `Apply` their write, which does not test again.
  `WriteSections` and `WriteRules` apply an approved edit.
* `Crash` kills the backend, `DbFails` ends one request half-way: these routes
  have no handler for a failing call of SQLite.

Over-approximations: whether a code lies in the drift window of `verify_totp`
is left open, as is whether the budget of `_maybe_auto_approve` allows an
automatic approval (`Reread` may go to `Fetch`), and which of several live
links is found first.  The kinds `project_create` and
`project_join` are in `SharedProjects`.  Left out: enrolling and confirming an
authenticator (a local command; its `confirm_totp` writes `last_used_counter` without the guard that
`verify_totp` has), the deletion of a profile under a pending edit, records of a
store, and callers without authentication.

### Runs

| Run | Result | Shows |
|---|---|---|
| `store_approvals` | pass, 0.95 million states | `TypeOK`, `CodeDecidesOnce`, `PendingIsLatest`, `DecisionsTakeEffect`, `PendingIsDecidable` |
| `approvals_superseded` | violation of `ApprovedAsShown` | a link approves a schema it did not show |

`store_approvals` has four requests of any kind on one name with two versions,
two codes, one approval that comes due and one kill or failing call.  Four
requests are what two approvals and two decisions of them need, or a proposal,
its revision and two decisions.  Definitions of different names do not meet.
One person proposes: a second adds refusals by `who`, which change nothing.
The requests are used up in the end, so deadlock is not checked.

In words: a code approves one approval, however many threads present it; a name
has at most one pending definition, its newest; a decision on record has closed
its definition, or its edit is written or under way; a pending definition has a
pending approval or a request at work that will issue one or close it.  The last
has three exceptions, collected in `stranded` because the code has them: a
request that died, an expiry whose list was dropped
(`access.py` 411, 428, 455), and a retirement that failed because the link was
decided in between.

### Finding

A revision writes the schema (`api.py` 1525, 1587) before it retires the links
to the old one, and `decide_approval` approves by id whatever the row holds
(1455).  Between the two, and for good when the request dies there, the old link
approves a schema nobody was shown.  The comment at 1527-1529 says the order
"keeps an old link from approving a superseded schema".

What the model also showed, without a claim to hold it against: two decisions
of one approval can both pass the test at `access.py` 430, so an approval can be
recorded as approved whose definition ends rejected.

### Proofs: `StoreApprovalsProofs`

For any number of requests, people, names, schemas, versions, codes, expiries
and faults, from `ApprovalsAssumption`: `TypeCorrect`, `CodeDecidesOnceHolds`,
`PendingIsLatestHolds`, `DecisionsTakeEffectHolds`, `PendingIsDecidableHolds`.

* `CodeDecidesOnce` needs `ApproveTrail`: an approving request is past the
  verification only with a code that `lastUsed` has reached.  Since `Verify`
  asks for a larger one, it differs from all of those.
* `LinksInv` says that who issued an approval is done and that a request holds
  on only to issued approvals; so payloads do not change (`IssuedKept`).
* `PendingIsLatest` needs `Contiguous` (no gaps between versions), `InsertReady`
  (the version before the one to insert was seen closed, and stays so), and
  `WriteReady` (a write by id hits an existing row).  The insert is the only
  step that makes a row pending; the lower versions are closed, and a higher one
  would need this one to exist.
* `DecisionsTakeEffect` needs `DecisionAim`: a decision stays on the row of its
  approval and reaches the record only when that row is closed.
* `PendingIsDecidable` is an obligation that is handed on: a pending definition
  is owed a link by the request that inserted it, then has one, then is owed a
  closure by whoever took that link away.  `ErrandsKept` says that the requests
  on the way keep to their errand: a decision to the row of its approval, a
  revision to the links of the row it revises, a retraction to the row of the
  link it takes away.  A step that consumes a pending link leaves one request
  that owes, or puts the row into `stranded`.

The induction is stated over three kinds of step: those that leave the rows and
every request about to write alone, those that make one request ready to write,
and the three writes.

## 6. Question practice: `QuestionPractice`

Two companions practise the same exam questions.  A question is one JSON value
of a dynamic store: its answer key, its text and its statistics together.  Every
handler reads the value, changes it and writes all of it back.  Whoever holds
`records:write` may also insert a question or patch any field of one, key, status,
weight and counters included (`update_record`, dynstores.py 454:
`{**previous, **patch}`).  Nothing audits such a patch as a revision, clamps its
weight or recomputes the statistics.

### State

| Variable | Code |
|---|---|
| `rec` | the committed rows of `dynamic_records`; a weight is the exponent of a power of two |
| `audit` | the last row of `question_answer_audit` for each question |
| `att`, `order`, `overdue` | `question_attempts`, their order by `graded_at`, those whose `expires_at` has passed |
| `open` | the transaction an `UPDATE` outside `with self.db` left open, and whose it is |
| `pc`, `op`, `on`, `todo`, `seen`, `picked`, `sent`, `read` | a request thread: where it stands, what it was sent (selections, or fields of a record), what it read |
| `wanted`, `unaudited` | history: what was last written to each field (status, key, text) of a question, and the questions whose status or key was last set without an audit row |
| `disturbed`, `clobbered` | history: questions whose statistics were spoiled, and fields that a write based on an outdated read set back |

A `text` stands for the source content of a question with the key extracted from
it (`Extracted`); `"conflict"` for every `answer_status` that is neither scored nor
the work of a revision.

What a thread reads is `View(t)`: the committed rows, and over them what its own
connection has open.  `Commit` writes both, since a commit ends the open
transaction as well; `Rollback`, `ThreadEnds` and `Crash` drop it; `Busy` is the
five-second wait that ends in "database is locked" while somebody else has one.

### Actions

`Draw`, `Lookup` (`grade`, `regrade` and the three revisions), `Expire`,
`Prepare`, `WriteGrade`, `WriteRegrade` are the attempts; the check of the
attempt's status is a step before the write.  `GradeFails` is the grading that is
rolled back since the key names an option the question does not have, which a
patch can bring about.  `WriteRevision`, `RecomputeRow`,
`RecomputeAttempts`, `RecomputeUpdate` are `revise_answer` and the
`_recompute_stats` that follows its transaction: the last is the `UPDATE` nobody
commits.  `Patch` and `Import` read records and `WriteRecords` writes them back with
what was sent; an import also adds what it did not find, with the status
`"conflict"` where two files disagree.  `Insert` is `add_record` and `add_records`,
with any fields; `Delete` removes one.  `Replay` is `_recompute_stats` as a recursive function; `Scored`
is the one increment of `_apply_grade`.

### Runs

| Run | Result | Shows |
|---|---|---|
| `question_practice` | pass | `TypeOK`, `StatsReplayHistory`, `LastWriteIsKept` |
| `practice_shared` | violation of `RevisionsAreShared` | a finished revision is seen by one thread only |

Two threads, one question, two attempts, four requests, one overdue attempt, one
kill: 1.3 million states.  Questions meet only inside one attempt's transaction;
two attempts are what a grade and a regrade, or two grades, need, and the fourth
request is the one that comes to a record a revision left open.  Two edits stand
for all patches: one sets the key and a weight below the bounds, the other the
text and the status.  Weights in bounds run over three values, so both clamps are
reached, and are powers of two here, while the code takes any number.  Threads, and attempts, are interchangeable
(`SYMMETRY`).  Requests are used up, so deadlock is not checked.

In words: statistics that were added up one grading at a time are those a replay
of the graded attempts gives (`Recomputed` over `AnswersTo`); status, key and text
of a question are as last written, whoever wrote them; and status and key are
those of the last audited revision.  The exceptions are on record:

* `clobbered` grows only where a handler writes back a field it read before
  somebody else's commit;
* `disturbed` grows there too, where a late expiry hits a graded attempt, where a
  revision is interrupted, and where a patch or an insertion sets status, key or
  statistics by hand, since `update_record` recomputes nothing.  A regrade, or a
  revision that is committed undisturbed, takes a question out again: the property
  is about recovery too;
* `unaudited` grows where a patch sets status or key: the record then has a key
  that `question_answer_audit` does not tell.  The next revision takes the question
  out.

So a weight may lie outside of 0.25 and 64 (one that is not positive is not drawn),
and comes back between them with the next answer that is halved, or with a
recomputation; no bound on weights is claimed.

### Finding

`revise_answer` (line 657) recomputes the statistics after its transaction,
outside any; the `UPDATE` (line 690) opens a transaction on the connection of
the thread and nothing commits it.  Other threads see the old statistics, their
writes fail with "database is locked", and the update is lost if the thread ends
first.  The test at `tests/test_questions.py` 258 says both companions see the
same after a revision; it uses one thread.

### Proofs: `QuestionPracticeProofs`

For any number of threads, questions, attempts, keys, texts and requests, from
`PracticeAssumption` (the weights are ordered, extracted keys are keys) and
`PatchesAssumption` (a patch sets fields of a record to values they may hold):
`TypeCorrect`, `LastWriteIsKeptHolds`, `StatsReplayHistoryHolds`.

* `Replay` (a replay of answers) and `Kept` (the part of a sequence that is in a
  set) are recursive functions.  `NatSetInduction` and `SeqSetInduction` give
  induction in set form, from the least element that `WFMin` finds in the
  complement; with it such a function exists, is unique (`ReplayExists`,
  `ReplayUnique`), and goes on where the shorter one ended: `ReplayMore`,
  `KeptMore`.  So the induction over the data is proved, not assumed.
* `AnswersSame` and `AnswersMore` say what a step does to the answers of a
  question: an attempt that counts neither before nor after changes nothing, one
  that is graded for the first time adds its answer at the end, although it
  moves from wherever it stood in `order` (`MovedKeeps`, by `KeptKept`).
* `Sound` is `TypeOK` and `OnKnown` (a request is about an attempt that exists).
* `BornInv`: what was read, drawn or revised is or was on file.  A question that
  an import or an insertion creates has therefore no answers to replay yet.
* `CarryInv` is `LastWriteIsKept` for the committed rows and for the row an open
  transaction will write, with the excuses that its commit will add.  `StoreIs`
  says what the three writers of fields (`WriteRevision`, `WriteRecords`, `Insert`)
  have in common: each field of a record is what the request sets, or what it had
  read.
* `StatsInv` is `StatsReplayHistory` in the same way: the open row replays the
  history if it was computed from what is still there (`fresh`).  `ViewReplays`
  joins both: what the connection of a writer sees replays the history unless
  `Disturbed` says otherwise.  The step of a grading is `GradeReplays`: what was
  read is what is seen, so one more `Scored` is one more answer replayed.

`EffectIs` sorts the steps into those that touch no row, those that drop what a
connection had open, the recomputation, and the writers (`Writes`), which need
the only transaction and leave none (`WriterIs`); so each invariant has one
lemma per writer.

## 7. Agents, profiles, projects: `AgentEnrollment`, `CompanionProfiles`, `SharedProjects`

Three modules, each extending the one before: a request of any of them runs on
the same threads (`job`), and a step of a profile that changes `row` takes the
foreign keys of the projects with it (`Cascade`).

### State

| Variable | Code |
|---|---|
| `principals`, `keys`, `grants`, `invites` | the tables of `access.py`; `invites` by status |
| `row`, `files`, `data`, `redirects` | `profiles`, the prompt files of an id, ids with dynamic stores, `profile_id_redirects` |
| `devices` | unrevoked rows of `pet_devices`, with the profiles each was issued for |
| `proj`, `creator`, `members`, `noted`, `asks` | `projects`, `project_members`, the admin notification, the pending approvals of projects |
| `job` | what each thread has still to do |
| `told`, `lives`, `owned` | history: enrollments answered, profiles registered so far (`row` holds which one), creations answered |
| `hurried`, `torn`, `contested`, `unseen` | history: creations that overlapped, ids with an interrupted or overtaken request, projects with a removal and another change at once, projects emptied without a message |

`row[p]` says *which* profile of the id is registered; the code has no such
number and compares ids only, so grants, rows of stores and devices carry it as
history (`life`), and so do prompt files that are complete.

### Actions

* `AskEnroll` ... `ConsumeInvite` are `enroll`: principal, key, grant and the
  consumption of the invite, each in its own transaction, with the invite last.
* `AskCreate` ... `GrantOwner` are `create_profile` (API and store): the count of
  owned profiles, the row, the files, the owner grants one by one; `Unregister`
  and `Discard` compensate a failing file.  `AskDelete` ... `RevokeAll` are
  `delete_profile`: data, row, files, grants.
* `AskDevice` looks the profiles of a device up, `IssueDevice` is the
  transaction that makes its principal, credential and grants; `RevokeDevice`
  leaves the grants.  `access_grants` has no foreign key on profiles, so a
  device can be issued for a profile that was deleted in between.
* `MoveFiles` and what follows are the two offline programs.  Both rename the
  directory inside a transaction that is not yet committed: `Commit`, or
  compensation by a rename back, or a kill in between.  They differ:
  `profile_os/migrate_profile_id.py` retires the old id with a redirect and
  rewrites ids inside payloads, `scripts/migrate_profile_id.py` does neither
  (`Dangles`, and `named` in `Cascade`).
  Neither runs while a request is at work (`Offline`).
* `ProposeProject` ... `DropProject` are the projects with their approvals;
  `Activate`, `Enter`, `Reject`, `DropProject` write by id what an earlier read
  found.
* `Interrupted` ends one request or all: a failing call of SQLite, or a kill.

### Run

`shared_projects`: `TypeOK`, `InviteAdmitsOne`, `LimitNeedsOverlap`,
`NothingOutlivesProfile`, `EmptyProjectIsNoticed`, `MembersAreNotEvicted`; 0.59
million states.  Two threads, two profile ids (each may exist at the start with
an owner of its own), four agents and the admin, one invite, one key, one
project that is active or not yet proposed, three requests, one interruption;
`MaxProfiles` is 1 so that the first creation reaches the limit.  Three requests
are a creation, a deletion and a second creation of the same id, or two
decisions and a departure.

In words: an invite enrolls one agent, though the losing request leaves a
principal with a key and a grant nobody was told of; more profiles than the limit
need two creations at once; when nothing is under way, a profile has all its files
and all owner grants, its devices have their grants, also under a new id, and no
prompt file, store row or grant under its id is of an earlier profile; a project that
its last member left has a message for the admin; and members are removed with a
project only if their admission overlapped the removal.  The exceptions are what
the code allows: two requests on one id, an interruption, a deleted profile that
was the last member (the foreign key removes it, nobody is told).

`NothingOutlivesProfile` is about prompt files, rows of dynamic stores and grants.
`delete_profile` (api.py 888-899, storage.py 438-452, dynstores.py 618-624) deletes
no more than these and the memory, closeout and message rows; under the id stay the
pending approvals (a request to join a project survives in `asks`, and may be
decided for a later profile of the id), `created_by` of the projects it proposed
(`creator`), `pet_conversations` with their turns, `question_attempts` and the two
audits.  A later profile of the id finds them.  That is what the code does, and no
property claims otherwise.  Two simplifications: `rmtree(ignore_errors=True)` may
leave files without an error, which the model does not (its removals succeed or
the request breaks off before them); and `pet_devices.authorize` (line 124) refuses
a device for every id outside the constant `PET_PROFILES`, so that a grant that
follows its profile to another id opens something only under those.

### Proofs: `SharedProjectsProofs`

For any number of threads, agents, profiles, invites, keys, devices, projects,
requests and interruptions: `TypeCorrect`, `InviteAdmitsOneHolds`,
`LimitNeedsOverlapHolds`, `NothingOutlivesProfileHolds`,
`EmptyProjectIsNoticedHolds`, `MembersAreNotEvictedHolds`.  The assumptions are
`AccessAssumption`, `ProfilesAssumption` (the profiles at the start are finitely
many, and no founder owns more than `MaxProfiles` of them) and
`ProjectsAssumption`.

* `Sound` is `TypeOK`, `MovesAlone` (a migration has the threads to itself and
  goes to a free id) and `OneIdEach` (a life of a profile belongs to one id).
* `AdmitInv`: an enrollment that was answered has used its invite, and has its
  principal, key and creating grant, and no other was answered for that invite;
  one on the way has those its stage says (`EnrolledAt`).
* `LimitInv` counts: an agent whose creations did not overlap has one creation
  at a time, and fewer profiles than the limit from its count to its first grant
  (`CountAt`); the admin owns none (`AdminOwnsNone`).
* `LastsInv`: the life that a request for a device or for owner grants carries is
  registered under its own id or not at all (`LivesFound`), and for each id that
  nothing tore, `KeptAt` says what holds halfway through its creation or
  deletion (`MidwayAt`), of its grants (`GrantsAt`, `OwnersAt`), its devices and
  its files.
* `EmptyProjectIsNoticed` and `MembersAreNotEvicted` are inductive for each
  project by itself once it is said who still owes the message (`NoticedAt`),
  and that members belong to active projects and a removal that meets members,
  or an admission past its look, is contested (`EvictAt`).

## 8. A companion's memory, and tool calls upon it: `ContinuityStore`, `ToolCalls`

### State

| Variable | Code |
|---|---|
| `closeouts`, `legacy`, `state`, `clock` | `closeouts` by `created_at`, the older session log, the closeout `compact_state` was written by, `time.time()` |
| `notes`, `made`, `read`, `copies` | `memory_events`, `messages.read_at`, rows inserted, by tool call |
| `lane`, `row` | the installed `thread_continuity` store and its row of one source |
| `sheet`, `prompts`, `snapshots` | a JSON file of the companion, the prompt sections, `.prompt_versions` |
| `packet` | the last session answered, with what each read found |
| `job` | a request thread: call, stage, what it has read, for which tool call |
| `calls`, `waiting` | tool calls of a model with their tries and answers, the thread whose answer the gateway waits for |
| `met`, `meant`, `good`, `spoiled`, `passed`, `alone` (in `calls`) | history, for the exceptions of the properties |

A closeout is its `created_at`; a file is its fields, or `Torn`, or `Gone`.

### Actions

`AskCloseout` takes the time stamp, `FileCloseout` is the transaction: the older
log is absorbed, the closeout inserted, the handoff replaced.  `AskSession` ...
`ReadOlderLog` assemble a session in as many reads as the code: handoff, one file
per section, the list of stores (which installs `thread_continuity`; so do the
two tools marked read-only that lead here), the closeouts, the older log.
`Remember`, `UpdateMemory`, `Forget`, `InsertCopy`, `MarkLetters`, `InsertRow`
... `DeleteRow` are single writes with the look-ups around them; `InsertRow` is
the upsert that the unique index turns into an update.  `OpenFile` and `FillFile`
are `write_bytes`, which empties a file before it fills it; `Snapshot` and
`WriteSection` are `update_prompts`.  `Interrupt` is a failing call or a kill.

In `ToolCalls`, `Call` starts the request of a tool, `Deliver` brings its answer,
`LoseAnswer` and `GiveUp` are a broken connection and the bridge's timeout, after
which the request goes on; `Retry` is the same call again, and `DropAnswer` the
end of a request nobody waits for.  `Direct` are other clients.  The gateway
waits for one request at a time (`Free`) because the endpoint runs a tool call
synchronously on its event loop.

Abstractions: one companion; entries of the older log are older than any
closeout; rows of it that do not parse, and the copy of a closeout in a `.jsonl`
file, are left out; a closeout through a code is in `CloseoutCodes`; tools that
read one table are left out.

### Run

`tool_calls`: `TypeOK`, `HandoffIsNewest`, `LogShowsOnce`, `PromptsAreWhole`,
`RetriesAreSafe`.  Two threads, two fields, two sections, two
letters, two rows of the older log with a session shown two, three requests, one
fault, two tool calls with two tries.  Every hazard is between two requests; the
third is the session, or the retry, that sees the outcome.  The tools of each
side are those of `MCToolCalls`.

In words: the handoff is that of the newest closeout, unless that one overlapped
another (`created_at` is taken before the transaction); a session shows no entry
twice and lacks one only if a closeout absorbed the older log between its two
reads; what the last finished prompt edit left is in place or in a snapshot, also after a kill;
and a repeated tool call leaves at most one row per try, and the state it set
when it was answered, however late the first try is done.  Edits of a file are kept
unless two overlapped or one broke off (`EditsAreKept`): the race on the sheet is
what that excuses, so it is left to the proof and is not among the run's properties.

### Proofs: `ToolCallsProofs`

These five and `EditsAreKept`, for any number of threads, fields, sections, letters, values,
calls, tries and faults, and any sets of tools.  `CallsAssumption` asks that the
calls carry what the request bodies of `api.py` (lines 96-148) check: `Conforms`.

Every proof uses `JobsOK`: a request is at a stage of its tool (`Fits`).  The
steps are sorted once by what they touch (`LogStep`, `SessionStep`, `NoteStep`,
`RowStep`, `SheetStep`, `PromptStep`), so an invariant of one part meets the other
parts in a single lemma each.

* `HandoffIsNewest`, by `LogInv`: a closeout that met no other (`YoungestAlone`)
  is the only one being filed and younger than all that were, so filing it makes
  its text that of the newest.
* `LogShowsOnce`, by `SessionInv`: between its two reads a session holds
  closeouts that were the newest of all that, with the older log, make up the
  past (`TwoReads`), unless one was filed since.  The second read then tops up
  from rows that are older than all of these.
* `PromptsAreWhole`, by `EditInv` and `ShownInv`: while edits do not overlap, the
  good text is in a snapshot before the first section is replaced, is in place
  when no edit is at work, and a session that no edit met has read its sections.
* `EditsAreKept`, by `SheetInv`: while the sheet is not spoiled one request at
  most is at it, and at each of its stages what it has read and will write is
  what the sheet should become.
* `RetriesAreSafe`, first half, by `BudgetInv`: the rows of a call and the
  requests that are about to insert one more are together at most its tries; a
  try adds one to both sides, an insert moves one.  Second half, by `RetryInv`:
  while nobody else calls upon the same thing, all requests upon it are tries of
  the last call, so each of them leaves the same state (`LastAlone`), and when
  one was answered without an error that state is there (`Done`).  `Checked` says
  what a request knows between its look-up and its write.

## 9. Gate and authorization servers: `RequestGate`, `AuthorizationServers`, `Grants`, `LifeSnapshots`

`RequestGate` is the backend's authentication: nonces of signed requests and
forms behind a rate limiter that a code of the authenticator opens.
`AuthorizationServers` has both OAuth servers of the repository; `kind` says
which one runs.  `"mcp"` asks the gate for consent and keeps its codes in memory,
its clients in memory and a file; `"life"` keeps both in one JSON file that it
reads and writes in every operation.  The gate runs next to `"mcp"` only.
`LifeSnapshots` is the publication of what the life service serves, and runs next
to `"life"` only.

### State and actions

`cache`, `hits`, `used` are `_nonce_cache`, the rate windows and
`last_used_counter`; `work` is what a thread of the backend does.  `clients`,
`codes`, `saved`, `forms` are the registries, the file and the forms that await
the backend.  The rest is history: how often a nonce was `accepted` and which are
`excused` (tested by two at once, or before a restart), what each code `opened`,
which attempts went `through`, in which `run` of the backend, and at which doors
two were counted at once (`crowded`); clients `told`, codes `issued`, `tokens` handed out, `boots`, and
`troubled` when the registry failed once.

`Arrive` tests time and nonce, `StoreNonce` stores it after the signature was
verified, `Sweep` drops stale ones and may fail when another thread stored or
dropped one meanwhile (`SweepFails`).  `Ask` and `CountHit` read and replace the hits of a pooled
handler; `AskUnlock` counts in one step, since the pages' forms run on the event
loop; `AskInspect` has no limiter.  `CheckCode` is `verify_totp`.  `AskConsent`
... `NotConsented` are the consent form around a request to the gate; `GiveUp` is
its five-second timeout, after which the request goes on for nobody.
`RedeemMcp` keeps a code that a wrong exchange presents, `RedeemLife` takes it
first.  `RestartServer` and `RestartBackend` lose what is in memory.

`current` is `current.json`, `versions` the files of `snapshots/`, each by the
previous snapshot it names; `pub` says where each publishing process stands.
`LoadCurrent`, `FindVersion`, `WriteVersion`, `WriteCurrent` are `publish` with
the replacements of the two files apart; `Quit` is a kill between them.  The
lock of `SnapshotStore` lives in one process, so two commands interleave.

A list of hits is a set here: an attempt is its time and how many came before it
in the same tick (`Attempt`), so that two in one tick are two, as in the list.

### Run and refinement

`authorization_servers`: `TypeOK`, `GateHolds`, `AttemptsBounded`, `HistoryIsKept`
and the refinement `KeepsPromise`; 1.35 million states.  Two threads, two publishers of three snapshots, two clients, two nonces, two codes, one form, three
requests, one fault.  Skew, drift, window and the life of a code are one tick
each and the clock has three, so everything can expire, and a nonce can be
replayed at the edge of twice the skew.

`GateHolds` has two parts.  A signed request is accepted once, unless excused;
and a code of the authenticator opens one thing, and no more authorization codes are
issued than it opened.

`AttemptsBounded` is about the limiters: through a door, the attempts let in within
one window are at most the limit for each run of the backend that let one in there.
The manual promises a rate outright ("5/min per IP", ACCESS_CONTROL.md 117 and 149);
the code does less, in two ways.  The lists of hits are in memory (api.py 404-414),
so a restart starts the count anew, and up to the limit pass again in the same
window for each restart; the history `through` is kept through restarts, so those
attempts are counted here.  And a handler of the thread pool reads the list in one
step and replaces it in another, so attempts counted at the same time are counted
once: nothing is promised for a door where that happened (`crowded`).

`Grants` is what a client may rely on: a code
is granted to a client the server knows, is worth one token while it lives, and
survives a failed exchange unless the server burns codes; a client that was told
its id stays known across restarts unless the registry file failed.
`KeepsPromise` says both servers implement it, with the codes alive now as its
`live`.

`HistoryIsKept`: whoever is killed or overtaken, the current snapshot and every
previous one that a file names have their files; and the files lead from the
current snapshot back to all that were ever current.  The latter has an exception
(`unlinked`): a publication overtook another, published a snapshot whose file is
there already and names another predecessor (A, B, then A again: `publish` writes
a new `current.json` but keeps the file of A), or replaced a file that a
publisher in another process had written after this one looked for it.  The third
case came out of the proof: a fourth publication is needed to reach it, one more
than the run has.

### Proofs: `AuthorizationServersProofs`

`TypeOK`, `GateHolds`, `AttemptsBounded`, `HistoryIsKept` and the refinement
`KeepsPromise`, for any
number of threads, forms, clients, codes, nonces, doors' limits, publishers and
snapshots and any length of skew, window and code life, from `GateAssumption`,
`ServersAssumption` and `SnapshotsAssumption`.  `ServersInv` is a conjunction of
parts that are inductive given the types:

* `NonceInv`: a nonce that is not excused is accepted once at most, and from the
  moment it is stored no copy is past the test, and none will pass: the nonce is
  in the cache or its time stamp too old.  That is where twice the skew is
  needed.
* `OpenInv`: no code at or below `used` can open (`OnceEach`); and the
  authorization codes issued, with the consents allowed and not yet taken, are at
  most as many as the codes that opened something (`OwnOpening`), a count that
  moves a unit from the gate to the consent to the code.
* `HitsInv`: at a door that is not crowded one request at a time is counted, the
  hits hold every recent attempt that was let through in this run, what the request
  has read holds those before it, so no window holds more of one run than the limit
  (`DoorKept`); `AttemptsBounded` adds up the runs.
* `AwaitInv`: every form that waits has one request at the backend, and no
  request waits for a form that is not there.
* `SnapInv`: `FilesInv`, the file of a snapshot is there before anything names
  it; and `LinksInv`, while nothing is `unlinked`: every set of snapshots that is
  closed under "previous" and has the current one has all that were ever current.

`ServersKeepPromise` maps each step to one of `Grants` or to a stutter, with the
live codes as its `live`: time passing lets codes lapse there, a restart drops
them.  It adds `PromiseInv`: a code in memory was not redeemed, one that was not
issued neither; forms that wait are of known clients, since clients are never
forgotten while the service is up; the registry file is what memory holds,
unless it failed once.

## 10. Proved, checked, and out of reach

| | Proved for all constants | Checked by TLC on the instances |
|---|---|---|
| `PetTurns` | `TypeOK`, `OneActiveTurn`, `OneRowPerRequest`, `QueueBounded`, `AtMostOneLateEffect`, `VerdictEndsWork`, `WorkersHoldLock`, `RepeatIsNotRefused`, `ImplementsContract`; `NoOrphanedTurn` for one process without failing calls | these, and `EveryTurnSettles` |
| `CloseoutCodes` | `TypeOK`, `DuplicatesExplained`, `ClosedIsRemembered`, `RefusalHasReason` | these, and `LeaseIsReturned` |
| `StoreApprovals` | `TypeOK`, `CodeDecidesOnce`, `PendingIsLatest`, `DecisionsTakeEffect`, `PendingIsDecidable` | these |
| `QuestionPractice` | `TypeOK`, `StatsReplayHistory`, `LastWriteIsKept` | these, and `RevisionsAreShared` is refuted |
| `SharedProjects` and the modules it extends | `TypeOK`, `InviteAdmitsOne`, `LimitNeedsOverlap`, `NothingOutlivesProfile`, `EmptyProjectIsNoticed`, `MembersAreNotEvicted` | these |
| `ToolCalls`, `ContinuityStore` | `TypeOK`, `HandoffIsNewest`, `LogShowsOnce`, `EditsAreKept`, `PromptsAreWhole`, `RetriesAreSafe` | these but `EditsAreKept` |
| `AuthorizationServers`, `RequestGate`, `LifeSnapshots` | `TypeOK`, `GateHolds`, `AttemptsBounded`, `HistoryIsKept`, `KeepsPromise` | these |

Liveness (`EveryTurnSettles`, `LeaseIsReturned`) stays with TLC: the prover does
not reason about `ENABLED` or fairness.  Every safety invariant and action
property of a passing run is proved, with the one restriction on `NoOrphanedTurn`.

Each property of a passing run has a mutant in `PROJECT.json`: a definition of
the model changed the way a slip in the code would change it (a purge one tick
early, a cap off by one, a checkpoint that does not read the row), under which
TLC finds that property violated.  The mutated forms stand next to the
definitions they replace, marked "Mutant".

## 11. Not modelled

* Session cookies and the signatures of access tokens: computed from the request,
  no state.  The request size limit and the read-only mode are guards without
  state.
* Edits of routing metadata and of descriptions: one row each.  The former reads
  the row and writes both fields back, the race that `Patch` of
  `QuestionPractice` has for records.
* Records and messages inside a project, domain records, the validation of
  schemas, queries, searches and weighted draws: single inserts, or reads.
* The pet runtime's counting of rounds, tool calls and seconds: `PetTurns` lets a
  run end at any time, which covers every count.
* Pet HTTP routes, bootstrap, seeding, extraction, operations, pages: adapters
  and one-shot tools without state of their own.
