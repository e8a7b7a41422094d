------------------------------ MODULE RequestGate ------------------------------
(***************************************************************************)
(* The doors of the backend (profile_os/api.py, profile_os/access.py):     *)
(* signed requests with their nonces, and the forms that are opened with a *)
(* code of the administrator's authenticator, behind a rate limiter.       *)
(*                                                                         *)
(* work[t] is what thread t does with one request.  A handler of the       *)
(* thread pool can be interrupted anywhere by another: the nonce is tested *)
(* in one step and stored in a later one, and so are the hits counted.     *)
(***************************************************************************)
EXTENDS Integers, FiniteSets

CONSTANTS
  Threads,        \* threads of the backend
  Nonces,         \* signed requests, by nonce
  Nobody,         \* the client of a request that nobody waits for
  Skew,           \* SIGNATURE_SKEW_SECONDS
  Drift,          \* the drift of an authenticator, in codes
  Window, Limit,  \* of the rate limiters
  MaxClock,       \* bound: time
  MaxReqs,        \* bound: requests
  MaxFaults       \* bound: restarts, failures of files, timeouts

ASSUME GateAssumption ==
  /\ {Skew, Drift, MaxReqs, MaxFaults} \subseteq Nat
  /\ {Window, Limit, MaxClock} \subseteq Nat \ {0}

VARIABLES
  clock,          \* time.time(), and the code an authenticator shows
  stamp,          \* the timestamp each signed request carries
  cache,          \* _nonce_cache
  used,           \* access_totp.last_used_counter
  hits,           \* _verify_hits and _settings_hits
  work,           \* what each thread is doing
  accepted,       \* history: how often each signed request was accepted
  excused,        \* history: nonces tested by two at a time, or before a restart
  opened,         \* history: what each code of the authenticator opened
  run,            \* history: how often the backend was restarted
  through,        \* history: attempts the limiter let through, in any run
  crowded,        \* history: doors where two attempts were counted at a time
  reqs, faults    \* budgets

nonceVars == <<stamp, cache, accepted, excused>>
totpVars  == <<used, hits, opened, run, through, crowded>>
gateVars  == <<clock, nonceVars, totpVars, work, reqs, faults>>

-----------------------------------------------------------------------------
Nothing == [at |-> "idle"]
Idle(t) == work[t] = Nothing
At(t, s) == work[t].at = s

Begin(t, job) ==
  /\ Idle(t) /\ reqs < MaxReqs
  /\ reqs' = reqs + 1
  /\ work' = [work EXCEPT ![t] = job]

\* An answer somebody waits for is kept until it is taken.
Answer(t, ok) ==
  work' = [work EXCEPT ![t] =
             IF @.for = Nobody THEN Nothing ELSE [at |-> "replied", for |-> @.for, ok |-> ok]]

-----------------------------------------------------------------------------
(* Signed requests: _check_signature *)

InSkew(ts) == ts \in clock - Skew .. clock + Skew

Unsigned == 0

\* The timestamp and the nonce are tested; refusals change nothing.  The first
\* copy of a request fixes its timestamp.
Arrive(t, n) ==
  /\ stamp' \in {[stamp EXCEPT ![n] = ts] :
                  ts \in IF stamp[n] = Unsigned THEN 1 .. MaxClock ELSE {stamp[n]}}
  /\ InSkew(stamp'[n]) /\ n \notin DOMAIN cache
  /\ Begin(t, [at |-> "verify", nonce |-> n, now |-> clock, moved |-> FALSE])
  /\ excused' = IF \E u \in Threads : At(u, "verify") /\ work[u].nonce = n
                THEN excused \cup {n} ELSE excused
  /\ UNCHANGED <<clock, cache, accepted, totpVars, faults>>

\* The signature is none of an enabled principal.
BadSignature(t) ==
  /\ At(t, "verify")
  /\ work' = [work EXCEPT ![t] = Nothing]
  /\ UNCHANGED <<clock, nonceVars, totpVars, reqs, faults>>

\* What thread u is doing when another one has added or removed a nonce.
Disturbed(u) == IF At(u, "sweep") THEN [work[u] EXCEPT !.moved = TRUE] ELSE work[u]

\* The nonce is stored with the time at which the request came.
StoreNonce(t) ==
  LET n == work[t].nonce IN
  /\ At(t, "verify")
  /\ cache' = [m \in DOMAIN cache \cup {n} |-> IF m = n THEN work[t].now ELSE cache[m]]
  /\ work' = [u \in Threads |->
                IF u = t THEN [work[t] EXCEPT !.at = "sweep"] ELSE Disturbed(u)]
  /\ UNCHANGED <<clock, stamp, accepted, excused, totpVars, reqs, faults>>

\* Mutant: entries are kept for one skew only.
KeptForSkew == Skew

KeptFor == 2 * Skew

\* Stale entries are swept, and the request goes on.
Sweep(t) ==
  /\ At(t, "sweep")
  /\ cache' = [m \in {x \in DOMAIN cache : cache[x] >= work[t].now - KeptFor} |-> cache[m]]
  /\ accepted' = [accepted EXCEPT ![work[t].nonce] = @ + 1]
  /\ work' = [u \in Threads |->
                IF u = t THEN Nothing
                ELSE IF DOMAIN cache' # DOMAIN cache THEN Disturbed(u) ELSE work[u]]
  /\ UNCHANGED <<clock, stamp, excused, totpVars, reqs, faults>>

\* "dictionary changed size during iteration": another thread has stored a nonce
\* meanwhile, or swept one away.
SweepFails(t) ==
  /\ At(t, "sweep") /\ work[t].moved
  /\ work' = [work EXCEPT ![t] = Nothing]
  /\ UNCHANGED <<clock, nonceVars, totpVars, reqs, faults>>

-----------------------------------------------------------------------------
(* Codes of the authenticator *)

\* The forms behind a limiter: the check for the consent form, the check of a
\* code alone, and the pages.
Pooled == {"verify", "code only"}
Doors == Pooled \cup {"unlock"}

\* An entry of the list of hits: its time, how many of the same second are
\* before it and, for the history, the run of the backend that counts it.
Attempt(door) ==
  [n |-> Cardinality({x \in hits[door] : x.at = clock}), at |-> clock, run |-> run]

Recent(h) == {x \in h : x.at > clock - Window}

\* Mutant: the attempt itself is not counted.
OneTooMany(counted) == Cardinality(counted) > Limit + 1

TooMany(counted) == Cardinality(counted) > Limit

\* /admin/verify-totp and /admin/verify-totp-only run in the thread pool: the
\* hits are read ...
Ask(t, door, for) ==
  /\ Begin(t, [at |-> "count", door |-> door, for |-> for, hit |-> Attempt(door),
               hits |-> Recent(hits[door])])
  /\ crowded' = IF \E u \in Threads : At(u, "count") /\ work[u].door = door
                THEN crowded \cup {door} ELSE crowded
  /\ UNCHANGED <<clock, nonceVars, used, hits, opened, run, through, faults>>

\* ... and replaced; an attempt beyond the limit is answered 429.
CountHit(t) ==
  LET counted == work[t].hits \cup {work[t].hit}
      door == work[t].door
  IN
  /\ At(t, "count")
  /\ hits' = [hits EXCEPT ![door] = counted]
  /\ IF TooMany(counted)
     THEN Answer(t, FALSE) /\ UNCHANGED through
     ELSE /\ work' = [work EXCEPT ![t] = [at |-> "check", for |-> @.for]]
          /\ through' = [through EXCEPT ![door] = @ \cup {work[t].hit}]
  /\ UNCHANGED <<clock, nonceVars, used, opened, run, crowded, reqs, faults>>

AskVerify(t, for) == Ask(t, "verify", for)
AskCodeOnly(t) == Ask(t, "code only", Nobody)

\* The unlock forms of the pages run in the event loop: counted in one step.
\* Beyond the limit nothing but the count changes.
AskUnlock(t) ==
  LET counted == Recent(hits["unlock"]) \cup {Attempt("unlock")} IN
  /\ Idle(t) /\ reqs < MaxReqs
  /\ reqs' = reqs + 1
  /\ hits' = [hits EXCEPT !["unlock"] = counted]
  /\ IF TooMany(counted)
     THEN UNCHANGED <<work, through>>
     ELSE /\ work' = [work EXCEPT ![t] = [at |-> "check", for |-> Nobody]]
          /\ through' = [through EXCEPT !["unlock"] = @ \cup {Attempt("unlock")}]
  /\ UNCHANGED <<clock, nonceVars, used, opened, run, crowded, faults>>

\* The inspection of a session asks for a code as well; no limiter counts it.
AskInspect(t) ==
  /\ Begin(t, [at |-> "check", for |-> Nobody])
  /\ UNCHANGED <<clock, nonceVars, totpVars, faults>>

\* A wrong secret, no permission to decide, no code that matches.
CheckFails(t) ==
  /\ At(t, "check")
  /\ Answer(t, FALSE)
  /\ UNCHANGED <<clock, nonceVars, totpVars, reqs, faults>>

\* verify_totp: of the codes within the drift, one later than the last used.
CheckCode(t) ==
  /\ At(t, "check")
  /\ \E c \in clock - Drift .. clock + Drift :
       /\ c > used
       /\ used' = c
       /\ opened' = [opened EXCEPT ![c] = @ + 1]
  /\ Answer(t, TRUE)
  /\ UNCHANGED <<clock, nonceVars, hits, run, through, crowded, reqs, faults>>

-----------------------------------------------------------------------------
\* The backend is restarted: what it kept in memory is gone, the hits of the
\* limiters too, and whoever waits for an answer gets none.
RestartBackend ==
  /\ faults < MaxFaults
  /\ faults' = faults + 1
  /\ cache' = [n \in {} |-> 0]
  /\ hits' = [d \in Doors |-> {}]
  /\ run' = run + 1
  /\ excused' = excused \cup DOMAIN cache
  /\ work' = [t \in Threads |->
                IF Idle(t) \/ At(t, "replied") THEN work[t]
                ELSE IF work[t].at \in {"verify", "sweep"} THEN Nothing
                ELSE IF work[t].for = Nobody THEN Nothing
                ELSE [at |-> "replied", for |-> work[t].for, ok |-> FALSE]]
  /\ UNCHANGED <<clock, stamp, accepted, used, opened, through, crowded, reqs>>

GateStep(t) ==
  \/ \E n \in Nonces : Arrive(t, n)
  \/ BadSignature(t) \/ StoreNonce(t) \/ Sweep(t) \/ SweepFails(t)
  \/ AskUnlock(t) \/ AskCodeOnly(t) \/ AskInspect(t)
  \/ CountHit(t) \/ CheckFails(t) \/ CheckCode(t)

Counters == 1 - Drift .. MaxClock + Drift

InitGate ==
  /\ clock = 1 /\ stamp = [n \in Nonces |-> Unsigned]
  /\ cache = [n \in {} |-> 0]
  /\ used = - Drift
  /\ hits = [d \in Doors |-> {}] /\ through = hits /\ run = 0
  /\ work = [t \in Threads |-> Nothing]
  /\ accepted = [n \in Nonces |-> 0] /\ excused = {}
  /\ opened = [c \in Counters |-> 0] /\ crowded = {}
  /\ reqs = 0 /\ faults = 0

-----------------------------------------------------------------------------
\* Attempts of this run of the backend, and of any run so far.
Attempts == [n : Nat, at : 1 .. clock, run : {run}]
AllAttempts == [n : Nat, at : 1 .. clock, run : 0 .. run]

\* What a thread can be doing, for a client of the set waiting or for nobody.
Jobs(waiting) ==
  {Nothing}
  \cup [at : {"verify", "sweep"}, nonce : Nonces, now : 1 .. clock, moved : BOOLEAN]
  \cup [at : {"count"}, door : Doors, for : waiting \cup {Nobody}, hit : Attempts,
        hits : SUBSET Attempts]
  \cup [at : {"check"}, for : waiting \cup {Nobody}]
  \cup [at : {"replied"}, for : waiting, ok : BOOLEAN]

GateTypesOK(waiting) ==
  /\ clock \in 1 .. MaxClock /\ stamp \in [Nonces -> 0 .. MaxClock]
  /\ DOMAIN cache \subseteq Nonces /\ cache \in [DOMAIN cache -> 1 .. clock]
  /\ accepted \in [Nonces -> Nat] /\ excused \subseteq Nonces
  /\ used \in Counters \cup {- Drift} /\ opened \in [Counters -> Nat]
  /\ hits \in [Doors -> SUBSET Attempts] /\ through \in [Doors -> SUBSET AllAttempts]
  /\ run \in Nat /\ crowded \subseteq Doors
  /\ work \in [Threads -> Jobs(waiting)]
  /\ reqs \in 0 .. MaxReqs /\ faults \in 0 .. MaxFaults

=============================================================================
