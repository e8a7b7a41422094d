------------------------- MODULE AuthorizationServers -------------------------
(***************************************************************************)
(* The two OAuth servers of the repository: that of the profile MCP        *)
(* service (profile_os/mcp_server.py, OAuthState), whose consent form asks *)
(* the backend for the administrator's secret and code, and that of the    *)
(* life MCP service (life_mcp/security.py, life_mcp/state.py), whose form  *)
(* asks for a secret of its own.  kind says which one runs here.           *)
(*                                                                         *)
(* "mcp" keeps clients and codes in memory and saves the clients to a      *)
(* file; "life" reads and writes one file in every operation.  Handlers    *)
(* run in one event loop, so each is a step up to its first await.  What   *)
(* the life service serves, its snapshots, is published next to it.        *)
(***************************************************************************)
EXTENDS RequestGate, LifeSnapshots

CONSTANTS
  Clients, Codes,   \* clients that register, codes that are granted
  Forms,            \* consent forms that are submitted
  CodeLife          \* the 300 seconds of a code

ASSUME ServersAssumption ==
  /\ CodeLife \in Nat /\ Nobody \notin Forms

VARIABLES
  kind,          \* "mcp" or "life"
  clients,       \* registered clients: _clients, or those in the file
  codes,         \* codes: _codes, or those in the file
  saved,         \* "mcp": the clients in the state file
  forms,         \* "mcp": the client, if any, of each form that awaits admin_verify
  told,          \* history: clients that were told their id
  issued,        \* history: codes handed out
  tokens,        \* history: access tokens handed out, by code
  boots,         \* history: starts of the server
  troubled       \* history: the registry was not written or read once

serverVars == <<kind, clients, codes, saved, forms, told, issued, tokens, boots, troubled>>
vars == <<gateVars, serverVars, snapshotVars>>

-----------------------------------------------------------------------------
None == [k \in {} |-> 0]

Fault == faults < MaxFaults /\ faults' = faults + 1 /\ troubled' = TRUE
NoFault == UNCHANGED <<faults, troubled>>

\* JsonState.read inside mutate: the file, or the empty default when reading it
\* fails, which is then what is written back.
ReadState(cs, ks) ==
  \/ cs = clients /\ ks = codes /\ NoFault
  \/ cs = {} /\ ks = None /\ Fault

Backend == <<clock, nonceVars, totpVars, work>>

Request == reqs < MaxReqs /\ reqs' = reqs + 1

-----------------------------------------------------------------------------
(* POST /oauth/register *)

\* The client is told its id also when the state file could not be written.
RegisterMcp(c) ==
  /\ kind = "mcp" /\ c \notin told
  /\ clients' = clients \cup {c}
  /\ \/ saved' = clients' /\ NoFault
     \/ saved' = saved /\ Fault
  /\ UNCHANGED codes

RegisterLife(c) ==
  /\ kind = "life" /\ c \notin told
  /\ \E cs \in SUBSET clients, ks \in {codes, None} :
       /\ ReadState(cs, ks)
       /\ clients' = cs \cup {c} /\ codes' = ks
  /\ UNCHANGED saved

Register(c) ==
  /\ Request
  /\ RegisterMcp(c) \/ RegisterLife(c)
  /\ told' = told \cup {c}
  /\ UNCHANGED <<kind, forms, issued, tokens, boots, Backend>>

-----------------------------------------------------------------------------
(* POST /oauth/authorize *)

Code(c) == [client |-> c, until |-> clock + CodeLife]

With(ks, k, c) == [j \in DOMAIN ks \cup {k} |-> IF j = k THEN Code(c) ELSE ks[j]]
Without(ks, k) == [j \in DOMAIN ks \ {k} |-> ks[j]]

Fresh == Codes \ issued

\* The client is looked up, then the backend is asked.
AskConsent(t, f, c) ==
  /\ kind = "mcp" /\ forms[f] = {} /\ c \in clients
  /\ forms' = [forms EXCEPT ![f] = {c}]
  /\ AskVerify(t, f)
  /\ UNCHANGED <<kind, clients, codes, saved, told, issued, tokens, boots, troubled>>

Take(t) ==
  /\ At(t, "replied")
  /\ work' = [work EXCEPT ![t] = Nothing]
  /\ forms' = [forms EXCEPT ![work[t].for] = {}]
  /\ UNCHANGED <<clock, nonceVars, totpVars, reqs, faults, kind, clients, saved, told,
                 tokens, boots, troubled>>

Consented(t) ==
  /\ Take(t) /\ work[t].ok
  /\ \E k \in Fresh, c \in forms[work[t].for] :
       /\ codes' = With(codes, k, c)
       /\ issued' = issued \cup {k}

\* 401: the form is shown again.
NotConsented(t) ==
  /\ Take(t) /\ ~work[t].ok
  /\ UNCHANGED <<codes, issued>>

\* Mutant: the answer to a form that was given up is taken for the next one.
StillAwaited(fs) == work

\* What the backend does for the forms in fs, it does for nobody.
Abandoned(fs) ==
  [t \in Threads |->
     IF work[t].at \notin {"count", "check", "replied"} THEN work[t]
     ELSE IF work[t].for \notin fs THEN work[t]
     ELSE IF At(t, "replied") THEN Nothing ELSE [work[t] EXCEPT !.for = Nobody]]

\* default_admin_verify gives up after five seconds; the backend goes on.
GiveUp(f) ==
  /\ forms[f] # {} /\ faults < MaxFaults
  /\ faults' = faults + 1
  /\ forms' = [forms EXCEPT ![f] = {}]
  /\ work' = Abandoned({f})
  /\ UNCHANGED <<clock, nonceVars, totpVars, reqs, kind, clients, codes, saved, told,
                 issued, tokens, boots, troubled>>

\* The life service compares a secret; the file is read for the client and
\* again for the code.
ConsentLife(c) ==
  /\ kind = "life" /\ c \in clients /\ Request
  /\ \E k \in Fresh, cs \in SUBSET clients, ks \in {codes, None} :
       /\ ReadState(cs, ks)
       /\ clients' = cs /\ codes' = With(ks, k, c)
       /\ issued' = issued \cup {k}
  /\ UNCHANGED <<kind, saved, forms, told, tokens, boots, Backend>>

-----------------------------------------------------------------------------
(* POST /oauth/token *)

Alive(k) == k \in DOMAIN codes /\ codes[k].until >= clock

\* Mutant: the code is looked up and stays.
StillThere(k) == codes

Spent(k) == Without(codes, k)

\* exchange_code of "mcp": a failed probe changes nothing; an exchange that is
\* valid in every respect takes the code.
RedeemMcp(k) ==
  /\ kind = "mcp" /\ Alive(k)
  /\ codes' = Spent(k)
  /\ tokens' = [tokens EXCEPT ![k] = @ + 1]
  /\ NoFault /\ UNCHANGED clients

\* exchange_code of "life": the code is taken first and validated afterwards.
RedeemLife(k) ==
  /\ kind = "life"
  /\ \/ /\ k \in DOMAIN codes /\ codes' = Spent(k)
        /\ tokens' \in {tokens} \cup
             (IF Alive(k) THEN {[tokens EXCEPT ![k] = @ + 1]} ELSE {})
        /\ NoFault /\ UNCHANGED clients
     \/ clients' = {} /\ codes' = None /\ Fault /\ UNCHANGED tokens

Redeem(k) ==
  /\ Request
  /\ RedeemMcp(k) \/ RedeemLife(k)
  /\ UNCHANGED <<kind, saved, forms, told, issued, boots, Backend>>

-----------------------------------------------------------------------------
\* A restart.  "mcp" loads the clients it saved, none if that fails; the file
\* stays until the next registration writes it.
RestartServer ==
  /\ faults < MaxFaults
  /\ faults' = faults + 1
  /\ boots' = boots + 1
  /\ IF kind = "mcp"
     THEN /\ codes' = None
          /\ \/ clients' = saved /\ UNCHANGED troubled
             \/ clients' = {} /\ troubled' = TRUE
     ELSE UNCHANGED <<clients, codes, troubled>>
  /\ forms' = [f \in Forms |-> {}]
  /\ work' = Abandoned(Forms)
  /\ UNCHANGED <<kind, saved, told, issued, tokens, clock, nonceVars, totpVars, reqs>>

Tick ==
  /\ clock < MaxClock
  /\ clock' = clock + 1
  /\ UNCHANGED <<nonceVars, totpVars, work, reqs, faults, serverVars>>

Init ==
  /\ InitGate /\ InitSnapshots
  /\ kind \in {"mcp", "life"}
  /\ \E c \in Clients : clients = {c}
  /\ saved = clients /\ told = clients
  /\ codes = None
  /\ forms = [f \in Forms |-> {}]
  /\ issued = {} /\ tokens = [k \in Codes |-> 0]
  /\ boots = 0 /\ troubled = FALSE

\* A publication of snapshots on the host of the life service.
PublishStep ==
  /\ kind = "life"
  /\ \/ \E p \in Publishers, s \in Snapshots : LoadCurrent(p, s) /\ Request /\ UNCHANGED faults
     \/ \E p \in Publishers :
          \/ (FindVersion(p) \/ WriteVersion(p) \/ WriteCurrent(p)) /\ UNCHANGED <<reqs, faults>>
          \/ Quit(p) /\ faults < MaxFaults /\ faults' = faults + 1 /\ UNCHANGED reqs
  /\ UNCHANGED <<Backend, serverVars>>

ServerStep ==
  \/ \E t \in Threads :
       \/ kind = "mcp" /\ GateStep(t) /\ UNCHANGED serverVars
       \/ \E f \in Forms, c \in Clients : AskConsent(t, f, c)
       \/ Consented(t) \/ NotConsented(t)
  \/ kind = "mcp" /\ RestartBackend /\ UNCHANGED serverVars
  \/ \E c \in Clients : Register(c) \/ ConsentLife(c)
  \/ \E f \in Forms : GiveUp(f)
  \/ \E k \in Codes : Redeem(k)
  \/ RestartServer \/ Tick

Next == (ServerStep /\ UNCHANGED snapshotVars) \/ PublishStep

Spec == Init /\ [][Next]_vars

-----------------------------------------------------------------------------
(* Properties *)

Grant == [client : Clients, until : 1 .. MaxClock + CodeLife]

ServerTypesOK ==
  /\ kind \in {"mcp", "life"} /\ told \subseteq Clients
  /\ clients \subseteq told /\ saved \subseteq told
  /\ issued \subseteq Codes /\ DOMAIN codes \subseteq issued
  /\ codes \in [DOMAIN codes -> Grant]
  /\ forms \in [Forms -> SUBSET Clients]
  /\ tokens \in [Codes -> Nat] /\ boots \in Nat /\ troubled \in BOOLEAN

\* The requests at the backend that form f waits for.
Awaited(f) ==
  {t \in Threads : work[t].at \in {"count", "check", "replied"} /\ work[t].for = f}

\* Codes, clients, hits and requests hold what the code can put there; a code
\* belongs to an issue, a saved client to a registration, and every form that
\* waits has one request at the backend.
TypeOK ==
  /\ SnapshotsTypeOK /\ GateTypesOK(Forms) /\ ServerTypesOK
  /\ \A f \in Forms : Cardinality(Awaited(f)) = Cardinality(forms[f])

-----------------------------------------------------------------------------
(* What the gate lets through *)

\* A signed request is accepted once, unless two copies were tested at the same
\* time or the backend was restarted after the first.
NoncesOnce == \A n \in Nonces \ excused : accepted[n] <= 1

\* A code of the authenticator opens one thing: a page, or the consent for one
\* authorization code.
CodesOpenOnce ==
  /\ \A c \in Counters : opened[c] <= 1
  /\ kind = "mcp" => Cardinality(issued) <= Cardinality({c \in Counters : opened[c] > 0})

\* What is for one use is used once: signed requests and codes of the
\* authenticator, through copies, sweeps, given-up forms and restarts.
GateHolds == NoncesOnce /\ CodesOpenOnce

\* The limiters keep their hits in memory only, so a restart of the backend starts
\* the count anew: through a door, the attempts let in within one window are at most
\* Limit for each run of the backend that let one in there - Limit where it was not
\* restarted, twice as many around one restart.  Nothing is promised for a door
\* where two attempts were counted at the same time (crowded).
AttemptsBounded ==
  \A d \in Doors \ crowded, s \in 1 .. MaxClock :
    LET inside == {x \in through[d] : x.at \in s .. s + Window - 1} IN
    Cardinality(inside) <= Limit * Cardinality({x.run : x \in inside})

-----------------------------------------------------------------------------
(* What the servers promise *)

LiveCodes == [k \in {j \in DOMAIN codes : codes[j].until >= clock} |-> codes[k].client]

Promise == INSTANCE Grants WITH
  known <- clients, live <- LiveCodes, era <- <<clock, boots>>, burns <- kind = "life"

\* Both servers keep the promise of Grants: one token per code, and only while the
\* code lives; a code outlives failed exchanges, with "mcp" at least; and a
\* registered client stays known, across restarts too, unless its registry could
\* not be written or read.  (An exchange stands for one that is valid in client,
\* redirect and verifier: whose token it is, is not part of the promise.)
KeepsPromise == Promise!Spec

=============================================================================
