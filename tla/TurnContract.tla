---------------------------- MODULE TurnContract ----------------------------
(***************************************************************************)
(* What a Tamagochi client is promised about its turns, and nothing about  *)
(* how the service keeps the promise: the stages a turn may go through,    *)
(* the revision that counts them, and that a conversation is never given   *)
(* a new turn while an earlier one is active or unresolved.  PetTurns is   *)
(* shown to implement this module.                                         *)
(***************************************************************************)
EXTENDS Naturals, FiniteSets

CONSTANTS
  Turns,         \* turn identifiers
  Convs,         \* conversations
  NoConv,        \* the conversation of a turn that was not accepted
  MaxPending     \* the most turns that may be nonterminal at once

VARIABLES
  stage,         \* stage[t], "absent" until the turn is accepted
  revision,      \* revision[t], the revision a client polls
  convOf         \* convOf[t], the conversation of an accepted turn

cvars == <<stage, revision, convOf>>

NonTerminal == {"accepted", "responding", "cancel_requested"}
Terminal    == {"completed", "failed", "cancelled", "unknown"}

\* An unknown turn needs reconciliation, so it keeps its conversation busy.
Occupying == NonTerminal \cup {"unknown"}

CInit ==
  /\ stage    = [t \in Turns |-> "absent"]
  /\ revision = [t \in Turns |-> 0]
  /\ convOf   = [t \in Turns |-> NoConv]

\* Every change of stage is one revision later than the stage it replaces.
Move(T, new) ==
  /\ stage'    = [t \in Turns |-> IF t \in T THEN new ELSE stage[t]]
  /\ revision' = [t \in Turns |-> IF t \in T THEN revision[t] + 1 ELSE revision[t]]

Accept(t, c) ==
  /\ stage[t] = "absent"
  /\ \A u \in Turns : convOf[u] = c => stage[u] \notin Occupying
  /\ Cardinality({u \in Turns : stage[u] \in NonTerminal}) < MaxPending
  /\ Move({t}, "accepted")
  /\ convOf' = [convOf EXCEPT ![t] = c]

Respond(t) == stage[t] = "accepted" /\ Move({t}, "responding") /\ UNCHANGED convOf

\* "completed" means completion won the race with cancellation.
Complete(t) == stage[t] = "responding" /\ Move({t}, "completed") /\ UNCHANGED convOf

RequestCancel(t) ==
  stage[t] = "responding" /\ Move({t}, "cancel_requested") /\ UNCHANGED convOf

\* A turn is cancelled before it started or after a cancellation was asked for.
Cancelled(t) ==
  /\ stage[t] \in {"accepted", "cancel_requested"}
  /\ Move({t}, "cancelled")
  /\ UNCHANGED convOf

Fail(t) == stage[t] \in NonTerminal /\ Move({t}, "failed") /\ UNCHANGED convOf

\* Any unfinished turns may be given up at once: a restart abandons them all.
Abandon(T) ==
  /\ \A t \in T : stage[t] \in NonTerminal
  /\ Move(T, "unknown")
  /\ UNCHANGED convOf

CNext ==
  \/ \E t \in Turns, c \in Convs : Accept(t, c)
  \/ \E t \in Turns : \/ Respond(t)   \/ Complete(t) \/ RequestCancel(t)
                      \/ Cancelled(t) \/ Fail(t)
  \/ \E T \in SUBSET Turns : Abandon(T)

ContractSpec == CInit /\ [][CNext]_cvars
=============================================================================
