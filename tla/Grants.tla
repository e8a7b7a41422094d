-------------------------------- MODULE Grants --------------------------------
(***************************************************************************)
(* What an authorization server promises to the clients that register with *)
(* it: a code is granted to a client it knows, is good for one token while *)
(* it lives, and a client, once told its id, stays known.                  *)
(***************************************************************************)

CONSTANTS Clients, Codes

VARIABLES
  known,      \* clients that were told their id and would be recognised
  live,       \* codes that would be redeemed, with the client of each
  tokens,     \* access tokens handed out, by code
  era,        \* time, and life of the server
  burns,      \* a code does not survive a failed exchange
  troubled    \* the registry could not be written or read once

vars == <<known, live, tokens, era, burns, troubled>>

Init ==
  /\ known \subseteq Clients /\ live = [k \in {} |-> {}] /\ tokens = [k \in Codes |-> 0]
  /\ ~troubled

\* A client is forgotten only if the registry failed.
Remembered == known \subseteq known' \/ troubled'

\* Codes end with time, with the server, or in a failed exchange where that
\* burns them.
Lasting(ks) ==
  \/ era' # era \/ burns \/ troubled'
  \/ \A k \in ks : k \in DOMAIN live' /\ live'[k] = live[k]

Register(c) ==
  /\ known' \subseteq known \cup {c}
  /\ DOMAIN live' \subseteq DOMAIN live /\ Lasting(DOMAIN live)
  /\ tokens' = tokens

Grant(k, c) ==
  /\ c \in known /\ k \notin DOMAIN live /\ tokens[k] = 0
  /\ DOMAIN live' \subseteq DOMAIN live \cup {k} /\ Lasting(DOMAIN live)
  /\ k \in DOMAIN live' => live'[k] = c
  /\ known' \subseteq known /\ tokens' = tokens

Redeem(k) ==
  /\ k \in DOMAIN live /\ k \notin DOMAIN live' /\ tokens[k] = 0
  /\ tokens' = [tokens EXCEPT ![k] = 1]
  /\ DOMAIN live' \subseteq DOMAIN live /\ Lasting(DOMAIN live \ {k})
  /\ known' \subseteq known

Lose ==
  /\ known' \subseteq known \/ troubled
  /\ DOMAIN live' \subseteq DOMAIN live /\ Lasting(DOMAIN live)
  /\ tokens' = tokens

Next ==
  /\ Remembered /\ burns' = burns /\ (troubled => troubled')
  /\ \/ \E c \in Clients : Register(c) \/ \E k \in Codes : Grant(k, c)
     \/ \E k \in Codes : Redeem(k)
     \/ Lose

Spec == Init /\ [][Next]_vars

=============================================================================
