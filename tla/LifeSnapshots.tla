---------------------------- MODULE LifeSnapshots ----------------------------
(***************************************************************************)
(* The snapshots the life MCP service reads (life_mcp/snapshot.py) and the *)
(* command that publishes them (life_mcp/publish_snapshot.py).             *)
(*                                                                         *)
(* A snapshot has a file of its own that is written once, and a copy in    *)
(* current.json; both name the snapshot that was current before.  The lock *)
(* of SnapshotStore holds inside one process: two publications, and one    *)
(* that is repeated after it was killed, meet in the files.                *)
(***************************************************************************)

CONSTANTS
  Publishers,    \* processes that publish
  Snapshots,     \* snapshot_ids: digests of the content
  Nowhere        \* no snapshot

ASSUME SnapshotsAssumption == Nowhere \notin Snapshots

VARIABLES
  current,       \* current.json
  versions,      \* the previous snapshot that each file of snapshots/ names
  pub,           \* what each publisher is doing
  shown,         \* history: snapshots that were current
  unlinked       \* history: a publication overtook another, or met or replaced
                 \* the file of another one of the same snapshot

snapshotVars == <<current, versions, pub, shown, unlinked>>

Off == [at |-> "off"]

Stage(p, s) == pub[p].at = s
Enter(p, s) == pub' = [pub EXCEPT ![p] = [@ EXCEPT !.at = s]]

\* publish reads current.json; the same snapshot again is answered at once.
LoadCurrent(p, s) ==
  /\ Stage(p, "off") /\ current.id # s
  /\ pub' = [pub EXCEPT ![p] = [at |-> "find", id |-> s, prev |-> current.id]]
  /\ UNCHANGED <<current, versions, shown, unlinked>>

\* Mutant: the directory is looked for, not the file.
SomeVersion(s) == DOMAIN versions # {}

HasVersion(s) == s \in DOMAIN versions

FindVersion(p) ==
  /\ Stage(p, "find")
  /\ Enter(p, IF HasVersion(pub[p].id) THEN "current" ELSE "version")
  /\ UNCHANGED <<current, versions, shown, unlinked>>

\* Each file is written aside and moved into place.
WriteVersion(p) ==
  LET s == pub[p].id IN
  /\ Stage(p, "version")
  /\ versions' = [v \in DOMAIN versions \cup {s} |->
                    IF v = s THEN pub[p].prev ELSE versions[v]]
  /\ unlinked' = (unlinked \/ (s \in DOMAIN versions /\ versions[s] # pub[p].prev))
  /\ Enter(p, "current")
  /\ UNCHANGED <<current, shown>>

WriteCurrent(p) ==
  LET j == pub[p] IN
  /\ Stage(p, "current")
  /\ current' = [id |-> j.id, prev |-> j.prev]
  /\ shown' = shown \cup {j.id}
  /\ unlinked' = (unlinked \/ j.prev # current.id
                    \/ (j.id \in DOMAIN versions /\ versions[j.id] # j.prev))
  /\ pub' = [pub EXCEPT ![p] = Off]
  /\ UNCHANGED versions

\* The command is killed.
Quit(p) ==
  /\ ~Stage(p, "off")
  /\ pub' = [pub EXCEPT ![p] = Off]
  /\ UNCHANGED <<current, versions, shown, unlinked>>

InitSnapshots ==
  /\ current = [id |-> Nowhere, prev |-> Nowhere]
  /\ versions = [v \in {} |-> Nowhere]
  /\ pub = [p \in Publishers |-> Off]
  /\ shown = {} /\ unlinked = FALSE

SnapshotsTypeOK ==
  /\ current \in [id : Snapshots \cup {Nowhere}, prev : Snapshots \cup {Nowhere}]
  /\ DOMAIN versions \subseteq Snapshots
  /\ versions \in [DOMAIN versions -> Snapshots \cup {Nowhere}]
  /\ pub \in [Publishers -> {Off} \cup
                [at : {"find", "version", "current"}, id : Snapshots,
                 prev : Snapshots \cup {Nowhere}]]
  /\ shown \subseteq Snapshots /\ unlinked \in BOOLEAN

\* A set of snapshots that contains, with each, the one its file names.
ClosedUnderPrevious(S) ==
  \A v \in S \cap DOMAIN versions : versions[v] \in S \cup {Nowhere}

\* Wherever a publication is killed, and however two interleave: the current
\* snapshot has its file, and so has every snapshot that a file or current.json
\* names as previous.  And the files lead from the current snapshot back to every
\* one that was current, unless a publication overtook another, or met or replaced
\* the file of another one of the same snapshot.
HistoryIsKept ==
  /\ shown # {} => current.id \in DOMAIN versions
  /\ \A v \in DOMAIN versions : versions[v] \in DOMAIN versions \cup {Nowhere}
  /\ current.prev \in DOMAIN versions \cup {Nowhere}
  /\ ~unlinked =>
       \A S \in SUBSET Snapshots :
         /\ {current.id, current.prev} \subseteq S \cup {Nowhere}
         /\ ClosedUnderPrevious(S)
         => shown \subseteq S

=============================================================================
