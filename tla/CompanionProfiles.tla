--------------------------- MODULE CompanionProfiles ---------------------------
(***************************************************************************)
(* The life of a companion profile: its row and prompt files               *)
(* (profile_os/storage.py), its data in dynamic stores, the grants of its  *)
(* owner (profile_os/api.py), the devices that may speak to it             *)
(* (profile_os/pet_devices.py), and the offline changes of its id          *)
(* (profile_os/migrate_profile_id.py, scripts/migrate_profile_id.py).      *)
(*                                                                         *)
(* Creation and deletion are sequences of transactions with file           *)
(* operations between them; ids can be used again.                         *)
(***************************************************************************)
EXTENDS AgentEnrollment

CONSTANTS
  OwnerOps,      \* OWNER_OPS, a sequence
  Standing,      \* profiles that may exist at the start, each with its owner
  MaxProfiles    \* MAX_PROFILES_PER_PRINCIPAL

ASSUME ProfilesAssumption ==
  /\ DOMAIN Standing \subseteq Profiles
  /\ \A p \in DOMAIN Standing : Standing[p] \in Founders
  /\ IsFiniteSet(DOMAIN Standing)
  /\ \A pr \in Founders :
       Cardinality({p \in DOMAIN Standing : Standing[p] = pr}) <= MaxProfiles
  /\ OwnerOps \in Seq(STRING) /\ OwnerOps # <<>>
  /\ MaxProfiles \in Nat

VARIABLES
  row,           \* profiles: which life of the id is registered, 0 if none
  lives,         \* history: profiles registered so far
  files,         \* prompt files of each id: NoFiles, SomeFiles, or the life of
                 \* the profile that all of them were written for
  data,          \* ids with rows of dynamic stores, each with the life of the
                 \* profile that had them added
  redirects,     \* profile_id_redirects, <<retired, target>>
  devices,       \* pet_devices that are not revoked, by principal; the lives
                 \* of the profiles they were issued for are history
  owned,         \* history: creations that were answered, <<principal, life>>
  hurried,       \* history: principals whose creations overlapped
  torn           \* history: ids with an interrupted or overtaken request

profileTables == <<row, files, data, redirects, devices>>
profileNotes  == <<lives, owned, hurried, torn>>
profileVars   == <<profileTables, profileNotes>>

NoFiles   == 0
SomeFiles == -1

Present(p) == row[p] # 0
HasData(p) == \E d \in data : d[1] = p
Retired(p) == \E r \in redirects : r[1] = p

\* Ids in a path are replaced by what their redirects lead to.
Reachable(p) == Present(p) /\ ~Retired(p)

Creating == {"insert", "files", "rest", "grant", "unregister", "discard"}
Deleting == {"wipe", "erase", "unlink", "revoke"}

\* Stages that leave a profile half made or half gone when they are not finished.
Halfway == (Creating \cup Deleting) \ {"insert", "wipe", "erase"}

About(p, stages) == {t \in Threads : job[t].at \in stages /\ job[t].profile = p}

-----------------------------------------------------------------------------
(* POST /profiles and POST /profiles/totp-create *)

OwnedRows(pr) == {g \in grants : g.who = pr /\ g.op = "manage_profile"}

\* Mutant: the limit is tested after it is reached.
UpToLimit(pr) == Cardinality(OwnedRows(pr)) <= MaxProfiles

WithinLimit(pr) == Cardinality(OwnedRows(pr)) < MaxProfiles

\* A principal that knows its credential and may create profiles.
AskCreate(t, pr, p) ==
  /\ pr \in Founders \/ \E i \in Invites : <<i, pr>> \in told
  /\ Allowed(pr, "create_profile", Anywhere)
  /\ ~Present(p) /\ WithinLimit(pr)
  /\ Begin(t, [at |-> "insert", who |-> pr, profile |-> p])
  /\ hurried' = IF \E u \in Threads : job[u].at \in Creating /\ job[u].who = pr
                THEN hurried \cup {pr} ELSE hurried
  /\ UNCHANGED <<access, told, profileTables, lives, owned, torn>>

\* The admin's code: no owner grants are needed.
AskCreateTotp(t, p) ==
  /\ ~Present(p)
  /\ Begin(t, [at |-> "insert", who |-> Admin, profile |-> p])
  /\ UNCHANGED <<access, told, profileVars>>

\* The registration; a retired id and a second row are refused.
InsertProfile(t) ==
  LET p == job[t].profile IN
  /\ At(t, "insert")
  /\ IF Present(p) \/ Retired(p)
     THEN /\ Done(t)
          /\ UNCHANGED <<row, lives, torn>>
     ELSE /\ row' = [row EXCEPT ![p] = lives + 1]
          /\ lives' = lives + 1
          /\ torn' = IF About(p, {"unlink", "revoke", "discard"}) = {} THEN torn
                     ELSE torn \cup {p}
          /\ Move(t, [job[t] EXCEPT !.at = "files"])
  /\ UNCHANGED <<access, told, budgets, files, data, redirects, devices, owned, hurried>>

MakeFiles(t) ==
  /\ At(t, "files")
  /\ files' = [files EXCEPT ![job[t].profile] = SomeFiles]
  /\ Move(t, [job[t] EXCEPT !.at = "rest"])
  /\ UNCHANGED <<access, told, budgets, row, data, redirects, devices, profileNotes>>

WriteFiles(t) ==
  LET j == job[t] IN
  /\ At(t, "rest")
  /\ files' = [files EXCEPT ![j.profile] = IF Present(j.profile) THEN row[j.profile]
                                           ELSE SomeFiles]
  /\ IF j.who = Admin THEN Done(t)
     ELSE Move(t, [at |-> "grant", who |-> j.who, profile |-> j.profile,
                   life |-> row[j.profile], n |-> 1])
  /\ UNCHANGED <<access, told, budgets, row, data, redirects, devices, profileNotes>>

\* An OSError while the files are written.
FilesFail(t) ==
  /\ job[t].at \in {"files", "rest"} /\ faults < MaxFaults
  /\ faults' = faults + 1
  /\ Move(t, [job[t] EXCEPT !.at = "unregister"])
  /\ UNCHANGED <<access, told, reqs, profileVars>>

\* The registration is taken back, unless somebody wrote data meanwhile, but no
\* grant of a device that was issued meanwhile ...
Unregister(t) ==
  LET p == job[t].profile IN
  /\ At(t, "unregister")
  /\ IF HasData(p)
     THEN Done(t) /\ torn' = torn \cup {p} /\ UNCHANGED <<row, redirects>>
     ELSE /\ row' = [row EXCEPT ![p] = 0]
          /\ redirects' = {r \in redirects : r[2] # p}
          /\ torn' = IF \E g \in grants : g.on = p THEN torn \cup {p} ELSE torn
          /\ Move(t, [job[t] EXCEPT !.at = "discard"])
  /\ UNCHANGED <<access, told, budgets, files, data, devices, lives, owned, hurried>>

\* ... and the directory removed.
Discard(t) ==
  /\ At(t, "discard")
  /\ files' = [files EXCEPT ![job[t].profile] = NoFiles]
  /\ Done(t)
  /\ UNCHANGED <<access, told, budgets, row, data, redirects, devices, profileNotes>>

\* One owner grant after the other; the grant names the id, not the row.
GrantOwner(t) ==
  LET j == job[t] IN
  /\ At(t, "grant")
  /\ grants' = grants \cup {Grant(j.who, OwnerOps[j.n], j.profile, j.life)}
  /\ IF j.n < Len(OwnerOps)
     THEN Move(t, [j EXCEPT !.n = @ + 1]) /\ UNCHANGED owned
     ELSE Done(t) /\ owned' = owned \cup {<<j.who, j.life>>}
  /\ UNCHANGED <<principals, keys, invites, told, budgets, profileTables,
                 lives, hurried, torn>>

-----------------------------------------------------------------------------
(* DELETE /profiles/{profile_id}: only the admin holds delete_profile *)

AskDelete(t, p) ==
  /\ Reachable(p)
  /\ Begin(t, [at |-> "wipe", who |-> Admin, profile |-> p])
  /\ UNCHANGED <<access, told, profileVars>>

WipeData(t) ==
  /\ At(t, "wipe")
  /\ data' = {d \in data : d[1] # job[t].profile}
  /\ Move(t, [job[t] EXCEPT !.at = "erase"])
  /\ UNCHANGED <<access, told, budgets, row, files, redirects, devices, profileNotes>>

\* A row of a dynamic store that came after WipeData refuses the deletion.
EraseRow(t) ==
  LET p == job[t].profile IN
  /\ At(t, "erase")
  /\ IF ~Present(p) \/ HasData(p)
     THEN Done(t) /\ UNCHANGED <<row, redirects, torn>>
     ELSE /\ row' = [row EXCEPT ![p] = 0]
          /\ redirects' = {r \in redirects : r[2] # p}
          /\ torn' = IF About(p, Creating \ {"insert"}) = {} THEN torn
                     ELSE torn \cup {p}
          /\ Move(t, [job[t] EXCEPT !.at = "unlink"])
  /\ UNCHANGED <<access, told, budgets, files, data, devices, lives, owned, hurried>>

RemoveFiles(t) ==
  /\ At(t, "unlink")
  /\ files' = [files EXCEPT ![job[t].profile] = NoFiles]
  /\ Move(t, [job[t] EXCEPT !.at = "revoke"])
  /\ UNCHANGED <<access, told, budgets, row, data, redirects, devices, profileNotes>>

\* Mutant: only the manager's grants are revoked.
WithoutManager(p) == {g \in grants : ~(g.on = p /\ g.op = "manage_profile")}

WithoutGrantsOn(p) == {g \in grants : g.on # p}

RevokeAll(t) ==
  /\ At(t, "revoke")
  /\ grants' = WithoutGrantsOn(job[t].profile)
  /\ Done(t)
  /\ UNCHANGED <<principals, keys, invites, told, budgets, profileVars>>

\* A store or a record is added: the foreign key wants the profile.
AddData(pr, p) ==
  /\ reqs < MaxReqs
  /\ \A u \in Threads : job[u].at \notin Offline
  /\ Reachable(p) /\ <<p, row[p]>> \notin data
  /\ Allowed(pr, "records:write", p)
  /\ data' = data \cup {<<p, row[p]>>}
  /\ reqs' = reqs + 1
  /\ UNCHANGED <<access, told, job, faults, row, files, redirects, devices, profileNotes>>

-----------------------------------------------------------------------------
(* Devices: issued and revoked by a command of its own process *)

\* PET_OPERATIONS are granted together; one stands for all.
DeviceOps == {"boot"}

\* The profiles are looked up before the transaction, ...
AskDevice(t, ps) ==
  /\ ps # {} /\ \A p \in ps : Present(p)
  /\ Begin(t, [at |-> "issue", lives |-> [p \in ps |-> row[p]]])
  /\ UNCHANGED <<access, told, profileVars>>

\* ... which makes the principal, its credential, the device and its grants.
IssueDevice(t) ==
  LET of == job[t].lives IN
  /\ At(t, "issue")
  /\ \E pr \in Principals \ principals :
       /\ principals' = principals \cup {pr}
       /\ grants' = grants \cup {Grant(pr, op, p, of[p]) : op \in DeviceOps, p \in DOMAIN of}
       /\ devices' = devices \cup {<<pr, of[p]>> : p \in DOMAIN of}
  /\ torn' = torn \cup {p \in DOMAIN of : row[p] # of[p] /\ About(p, {"unlink", "revoke"}) = {}}
  /\ Done(t)
  /\ UNCHANGED <<keys, invites, told, budgets, row, files, data, redirects, lives, owned,
                 hurried>>

\* The credential and the device; the grants stay.
RevokeDevice(pr) ==
  /\ reqs < MaxReqs /\ \E d \in devices : d[1] = pr
  /\ \A u \in Threads : job[u].at \notin Offline
  /\ devices' = {d \in devices : d[1] # pr}
  /\ reqs' = reqs + 1
  /\ UNCHANGED <<access, told, job, faults, row, files, data, redirects, profileNotes>>

-----------------------------------------------------------------------------
(* The offline migrations of an id *)

\* All checks, the uncommitted UPDATEs, and the rename of the directory.
MoveFiles(t, stage, old, new) ==
  /\ \A u \in Threads : Idle(u)
  /\ old # new /\ Present(old) /\ ~Present(new)
  /\ files[old] # NoFiles /\ files[new] = NoFiles
  /\ Begin(t, [at |-> stage, old |-> old, new |-> new])
  /\ files' = [files EXCEPT ![new] = files[old], ![old] = NoFiles]
  /\ UNCHANGED <<access, told, row, data, redirects, devices, profileNotes>>

MigrateFiles(t, old, new) == ~Retired(new) /\ MoveFiles(t, "rewrite", old, new)

\* The script does not look at the redirects.
ScriptFiles(t, old, new) == MoveFiles(t, "rewrite by script", old, new)

Migrating(t) == job[t].at \in Offline

Renamed(p, old, new) == IF p = old THEN new ELSE p

\* COMMIT: every column that holds the id.
Rewritten(t) ==
  LET old == job[t].old
      new == job[t].new
  IN
  /\ row' = [row EXCEPT ![new] = row[old], ![old] = 0]
  /\ data' = {<<Renamed(d[1], old, new), d[2]>> : d \in data}
  /\ grants' = {[g EXCEPT !.on = Renamed(@, old, new)] : g \in grants}
  /\ torn' = IF old \in torn THEN torn \cup {new} ELSE torn
  /\ Done(t)
  /\ UNCHANGED <<principals, keys, invites, told, budgets, files, devices, lives, owned,
                 hurried>>

\* The package retires the old id.
MigrateCommit(t) ==
  /\ At(t, "rewrite") /\ Rewritten(t)
  /\ redirects' = {<<r[1], Renamed(r[2], job[t].old, job[t].new)>> : r \in redirects}
                  \cup {<<job[t].old, job[t].new>>}

\* The script leaves the redirects alone: one to the old id is found by the
\* foreign key check.
Dangles(t) == At(t, "rewrite by script") /\ \E r \in redirects : r[2] = job[t].old

ScriptCommit(t) ==
  /\ At(t, "rewrite by script") /\ ~Dangles(t)
  /\ Rewritten(t)
  /\ UNCHANGED redirects

\* The hashes differ, a foreign key dangles, or the commit fails: the directory
\* is moved back.
MigrateBack(t) ==
  LET old == job[t].old
      new == job[t].new
  IN
  /\ Migrating(t)
  /\ IF Dangles(t) THEN UNCHANGED faults
     ELSE faults < MaxFaults /\ faults' = faults + 1
  /\ files' = [files EXCEPT ![old] = files[new], ![new] = NoFiles]
  /\ Done(t)
  /\ UNCHANGED <<access, told, reqs, row, data, redirects, devices, profileNotes>>

-----------------------------------------------------------------------------
Interrupt(ts) ==
  /\ Interrupted(ts)
  /\ torn' = torn \cup {p \in Profiles :
                          \/ About(p, Halfway) \cap ts # {}
                          \/ \E t \in ts : Migrating(t)
                                           /\ p \in {job[t].old, job[t].new}}
  /\ UNCHANGED <<access, told, profileTables, lives, owned, hurried>>

InitProfiles ==
  /\ lives = Cardinality(DOMAIN Standing)
  /\ row \in {r \in [Profiles -> 0 .. lives] :
                /\ \A p \in Profiles : r[p] # 0 => p \in DOMAIN Standing
                /\ \A p, q \in Profiles : r[p] = r[q] /\ r[p] # 0 => p = q}
  /\ files = row
  /\ data = {} /\ redirects = {} /\ devices = {}
  /\ grants = {Grant(pr, "create_profile", Anywhere, 0) : pr \in Founders}
              \cup {Grant(Standing[p], OwnerOps[n], p, row[p]) :
                      p \in {q \in DOMAIN Standing : Present(q)}, n \in DOMAIN OwnerOps}
  /\ owned = {<<Standing[p], row[p]>> : p \in {q \in DOMAIN Standing : Present(q)}}
  /\ hurried = {} /\ torn = {}

ProfileStep ==
  \/ \E t \in Threads :
       \/ \E p \in Profiles :
            \/ \E pr \in Principals : AskCreate(t, pr, p)
            \/ AskCreateTotp(t, p)
            \/ AskDelete(t, p)
            \/ \E new \in Profiles : MigrateFiles(t, p, new) \/ ScriptFiles(t, p, new)
       \/ \E ps \in SUBSET Profiles : AskDevice(t, ps)
       \/ IssueDevice(t)
       \/ InsertProfile(t)
       \/ MakeFiles(t) \/ WriteFiles(t) \/ FilesFail(t)
       \/ Unregister(t) \/ Discard(t)
       \/ GrantOwner(t)
       \/ WipeData(t) \/ EraseRow(t) \/ RemoveFiles(t) \/ RevokeAll(t)
       \/ MigrateCommit(t) \/ ScriptCommit(t) \/ MigrateBack(t)
  \/ \E pr \in Principals, p \in Profiles : AddData(pr, p)
  \/ \E pr \in Principals : RevokeDevice(pr)
  \/ \E ts \in SUBSET Threads : Interrupt(ts)

ProfileJobs ==
  [at : (Creating \ {"grant"}) \cup Deleting, who : Principals, profile : Profiles] \cup
  [at : {"grant"}, who : Principals, profile : Profiles, life : 0 .. lives,
   n : DOMAIN OwnerOps] \cup
  [at : Offline, old : Profiles, new : Profiles] \cup
  UNION {[at : {"issue"}, lives : [ps -> 0 .. lives]] : ps \in SUBSET Profiles}

ProfileTypeOK ==
  /\ lives \in Nat
  /\ row \in [Profiles -> 0 .. lives]
  /\ files \in [Profiles -> {NoFiles, SomeFiles} \cup 1 .. lives]
  /\ data \subseteq Profiles \X (0 .. lives)
  /\ redirects \subseteq Profiles \X Profiles
  /\ devices \subseteq Principals \X (0 .. lives)
  /\ grants \subseteq [who : Principals, on : Profiles \cup {Anywhere}, life : 0 .. lives,
                       op : {"create_profile"} \cup DeviceOps \cup {OwnerOps[n] : n \in DOMAIN OwnerOps}]
  /\ owned \subseteq Principals \X (0 .. lives)
  /\ hurried \subseteq Principals /\ torn \subseteq Profiles

\* A principal owns more profiles than the limit only if it had two creations
\* under way at a time: the count is read before either has its grants.
LimitNeedsOverlap ==
  \A pr \in Principals :
    Cardinality(OwnedRows(pr)) > MaxProfiles => pr \in hurried

Settled(p) ==
  /\ p \notin torn /\ About(p, Creating \cup Deleting) = {}
  /\ \A t \in Threads : Migrating(t) => p \notin {job[t].old, job[t].new}

\* Between requests on an id, and unless one was interrupted or overtaken by
\* another on the same id (torn): a registered profile has the prompt files that
\* were written for it, all of them; the principal that was told of its creation
\* has every owner grant; and what lies under the id - prompt files, rows of
\* dynamic stores, grants - is this profile's, never an earlier one's, while an id
\* that is free has nothing of the three.  A device that was issued for a profile
\* keeps its grants as long as both last, also when the id changes.  delete_profile
\* itself leaves more than these three behind (pending approvals, the project rows
\* it created, conversations, attempts and audits): nothing is said of those.
NothingOutlivesProfile ==
  \A p \in Profiles : Settled(p) =>
    /\ files[p] = row[p]
    /\ \A d \in data : d[1] = p => Present(p) /\ d[2] = row[p]
    /\ \A g \in grants : g.on = p => Present(p) /\ g.life = row[p]
    /\ \A o \in owned : Present(p) /\ o[2] = row[p] =>
         \A n \in DOMAIN OwnerOps : Grant(o[1], OwnerOps[n], p, row[p]) \in grants
    /\ \A d \in devices, op \in DeviceOps : Present(p) /\ d[2] = row[p] =>
         Grant(d[1], op, p, row[p]) \in grants

=============================================================================
