------------------------- MODULE WorkspaceRuntimes -------------------------
(***************************************************************************)
(* Which app-server process serves which workspace: the sessions map that  *)
(* all workspaces share, the pool of runtimes bound to another session     *)
(* source, and the operations that connect a workspace, remove one, switch *)
(* every runtime to the settings' Provider and start a turn.  They meet on *)
(* the spawn lock, the Provider switch gate, the pool's spawn lock and the *)
(* settings lock.  An action is what runs between two awaits that another  *)
(* operation can tell apart.                                               *)
(***************************************************************************)
EXTENDS Naturals, FiniteSets

CONSTANTS Workspaces, Sources,   \* Sources: execution keys of the pool
          Runtimes,              \* identities of processes still to be spawned
          Bins, Profiles, Args,  \* codex_bin; the Provider fingerprint; codex_args
          Overrides,             \* args that a switch may be asked for
          Connects, Removes, Switches,   \* calls, each made once
          Turns,                 \* turn/start under the gate (send_user_message)
          Reviews,               \* review/start, which takes no gate
          MaxChanges,            \* bound on edits of the settings
          Idles,                 \* idle_timeout may elapse for a pooled runtime
          Exits,                 \* a process may end by itself
          None

Starts == Turns \cup Reviews
Tasks  == Connects \cup Removes \cup Switches \cup Starts

ASSUME TasksAssumption ==
  /\ Connects \cap (Removes \cup Switches \cup Starts) = {}
  /\ Removes \cap (Switches \cup Starts) = {}
  /\ Switches \cap Starts = {} /\ Turns \cap Reviews = {}
  /\ None \notin Workspaces \cup Sources \cup Runtimes \cup Tasks
ASSUME SettingsAssumption ==
  Bins # {} /\ Profiles # {} /\ Args # {} /\ Overrides \subseteq Args
ASSUME WorkspacesAssumption == Workspaces # {}
ASSUME BoundsAssumption == MaxChanges \in Nat /\ {Idles, Exits} \subseteq BOOLEAN

VARIABLES
  settings, changes,    \* AppSettings, and how often it was edited
  config,               \* the Provider profile written to config.toml
  known,                \* ids in the workspaces map
  sessions, pool,       \* the session map; entries of the SourceRuntimePool
  proc,                 \* each process: what it was spawned with, how it ended
  serves,               \* workspace_ids of each session
  active,               \* active_turns of each session
  spawnLock, gateWriter, gateReaders, poolLock, settingsLock,
  pc, local,            \* where each call is and what it has read
  unclaimed             \* history: runtimes published when no workspace was left

dataVars  == <<settings, changes, config, known, unclaimed>>
mapVars   == <<sessions, pool>>
procVars  == <<proc, serves, active>>
lockVars  == <<spawnLock, gateWriter, gateReaders, poolLock, settingsLock>>
taskVars  == <<pc, local>>
vars == <<dataVars, mapVars, procVars, lockVars, taskVars>>

Settings  == [bin : Bins, profile : Profiles, args : Args]
Endings   == {"removed", "switched", "replaced", "idled", "discarded", "exited"}
ProcState == {"unused", "running"} \cup Endings

PCs == {"idle", "lock", "own", "reuse", "spawn", "register", "insert",
        "unregister", "kill", "forget",
        "gate", "look", "quiet", "quietPool", "commit", "sync", "publish",
        "enlist", "drain", "terminate", "syncOnly", "syncPool",
        "takeIdle", "shutIdle", "pool", "spawnPool", "replace", "retire",
        "resume", "resolve", "mark", "sent", "turn", "done"}

\* What a call has read or taken.
Locals == [ws : Workspaces, source : Sources \cup {None}, rt : Runtimes \cup {None},
           want : Settings, old : SUBSET Runtimes, keys : SUBSET Workspaces]

TypeOK ==
  /\ settings \in Settings /\ changes \in 0..MaxChanges
  /\ config \in Profiles /\ known \subseteq Workspaces
  /\ sessions \in [Workspaces -> Runtimes \cup {None}]
  /\ pool \in [Sources -> Runtimes \cup {None}]
  /\ proc \in [Runtimes -> [state : ProcState, with : Settings]]
  /\ serves \in [Runtimes -> SUBSET Workspaces]
  /\ active \in [Runtimes -> SUBSET Starts]
  /\ {spawnLock, gateWriter, poolLock, settingsLock} \subseteq Tasks \cup {None}
  /\ gateReaders \subseteq Turns
  /\ pc \in [Tasks -> PCs]
  /\ local \in [Tasks -> Locals]
  /\ unclaimed \subseteq Runtimes

Init ==
  /\ settings \in Settings /\ changes = 0
  /\ config = settings.profile
  /\ known = Workspaces
  /\ sessions = [w \in Workspaces |-> None]
  /\ pool = [k \in Sources |-> None]
  /\ proc = [r \in Runtimes |-> [state |-> "unused", with |-> settings]]
  /\ serves = [r \in Runtimes |-> {}]
  /\ active = [r \in Runtimes |-> {}]
  /\ spawnLock = None /\ gateWriter = None /\ gateReaders = {}
  /\ poolLock = None /\ settingsLock = None
  /\ pc = [t \in Tasks |-> "idle"]
  /\ local = [t \in Tasks |-> [ws |-> CHOOSE w \in Workspaces : TRUE,
                               source |-> None, rt |-> None,
                               want |-> settings, old |-> {}, keys |-> {}]]
  /\ unclaimed = {}

-----------------------------------------------------------------------------
(* What the operations share. *)

Goto(t, label) == pc' = [pc EXCEPT ![t] = label]
Set(t, l)      == local' = [local EXCEPT ![t] = l]

Alive(r) == r # None /\ proc[r].state = "running"
Unused   == {r \in Runtimes : proc[r].state = "unused"}
Connected == {w \in Workspaces : sessions[w] # None}
Primary  == {sessions[w] : w \in Connected}
Pooled   == {pool[k] : k \in {j \in Sources : pool[j] # None}}

\* Requests of a session that are not answered.
Pending(r) == {t \in Starts : pc[t] = "sent" /\ local[t].rt = r}
Quiescent(R) == \A r \in R : active[r] = {}

\* spawn_workspace_session: a process of its own, started with these settings.
Spawned(r, with) ==
  proc' = [proc EXCEPT ![r] = [state |-> "running", with |-> with]]

\* kill_child_process_tree on each process of R that still runs.
Ended(R, how) ==
  proc' = [r \in Runtimes |-> IF r \in R /\ Alive(r)
                                THEN [proc[r] EXCEPT !.state = how] ELSE proc[r]]

\* remove_session_references
Forgotten(r) == [w \in Workspaces |-> IF sessions[w] = r THEN None ELSE sessions[w]]

\* The settings dialog, and the CLI updater, replace AppSettings.
ChangeSettings(new) ==
  /\ settingsLock = None
  /\ changes < MaxChanges /\ new # settings
  /\ settings' = new /\ changes' = changes + 1
  /\ UNCHANGED <<config, known, unclaimed, mapVars, procVars, lockVars, taskVars>>

Finish(t) ==
  /\ Goto(t, "done")
  /\ Set(t, [local[t] EXCEPT !.rt = None, !.old = {}, !.keys = {}])

Freed(lock, t) == IF lock = t THEN None ELSE lock

\* Its guards are dropped with it.
Return(t) ==
  /\ Finish(t)
  /\ spawnLock' = Freed(spawnLock, t)
  /\ gateWriter' = Freed(gateWriter, t)
  /\ gateReaders' = gateReaders \ {t}
  /\ poolLock' = Freed(poolLock, t)
  /\ settingsLock' = Freed(settingsLock, t)

-----------------------------------------------------------------------------
(* connect_workspace_core; adding a workspace or a worktree takes the same *)
(* steps once its entry exists.                                            *)

Connect(c, w) ==
  /\ pc[c] = "idle" /\ w \in known
  /\ Goto(c, "lock") /\ Set(c, [local[c] EXCEPT !.ws = w])
  /\ UNCHANGED <<dataVars, mapVars, procVars, lockVars>>

ConnectLocks(c) ==
  /\ pc[c] = "lock" /\ spawnLock = None
  /\ spawnLock' = c
  /\ Goto(c, "own") /\ Set(c, [local[c] EXCEPT !.rt = sessions[local[c].ws]])
  /\ UNCHANGED <<dataVars, mapVars, procVars, gateWriter, gateReaders, poolLock,
                 settingsLock>>

ConnectFindsOwn(c) ==
  /\ pc[c] = "own" /\ Alive(local[c].rt)
  /\ Return(c)
  /\ UNCHANGED <<dataVars, mapVars, procVars>>

\* mutant: every workspace looks for a process of its own only
ConnectLooksForNone(c) ==
  /\ pc[c] = "own" /\ ~Alive(local[c].rt) /\ settingsLock = None
  /\ sessions' = IF local[c].rt = None THEN sessions ELSE Forgotten(local[c].rt)
  /\ Goto(c, "reuse")
  /\ Set(c, [local[c] EXCEPT !.want = settings, !.rt = None])
  /\ UNCHANGED <<dataVars, pool, procVars, lockVars>>

\* The settings are read, then the sessions: nothing can tell the two apart.
ConnectLooksForShared(c) ==
  /\ pc[c] = "own" /\ ~Alive(local[c].rt) /\ settingsLock = None
  /\ sessions' = IF local[c].rt = None THEN sessions ELSE Forgotten(local[c].rt)
  /\ Goto(c, "reuse")
  /\ Set(c, [local[c] EXCEPT !.want = settings, !.rt = None,
                             !.old = {sessions'[w] : w \in Workspaces} \ {None}])
  /\ UNCHANGED <<dataVars, pool, procVars, lockVars>>

\* take_live_shared_session: one candidate of the snapshot at a time.
ConnectReuses(c) ==
  /\ pc[c] = "reuse"
  /\ \E r \in local[c].old :
       /\ Alive(r) /\ proc[r].with.bin = local[c].want.bin
       /\ Goto(c, "register")
       /\ Set(c, [local[c] EXCEPT !.rt = r, !.old = {}])
  /\ UNCHANGED <<dataVars, mapVars, procVars, lockVars>>

ConnectPasses(c) ==
  /\ pc[c] = "reuse"
  /\ \E r \in local[c].old :
       /\ ~(Alive(r) /\ proc[r].with.bin = local[c].want.bin)
       /\ sessions' = IF Alive(r) THEN sessions ELSE Forgotten(r)
       /\ Set(c, [local[c] EXCEPT !.old = @ \ {r}])
  /\ UNCHANGED <<dataVars, pool, procVars, lockVars, pc>>

\* The spawned process takes the Provider the settings hold by now.
ConnectSpawns(c) ==
  /\ pc[c] = "reuse" /\ local[c].old = {} /\ settingsLock = None
  /\ \E r \in Unused :
       /\ r = CHOOSE u \in Unused : TRUE
       /\ Spawned(r, [local[c].want EXCEPT !.profile = settings.profile])
       /\ Goto(c, "register") /\ Set(c, [local[c] EXCEPT !.rt = r])
  /\ UNCHANGED <<dataVars, mapVars, serves, active, lockVars>>

ConnectSpawnFails(c) ==
  /\ pc[c] = "reuse" /\ local[c].old = {}
  /\ Return(c)
  /\ UNCHANGED <<dataVars, mapVars, procVars>>

ConnectRegisters(c) ==
  /\ pc[c] = "register"
  /\ serves' = [serves EXCEPT ![local[c].rt] = @ \cup {local[c].ws}]
  /\ Goto(c, "insert")
  /\ UNCHANGED <<dataVars, mapVars, proc, active, lockVars, local>>

ConnectInserts(c) ==
  /\ pc[c] = "insert"
  /\ sessions' = [sessions EXCEPT ![local[c].ws] = local[c].rt]
  /\ Return(c)
  /\ UNCHANGED <<dataVars, pool, procVars>>

-----------------------------------------------------------------------------
(* remove_workspace_core and remove_worktree_core: kill_session_by_id,     *)
(* which takes no lock but the map's, then the entry.                      *)

RemoveTakes(v, w) ==
  /\ pc[v] = "idle" /\ w \in known
  /\ sessions' = [sessions EXCEPT ![w] = None]
  /\ LET r == sessions[w]
         shared == \E x \in Workspaces \ {w} : sessions[x] = r
     IN  /\ Goto(v, IF r = None THEN "forget" ELSE "unregister")
         /\ Set(v, [local[v] EXCEPT !.ws = w, !.rt = r,
                                    !.old = IF shared THEN {} ELSE {r} \ {None}])
  /\ UNCHANGED <<dataVars, pool, procVars, lockVars>>

\* mutant: the last workspace is taken out and its process is let run
RemoveUnregistersOnly(v) ==
  /\ pc[v] = "unregister"
  /\ serves' = [serves EXCEPT ![local[v].rt] = @ \ {local[v].ws}]
  /\ Goto(v, "forget")
  /\ UNCHANGED <<dataVars, mapVars, proc, active, lockVars, local>>

RemoveUnregisters(v) ==
  /\ pc[v] = "unregister"
  /\ serves' = [serves EXCEPT ![local[v].rt] = @ \ {local[v].ws}]
  /\ Goto(v, IF local[v].old = {} THEN "forget" ELSE "kill")
  /\ UNCHANGED <<dataVars, mapVars, proc, active, lockVars, local>>

RemoveKills(v) ==
  /\ pc[v] = "kill"
  /\ Ended(local[v].old, "removed")
  /\ Goto(v, "forget")
  /\ UNCHANGED <<dataVars, mapVars, serves, active, lockVars, local>>

\* Git may fail to remove a worktree's directory: the entry then stays.
RemoveForgets(v) ==
  /\ pc[v] = "forget"
  /\ known' \in {known, known \ {local[v].ws}}
  /\ Finish(v)
  /\ UNCHANGED <<settings, changes, config, unclaimed, mapVars, procVars, lockVars>>

-----------------------------------------------------------------------------
(* set_workspace_runtime_codex_args: under the spawn lock and the write    *)
(* half of the gate, one runtime of the settings' making for everybody.    *)

Matches(t, r) == proc[r].with = local[t].want
Runs == Primary \cup Pooled

Switch(s, w) ==
  /\ pc[s] = "idle" /\ w \in known
  /\ Goto(s, "lock") /\ Set(s, [local[s] EXCEPT !.ws = w])
  /\ UNCHANGED <<dataVars, mapVars, procVars, lockVars>>

SwitchLocks(s) ==
  /\ pc[s] = "lock" /\ spawnLock = None
  /\ spawnLock' = s
  /\ Goto(s, "gate")
  /\ UNCHANGED <<dataVars, mapVars, procVars, gateWriter, gateReaders, poolLock,
                 settingsLock, local>>

\* What the switch is to make: of the settings, or with the args it was asked for.
TargetRead(s) ==
  \E args \in {settings.args} \cup Overrides :
    Set(s, [local[s] EXCEPT !.want = [settings EXCEPT !.args = args]])

\* mutant: the switch does not wait for the turns that chose their runtime
SwitchIgnoresReaders(s) ==
  /\ pc[s] = "gate" /\ gateWriter = None /\ settingsLock = None
  /\ gateWriter' = s
  /\ Goto(s, "look") /\ TargetRead(s)
  /\ UNCHANGED <<dataVars, mapVars, procVars, spawnLock, gateReaders, poolLock,
                 settingsLock>>

SwitchClosesGate(s) ==
  /\ pc[s] = "gate" /\ gateWriter = None /\ gateReaders = {} /\ settingsLock = None
  /\ gateWriter' = s
  /\ Goto(s, "look") /\ TargetRead(s)
  /\ UNCHANGED <<dataVars, mapVars, procVars, spawnLock, gateReaders, poolLock,
                 settingsLock>>

\* A change of the binary alone waits for the running turns.
Deferred(s) ==
  /\ \A r \in Runs : /\ proc[r].with.profile = local[s].want.profile
                     /\ proc[r].with.args = local[s].want.args
  /\ ~Quiescent(Runs)

SwitchLooks(s) ==
  /\ pc[s] = "look"
  /\ LET nothing == sessions[local[s].ws] = None
         primary == \A r \in Primary : Matches(s, r)
         pooled  == \A r \in Pooled : Matches(s, r)
     IN  Goto(s, IF nothing \/ (primary /\ pooled) \/ Deferred(s) THEN "syncOnly"
                 ELSE IF primary THEN "quietPool" ELSE "quiet")
  /\ UNCHANGED <<dataVars, mapVars, procVars, lockVars, local>>

\* provider_transaction_matches: it does not look at the args.
TransactionMatches(s) ==
  /\ settings.profile = local[s].want.profile
  /\ settings.bin = local[s].want.bin

\* sync_provider_config_if_current
Syncs(s) == TransactionMatches(s) /\ config' = local[s].want.profile

SwitchSyncsOnly(s) ==
  /\ pc[s] = "syncOnly" /\ settingsLock = None
  /\ Syncs(s) \/ UNCHANGED config
  /\ Return(s)
  /\ UNCHANGED <<settings, changes, known, unclaimed, mapVars, procVars>>

SwitchSyncsForPool(s) ==
  /\ pc[s] = "syncPool" /\ settingsLock = None
  /\ \/ Syncs(s) /\ Goto(s, "drain") /\ UNCHANGED <<lockVars, local>>
     \/ UNCHANGED config /\ Return(s)
  /\ UNCHANGED <<settings, changes, known, unclaimed, mapVars, procVars>>

\* ensure_all_runtimes_quiescent, before anything is spawned or closed.
SwitchFindsQuiet(s) ==
  /\ pc[s] \in {"quiet", "quietPool"} /\ Quiescent(Runs)
  /\ Goto(s, IF pc[s] = "quiet" THEN "spawn" ELSE "syncPool")
  /\ UNCHANGED <<dataVars, mapVars, procVars, lockVars, local>>

SwitchFindsTurn(s) ==
  /\ pc[s] \in {"quiet", "quietPool"} /\ ~Quiescent(Runs)
  /\ Return(s)
  /\ UNCHANGED <<dataVars, mapVars, procVars>>

SwitchSpawns(s) ==
  /\ pc[s] = "spawn"
  /\ \E r \in Unused :
       /\ r = CHOOSE u \in Unused : TRUE
       /\ Spawned(r, local[s].want)
       /\ Goto(s, "commit") /\ Set(s, [local[s] EXCEPT !.rt = r])
  /\ UNCHANGED <<dataVars, mapVars, serves, active, lockVars>>

SwitchSpawnFails(s) ==
  /\ pc[s] = "spawn"
  /\ Return(s)
  /\ UNCHANGED <<dataVars, mapVars, procVars>>

\* mutant: the settings are taken to be those of before the spawn
MayCommitStale(s) == Quiescent(Runs)

\* The second look at the settings, and at the turns.
MayCommit(s) == TransactionMatches(s) /\ Quiescent(Runs)

SwitchCommits(s) ==
  /\ pc[s] = "commit" /\ settingsLock = None /\ MayCommit(s)
  /\ settingsLock' = s
  /\ Goto(s, "sync")
  /\ UNCHANGED <<dataVars, mapVars, procVars, spawnLock, gateWriter, gateReaders,
                 poolLock, local>>

SwitchDiscards(s) ==
  /\ \/ pc[s] = "commit" /\ settingsLock = None /\ ~MayCommit(s)
     \/ pc[s] = "sync"     \* the config file could not be written
  /\ Ended({local[s].rt}, "discarded")
  /\ Return(s)
  /\ UNCHANGED <<dataVars, mapVars, serves, active>>

SwitchSyncs(s) ==
  /\ pc[s] = "sync"
  /\ config' = local[s].want.profile
  /\ Goto(s, "publish")
  /\ UNCHANGED <<settings, changes, known, unclaimed, mapVars, procVars, lockVars, local>>

SwitchPublishes(s) ==
  /\ pc[s] = "publish"
  /\ sessions' = [w \in Workspaces |-> IF w \in Connected THEN local[s].rt ELSE None]
  /\ settingsLock' = None
  /\ Goto(s, "enlist")
  /\ Set(s, [local[s] EXCEPT !.old = Primary, !.keys = Connected])
  /\ unclaimed' = IF Connected = {} THEN unclaimed \cup {local[s].rt} ELSE unclaimed
  /\ UNCHANGED <<settings, changes, config, known, pool, procVars, spawnLock,
                 gateWriter, gateReaders, poolLock>>

SwitchEnlists(s) ==
  /\ pc[s] = "enlist"
  /\ serves' = [serves EXCEPT ![local[s].rt] = @ \cup local[s].keys]
  /\ Goto(s, "drain")
  /\ UNCHANGED <<dataVars, mapVars, proc, active, lockVars, local>>

\* mutant: the pool is left to find out by itself
SwitchDrainsNothing(s) ==
  /\ pc[s] = "drain" /\ poolLock = None
  /\ Goto(s, "terminate")
  /\ UNCHANGED <<dataVars, mapVars, procVars, lockVars, local>>

\* take_all
SwitchDrains(s) ==
  /\ pc[s] = "drain" /\ poolLock = None
  /\ pool' = [k \in Sources |-> None]
  /\ Goto(s, "terminate") /\ Set(s, [local[s] EXCEPT !.old = @ \cup Pooled])
  /\ UNCHANGED <<dataVars, sessions, procVars, lockVars>>

SwitchTerminates(s) ==
  /\ pc[s] = "terminate"
  /\ Ended(local[s].old \ {local[s].rt}, "switched")
  /\ Return(s)
  /\ UNCHANGED <<dataVars, mapVars, serves, active>>

-----------------------------------------------------------------------------
(* send_user_message, which holds the read half of the gate until the      *)
(* process has answered, and review/start, which does not know the gate.   *)
(* A thread bound to another source runs on that source's pooled runtime.  *)

Start(t, w, k) ==
  /\ pc[t] = "idle"
  /\ t \in Turns => gateWriter = None
  /\ gateReaders' = gateReaders \cup ({t} \cap Turns)
  /\ Goto(t, IF k = None THEN "resolve" ELSE "takeIdle")
  /\ Set(t, [local[t] EXCEPT !.ws = w, !.source = k])
  /\ UNCHANGED <<dataVars, mapVars, procVars, spawnLock, gateWriter, poolLock,
                 settingsLock>>

\* get_session_clone
ResolveShared(t) ==
  /\ pc[t] = "resolve"
  /\ LET r == sessions[local[t].ws]
     IN  IF r = None THEN Return(t)
         ELSE Goto(t, "mark") /\ Set(t, [local[t] EXCEPT !.rt = r]) /\ UNCHANGED lockVars
  /\ UNCHANGED <<dataVars, mapVars, procVars>>

\* Somebody but the pool and the reader task holds the session.
Borrowed(r) == \E t \in Tasks : /\ pc[t] \notin {"idle", "turn", "done"}
                                /\ r = local[t].rt \/ r \in local[t].old
MayBeIdle(k) == Idles /\ pool[k] # None /\ ~Borrowed(pool[k])

\* close_idle: nothing has asked the pool for these for idle_timeout.
TakeIdle(t) ==
  /\ pc[t] = "takeIdle" /\ settingsLock = None
  /\ \E idle \in SUBSET {k \in Sources : MayBeIdle(k)} :
       /\ pool' = [k \in Sources |-> IF k \in idle THEN None ELSE pool[k]]
       /\ Set(t, [local[t] EXCEPT !.want = settings, !.old = {pool[k] : k \in idle}])
  /\ Goto(t, "shutIdle")
  /\ UNCHANGED <<dataVars, sessions, procVars, lockVars>>

ShutIdle(t) ==
  /\ pc[t] = "shutIdle"
  /\ Ended(local[t].old, "idled")
  /\ Goto(t, "pool") /\ Set(t, [local[t] EXCEPT !.old = {}])
  /\ UNCHANGED <<dataVars, mapVars, serves, active, lockVars>>

\* get_or_spawn_workspace_session_for_source_purpose_with_status
InUse(r) == active[r] # {} \/ Pending(r) # {}

\* mutant: the pool waits for the workspaces' spawn lock
FindPooledBehindSpawns(t) ==
  /\ pc[t] = "pool" /\ poolLock = None /\ spawnLock = None
  /\ LET r == pool[local[t].source]
         keep == Alive(r) /\ (proc[r].with.bin = local[t].want.bin \/ InUse(r))
     IN  /\ poolLock' = IF keep THEN None ELSE t
         /\ Goto(t, IF keep THEN "enlist" ELSE "spawnPool")
         /\ Set(t, [local[t] EXCEPT !.rt = IF keep THEN r ELSE None,
                                    !.old = IF keep THEN {} ELSE {r} \ {None}])
  /\ UNCHANGED <<dataVars, mapVars, procVars, spawnLock, gateWriter, gateReaders,
                 settingsLock>>

FindPooled(t) ==
  /\ pc[t] = "pool" /\ poolLock = None
  /\ LET r == pool[local[t].source]
         keep == Alive(r) /\ (proc[r].with.bin = local[t].want.bin \/ InUse(r))
     IN  /\ poolLock' = IF keep THEN None ELSE t
         /\ Goto(t, IF keep THEN "enlist" ELSE "spawnPool")
         /\ Set(t, [local[t] EXCEPT !.rt = IF keep THEN r ELSE None,
                                    !.old = IF keep THEN {} ELSE {r} \ {None}])
  /\ UNCHANGED <<dataVars, mapVars, procVars, spawnLock, gateWriter, gateReaders,
                 settingsLock>>

SpawnPooled(t) ==
  /\ pc[t] = "spawnPool" /\ settingsLock = None
  /\ \E r \in Unused :
       /\ r = CHOOSE u \in Unused : TRUE
       /\ Spawned(r, [local[t].want EXCEPT !.profile = settings.profile])
       /\ Goto(t, "replace") /\ Set(t, [local[t] EXCEPT !.rt = r])
  /\ UNCHANGED <<dataVars, mapVars, serves, active, lockVars>>

SpawnPooledFails(t) ==
  /\ pc[t] = "spawnPool"
  /\ Return(t)
  /\ UNCHANGED <<dataVars, mapVars, procVars>>

\* The previous runtime was given a turn meanwhile: it stays.
KeepPrevious(t) ==
  /\ pc[t] = "replace"
  /\ \E r \in local[t].old :
       /\ InUse(r)
       /\ Ended({local[t].rt}, "discarded")
       /\ Set(t, [local[t] EXCEPT !.rt = r, !.old = {}])
  /\ poolLock' = None
  /\ Goto(t, "enlist")
  /\ UNCHANGED <<dataVars, mapVars, serves, active, spawnLock, gateWriter, gateReaders,
                 settingsLock>>

Replace(t) ==
  /\ pc[t] = "replace" /\ \A r \in local[t].old : ~InUse(r)
  /\ pool' = [pool EXCEPT ![local[t].source] = local[t].rt]
  /\ Goto(t, "retire")
  /\ UNCHANGED <<dataVars, sessions, procVars, lockVars, local>>

Retire(t) ==
  /\ pc[t] = "retire"
  /\ Ended(local[t].old, "replaced")
  /\ poolLock' = None
  /\ Goto(t, "resume") /\ Set(t, [local[t] EXCEPT !.old = {}])
  /\ UNCHANGED <<dataVars, mapVars, serves, active, spawnLock, gateWriter, gateReaders,
                 settingsLock>>

\* The rest of source_runtime_for_bound_thread: a new process is asked to
\* resume the thread, which may fail.
Enlist(t) ==
  /\ pc[t] \in {"enlist", "resume"}
  /\ serves' = [serves EXCEPT ![local[t].rt] = @ \cup {local[t].ws}]
  /\ \/ Goto(t, "mark") /\ UNCHANGED <<lockVars, local>>
     \/ pc[t] = "resume" /\ Return(t)
  /\ UNCHANGED <<dataVars, mapVars, proc, active>>

\* send_request_for_workspace: turn/start is marked before it is written.
Send(t) ==
  /\ pc[t] = "mark" /\ Alive(local[t].rt)
  /\ serves' = [serves EXCEPT ![local[t].rt] = @ \cup {local[t].ws}]
  /\ active' = IF t \in Turns THEN [active EXCEPT ![local[t].rt] = @ \cup {t}] ELSE active
  /\ Goto(t, "sent")
  /\ UNCHANGED <<dataVars, mapVars, proc, lockVars, local>>

SendFails(t) ==
  /\ pc[t] = "mark" /\ ~Alive(local[t].rt)
  /\ Return(t)
  /\ UNCHANGED <<dataVars, mapVars, procVars>>

-----------------------------------------------------------------------------
(* The processes, and what a session's reader makes of them; the order in  *)
(* which it empties its maps is AppServerSession's subject.                *)

\* turn/started and the answer to the request
Accept(t) ==
  /\ pc[t] = "sent" /\ Alive(local[t].rt)
  /\ active' = [active EXCEPT ![local[t].rt] = @ \cup {t}]
  /\ gateReaders' = gateReaders \ {t}
  /\ Goto(t, "turn")
  /\ UNCHANGED <<dataVars, mapVars, proc, serves, spawnLock, gateWriter, poolLock,
                 settingsLock, local>>

\* An error for an answer, or none within REQUEST_TIMEOUT.
Refuse(t) ==
  /\ pc[t] = "sent"
  /\ active' = [active EXCEPT ![local[t].rt] = @ \ {t}]
  /\ Return(t)
  /\ UNCHANGED <<dataVars, mapVars, proc, serves>>

Complete(t) ==
  /\ pc[t] = "turn" /\ Alive(local[t].rt)
  /\ active' = [active EXCEPT ![local[t].rt] = @ \ {t}]
  /\ Finish(t)
  /\ UNCHANGED <<dataVars, mapVars, proc, serves, lockVars>>

Exit(r) ==
  /\ Exits /\ Alive(r)
  /\ Ended({r}, "exited")
  /\ UNCHANGED <<dataVars, mapVars, serves, active, lockVars, taskVars>>

Waiting(r) == {t \in Starts : pc[t] \in {"sent", "turn"} /\ local[t].rt = r}

\* The end of a process' output fails its requests and forgets its turns.
OutputEnds(r) ==
  /\ proc[r].state \notin {"unused", "running"} /\ Waiting(r) # {}
  /\ active' = [active EXCEPT ![r] = {}]
  /\ pc' = [t \in Tasks |-> IF t \in Waiting(r) THEN "done" ELSE pc[t]]
  /\ local' = [t \in Tasks |-> IF t \in Waiting(r)
                                 THEN [local[t] EXCEPT !.rt = None] ELSE local[t]]
  /\ gateReaders' = gateReaders \ Waiting(r)
  /\ UNCHANGED <<dataVars, mapVars, proc, serves, spawnLock, gateWriter, poolLock,
                 settingsLock>>

-----------------------------------------------------------------------------
ConnectStep(c) ==
  \/ \E w \in Workspaces : Connect(c, w)
  \/ ConnectLocks(c) \/ ConnectFindsOwn(c) \/ ConnectLooksForShared(c)
  \/ ConnectReuses(c) \/ ConnectPasses(c) \/ ConnectSpawns(c)
  \/ ConnectSpawnFails(c) \/ ConnectRegisters(c) \/ ConnectInserts(c)

RemoveStep(v) ==
  \/ \E w \in Workspaces : RemoveTakes(v, w)
  \/ RemoveUnregisters(v) \/ RemoveKills(v) \/ RemoveForgets(v)

SwitchStep(s) ==
  \/ \E w \in Workspaces : Switch(s, w)
  \/ SwitchLocks(s) \/ SwitchClosesGate(s) \/ SwitchLooks(s)
  \/ SwitchSyncsOnly(s) \/ SwitchSyncsForPool(s)
  \/ SwitchFindsQuiet(s) \/ SwitchFindsTurn(s)
  \/ SwitchSpawns(s) \/ SwitchSpawnFails(s) \/ SwitchCommits(s) \/ SwitchDiscards(s)
  \/ SwitchSyncs(s) \/ SwitchPublishes(s) \/ SwitchEnlists(s) \/ SwitchDrains(s)
  \/ SwitchTerminates(s)

StartStep(t) ==
  \/ \E w \in Workspaces, k \in Sources \cup {None} : Start(t, w, k)
  \/ ResolveShared(t) \/ TakeIdle(t) \/ ShutIdle(t)
  \/ FindPooled(t) \/ SpawnPooled(t) \/ SpawnPooledFails(t)
  \/ KeepPrevious(t) \/ Replace(t) \/ Retire(t) \/ Enlist(t)
  \/ Send(t) \/ SendFails(t) \/ Accept(t) \/ Refuse(t) \/ Complete(t)

Environment ==
  \/ \E new \in Settings : ChangeSettings(new)
  \/ \E r \in Runtimes : Exit(r) \/ OutputEnds(r)

Next ==
  \/ \E c \in Connects : ConnectStep(c)
  \/ \E v \in Removes : RemoveStep(v)
  \/ \E s \in Switches : SwitchStep(s)
  \/ \E t \in Starts : StartStep(t)
  \/ Environment

Spec == Init /\ [][Next]_vars

\* A call in progress goes on; tokio's mutexes and its RwLock serve their
\* waiters in order; a request is answered or times out; the user need not
\* call anything and a turn need not end.
Fairness ==
  /\ \A c \in Connects : SF_vars(pc[c] # "idle" /\ ConnectStep(c))
  /\ \A v \in Removes : WF_vars(pc[v] # "idle" /\ RemoveStep(v))
  /\ \A s \in Switches : SF_vars(pc[s] # "idle" /\ SwitchStep(s))
  /\ \A t \in Starts : SF_vars(pc[t] \notin {"idle", "turn"} /\ StartStep(t))

FairSpec == Spec /\ Fairness

-----------------------------------------------------------------------------
(* Properties. *)

EndsAs(r, how) == proc[r].state # how /\ proc'[r].state = how

\* A Provider switch ends no runtime that works on a turn, nor one that a turn
\* has already been given: the read half of the gate keeps the turn and the
\* choice of its runtime on one side of the switch.
EndsSparingly ==
  \A r \in Runtimes : EndsAs(r, "switched") =>
       /\ active[r] = {} /\ Waiting(r) = {}
       /\ \A t \in Turns : pc[t] # "done" => local[t].rt # r

\* When a switch publishes its runtime, the settings still ask for its binary and
\* its Provider, the config file names the same, and no workspace is left on
\* another runtime or on other args than the switch has read.
PublishesTarget ==
  \A s \in Switches : pc[s] = "publish" /\ pc'[s] # "publish" =>
       /\ config = settings.profile
       /\ \A w \in Connected :
            /\ sessions'[w] # None
            /\ proc[sessions'[w]].with = [settings EXCEPT !.args = local[s].want.args]

\* A switch that replaced the runtimes leaves none of an older making to run
\* anything: neither for a workspace nor in the pool.
LeavesOneMaking ==
  \A s \in Switches : pc[s] = "terminate" /\ pc'[s] = "done" =>
       \A r \in Runs : proc'[r].state = "running" => Matches(s, r)

\* Workspaces share: two processes of one binary never serve the session map.
OneProcessPerBin ==
  \A r, q \in Primary :
    Alive(r) /\ Alive(q) /\ proc[r].with.bin = proc[q].with.bin => r = q

\* A process that runs can be reached: it is in the map, in the pool, or in the
\* hands of a call that will put it there or end it.  Only a switch that found
\* its last workspace removed leaves one that nobody has.
NoStrays ==
  \A r \in Runtimes : Alive(r) => r \in Runs \/ Borrowed(r) \/ r \in unclaimed

SwitchSparesTurns == [][EndsSparingly]_vars
PublishedIsTarget == [][PublishesTarget]_vars
SwitchLeavesOneMaking == [][LeavesOneMaking]_vars

\* Every call comes to an end, whatever locks it waits for: the spawn lock, the
\* gate, the pool's lock and the settings are never held in a circle.
CallsEnd ==
  \A t \in Tasks : pc[t] \notin {"idle", "turn"} ~> pc[t] \in {"turn", "done"}

-----------------------------------------------------------------------------
(* Not promised by the code: TLC refutes them, no run checks them. *)

\* What a switch without an override publishes has the settings' args: they may be
\* edited while the process is spawned.
PublishedHasArgs ==
  [][\A s \in Switches : pc[s] = "publish" /\ pc'[s] # "publish" =>
       \A w \in Connected : proc[sessions'[w]].with = settings]_vars

\* The pool gives up a runtime for a newer binary only when it has no turn.
ReplacementSparesTurns ==
  [][\A r \in Runtimes : EndsAs(r, "replaced") => active[r] = {}]_vars

\* Closing what is idle ends no runtime with a turn.
IdleSparesTurns ==
  [][\A r \in Runtimes : EndsAs(r, "idled") => active[r] = {}]_vars
=============================================================================
