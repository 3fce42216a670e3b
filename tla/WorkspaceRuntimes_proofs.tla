----------------------- MODULE WorkspaceRuntimes_proofs -----------------------
(***************************************************************************)
(* Proofs about WorkspaceRuntimes, for any workspaces, sources, processes   *)
(* and calls, any number of edits of the settings, with or without idle     *)
(* closing and processes that exit.                                         *)
(***************************************************************************)
EXTENDS WorkspaceRuntimes, TLAPS

-----------------------------------------------------------------------------
(* What a step does to the call that takes it: where it goes, and what it   *)
(* has in hand afterwards.  The other calls stay as they are.               *)

PCMoves(t)    == /\ pc' \in [Tasks -> PCs]
                 /\ \A q \in Tasks : q # t => pc'[q] = pc[q]
LocalMoves(t) == /\ local' \in [Tasks -> Locals]
                 /\ \A q \in Tasks : q # t => local'[q] = local[q]

\* The calls are of different kinds, and none of them is None.
LEMMA Apart ==
  /\ \A c \in Connects : c \in Tasks /\ c # None /\ c \notin Removes \cup Switches \cup Starts
  /\ \A v \in Removes : v \in Tasks /\ v # None /\ v \notin Connects \cup Switches \cup Starts
  /\ \A s \in Switches : s \in Tasks /\ s # None /\ s \notin Connects \cup Removes \cup Starts
  /\ \A t \in Starts : t \in Tasks /\ t # None /\ t \notin Connects \cup Removes \cup Switches
  /\ Turns \subseteq Starts /\ None \notin Tasks
BY TasksAssumption DEF Tasks, Starts

\* What a call has in hand is typed.
LEMMA Fields ==
  ASSUME TypeOK, NEW t \in Tasks
  PROVE  /\ local[t].ws \in Workspaces /\ local[t].source \in Sources \cup {None}
         /\ local[t].rt \in Runtimes \cup {None} /\ local[t].want \in Settings
         /\ local[t].old \in SUBSET Runtimes /\ local[t].keys \in SUBSET Workspaces
BY DEF TypeOK, Locals

\* The maps, the processes and the settings are typed.
LEMMA Maps ==
  ASSUME TypeOK
  PROVE  /\ settings \in Settings
         /\ \A w \in Workspaces : sessions[w] \in Runtimes \cup {None}
         /\ \A k \in Sources : pool[k] \in Runtimes \cup {None}
         /\ Primary \subseteq Runtimes /\ Pooled \subseteq Runtimes /\ Runs \subseteq Runtimes
         /\ None \notin Primary /\ None \notin Pooled
         /\ \A r \in Runtimes : proc[r].state \in ProcState /\ proc[r].with \in Settings
BY DEF TypeOK, Primary, Pooled, Runs, Connected

\* What every call has is typed.
LEMMA AllFields == TypeOK => local \in [Tasks -> Locals]
BY DEF TypeOK

\* A step changes one place only.
LEMMA Went ==
  ASSUME TypeOK, NEW t \in Tasks, NEW label \in PCs, Goto(t, label)
  PROVE  PCMoves(t) /\ pc'[t] = label
BY DEF TypeOK, Goto, PCMoves

\* A call takes up a workspace.
LEMMA TookWorkspace ==
  ASSUME TypeOK, NEW t \in Tasks, NEW w \in Workspaces,
         Set(t, [local[t] EXCEPT !.ws = w])
  PROVE  /\ LocalMoves(t)
         /\ local'[t].ws = w /\ local'[t].source = local[t].source
         /\ local'[t].rt = local[t].rt /\ local'[t].want = local[t].want
         /\ local'[t].old = local[t].old
BY AllFields DEF Set, Locals, LocalMoves

\* A call takes up a runtime.
LEMMA TookRuntime ==
  ASSUME TypeOK, NEW t \in Tasks, NEW r \in Runtimes \cup {None},
         Set(t, [local[t] EXCEPT !.rt = r])
  PROVE  /\ LocalMoves(t)
         /\ local'[t].rt = r /\ local'[t].ws = local[t].ws
         /\ local'[t].source = local[t].source
         /\ local'[t].want = local[t].want /\ local'[t].old = local[t].old
BY AllFields DEF Set, Locals, LocalMoves

\* A call takes up runtimes to look at or to end.
LEMMA TookOld ==
  ASSUME TypeOK, NEW t \in Tasks, NEW R \in SUBSET Runtimes,
         Set(t, [local[t] EXCEPT !.old = R])
  PROVE  /\ LocalMoves(t)
         /\ local'[t].old = R /\ local'[t].ws = local[t].ws
         /\ local'[t].source = local[t].source /\ local'[t].rt = local[t].rt
         /\ local'[t].want = local[t].want
BY AllFields DEF Set, Locals, LocalMoves

\* A call reads the settings.
LEMMA TookSettings ==
  ASSUME TypeOK, NEW t \in Tasks, NEW x \in Settings,
         Set(t, [local[t] EXCEPT !.want = x])
  PROVE  /\ LocalMoves(t)
         /\ local'[t].want = x /\ local'[t].ws = local[t].ws
         /\ local'[t].source = local[t].source /\ local'[t].rt = local[t].rt
         /\ local'[t].old = local[t].old
BY AllFields DEF Set, Locals, LocalMoves

\* A switch takes up what it has replaced.
LEMMA TookReplaced ==
  ASSUME TypeOK, NEW t \in Tasks, NEW R \in SUBSET Runtimes, NEW K \in SUBSET Workspaces,
         Set(t, [local[t] EXCEPT !.old = R, !.keys = K])
  PROVE  /\ LocalMoves(t)
         /\ local'[t].old = R /\ local'[t].ws = local[t].ws
         /\ local'[t].source = local[t].source /\ local'[t].rt = local[t].rt
         /\ local'[t].want = local[t].want
BY AllFields DEF Set, Locals, LocalMoves

\* A start takes up the idle runtimes of the pool.
LEMMA TookIdle ==
  ASSUME TypeOK, NEW t \in Tasks, NEW x \in Settings, NEW R \in SUBSET Runtimes,
         Set(t, [local[t] EXCEPT !.want = x, !.old = R])
  PROVE  /\ LocalMoves(t)
         /\ local'[t].want = x /\ local'[t].old = R
         /\ local'[t].ws = local[t].ws /\ local'[t].source = local[t].source
         /\ local'[t].rt = local[t].rt
BY AllFields DEF Set, Locals, LocalMoves

\* A session is forgotten where it was.
LEMMA TypeForgotten ==
  ASSUME TypeOK, NEW r
  PROVE  Forgotten(r) \in [Workspaces -> Runtimes \cup {None}]
BY DEF TypeOK, Forgotten

\* A call that ends has nothing in hand.
LEMMA Finished ==
  ASSUME TypeOK, NEW t \in Tasks, Finish(t)
  PROVE  /\ PCMoves(t) /\ LocalMoves(t)
         /\ pc'[t] = "done" /\ local'[t].rt = None /\ local'[t].old = {}
         /\ local'[t].ws = local[t].ws
<1>1. PCMoves(t) /\ pc'[t] = "done"
  BY Went DEF Finish, PCs
<1>2. local \in [Tasks -> Locals]
  BY DEF TypeOK
<1>3. QED
  BY <1>1, <1>2 DEF Finish, Set, Locals, LocalMoves

\* A call that returns drops its locks too, and nobody else's.
LEMMA Returned ==
  ASSUME TypeOK, NEW t \in Tasks, Return(t)
  PROVE  /\ PCMoves(t) /\ LocalMoves(t)
         /\ pc'[t] = "done" /\ local'[t].rt = None /\ local'[t].old = {}
         /\ local'[t].ws = local[t].ws
         /\ {spawnLock', gateWriter', poolLock', settingsLock'} \subseteq Tasks \cup {None}
         /\ gateReaders' \subseteq Turns
BY Finished DEF Return, Freed, TypeOK

\* A connection begins.
LEMMA DidConnect ==
  ASSUME TypeOK, NEW c \in Connects, NEW w \in Workspaces, Connect(c, w)
  PROVE  /\ PCMoves(c) /\ LocalMoves(c)
         /\ pc'[c] = "lock"
         /\ local'[c].ws = w /\ local'[c].source = local[c].source
         /\ local'[c].rt = local[c].rt /\ local'[c].want = local[c].want
         /\ local'[c].old = local[c].old
<1>0. c \in Tasks
  BY DEF Tasks, Starts
<1>2. QED
  BY <1>0, Went, TookWorkspace, Fields, Maps DEF Connect, PCs

\* It has the spawn lock and reads the map.
LEMMA DidConnectLocks ==
  ASSUME TypeOK, NEW c \in Connects, ConnectLocks(c)
  PROVE  /\ PCMoves(c) /\ LocalMoves(c)
         /\ pc'[c] = "own"
         /\ local'[c].rt = sessions[local[c].ws] /\ local'[c].ws = local[c].ws
         /\ local'[c].source = local[c].source
         /\ local'[c].want = local[c].want /\ local'[c].old = local[c].old
<1>0. c \in Tasks
  BY DEF Tasks, Starts
<1>1. sessions[local[c].ws] \in Runtimes \cup {None}
  BY <1>0, Fields, Maps
<1>2. QED
  BY <1>0, <1>1, Went, TookRuntime, Fields, Maps DEF ConnectLocks, PCs

\* It has the runtimes of the map for candidates.
LEMMA DidConnectLooksForShared ==
  ASSUME TypeOK, NEW c \in Connects, ConnectLooksForShared(c)
  PROVE  /\ PCMoves(c) /\ LocalMoves(c)
         /\ pc'[c] = "reuse"
         /\ local'[c].rt = None /\ local'[c].want = settings
         /\ local'[c].old = {sessions'[w] : w \in Workspaces} \ {None}
         /\ local'[c].ws = local[c].ws /\ local'[c].source = local[c].source
<1>0. c \in Tasks
  BY DEF Tasks, Starts
<1>1. sessions' \in [Workspaces -> Runtimes \cup {None}]
  BY TypeForgotten DEF ConnectLooksForShared, TypeOK
<1>2. {sessions'[w] : w \in Workspaces} \ {None} \in SUBSET Runtimes
  BY <1>1
<1> DEFINE R == {sessions'[w] : w \in Workspaces} \ {None}
<1>3. Goto(c, "reuse") /\ Set(c, [local[c] EXCEPT !.want = settings, !.rt = None, !.old = R])
  BY DEF ConnectLooksForShared
<1>4. R \in SUBSET Runtimes
  BY <1>2
<1> HIDE DEF R
<1>5. /\ PCMoves(c) /\ LocalMoves(c) /\ pc'[c] = "reuse"
      /\ local'[c].rt = None /\ local'[c].want = settings /\ local'[c].old = R
      /\ local'[c].ws = local[c].ws /\ local'[c].source = local[c].source
  <2>1. PCMoves(c) /\ pc'[c] = "reuse"
    BY <1>0, <1>3, Went DEF PCs
  <2>2. QED
    BY <1>0, <1>3, <1>4, <2>1, Maps, AllFields DEF Set, Locals, LocalMoves
<1>6. QED
  BY <1>5 DEF R

\* It shares one of them.
LEMMA DidConnectReuses ==
  ASSUME TypeOK, NEW c \in Connects, ConnectReuses(c)
  PROVE  \E r \in local[c].old :
           /\ PCMoves(c) /\ LocalMoves(c) /\ pc'[c] = "register"
           /\ Alive(r) /\ proc[r].with.bin = local[c].want.bin
           /\ local'[c].rt = r /\ local'[c].old = {}
           /\ local'[c].ws = local[c].ws /\ local'[c].want = local[c].want
<1>1. PICK r \in local[c].old :
        /\ Alive(r) /\ proc[r].with.bin = local[c].want.bin
        /\ Goto(c, "register") /\ Set(c, [local[c] EXCEPT !.rt = r, !.old = {}])
  BY DEF ConnectReuses
<1>2. c \in Tasks /\ r \in Runtimes \cup {None} /\ {} \in SUBSET Runtimes
  BY Fields DEF Tasks
<1>3. PCMoves(c) /\ pc'[c] = "register"
  BY <1>1, <1>2, Went DEF PCs
<1>4. QED
  BY <1>1, <1>2, <1>3, AllFields DEF Set, Locals, LocalMoves

\* It passes over one of them.
LEMMA DidConnectPasses ==
  ASSUME TypeOK, NEW c \in Connects, ConnectPasses(c)
  PROVE  \E r \in local[c].old :
           /\ PCMoves(c) /\ LocalMoves(c) /\ pc'[c] = "reuse"
           /\ ~(Alive(r) /\ proc[r].with.bin = local[c].want.bin)
           /\ sessions' = IF Alive(r) THEN sessions ELSE Forgotten(r)
           /\ local'[c].old = local[c].old \ {r} /\ local'[c].rt = local[c].rt
           /\ local'[c].ws = local[c].ws /\ local'[c].want = local[c].want
<1>1. PICK r \in local[c].old :
        /\ ~(Alive(r) /\ proc[r].with.bin = local[c].want.bin)
        /\ sessions' = IF Alive(r) THEN sessions ELSE Forgotten(r)
        /\ Set(c, [local[c] EXCEPT !.old = local[c].old \ {r}])
  BY DEF ConnectPasses
<1>2. c \in Tasks /\ local[c].old \ {r} \in SUBSET Runtimes
  BY Fields DEF Tasks
<1>3. PCMoves(c) /\ pc'[c] = "reuse"
  BY DEF ConnectPasses, PCMoves, TypeOK
<1>4. QED
  BY <1>1, <1>2, <1>3, TookOld

\* It starts a process of its own.
LEMMA DidConnectSpawns ==
  ASSUME TypeOK, NEW c \in Connects, ConnectSpawns(c)
  PROVE  \E r \in Unused :
           /\ PCMoves(c) /\ LocalMoves(c) /\ pc'[c] = "register"
           /\ Spawned(r, [local[c].want EXCEPT !.profile = settings.profile])
           /\ local'[c].rt = r /\ local'[c].old = {}
           /\ local'[c].ws = local[c].ws /\ local'[c].want = local[c].want
<1>1. PICK r \in Unused :
        /\ Spawned(r, [local[c].want EXCEPT !.profile = settings.profile])
        /\ Goto(c, "register") /\ Set(c, [local[c] EXCEPT !.rt = r])
  BY DEF ConnectSpawns
<1>2. c \in Tasks /\ r \in Runtimes \cup {None} /\ local[c].old = {}
  BY DEF Tasks, Unused, ConnectSpawns
<1>3. QED
  BY <1>1, <1>2, Went, TookRuntime DEF PCs

\* A removal takes the session out of the map.
LEMMA DidRemoveTakes ==
  ASSUME TypeOK, NEW v \in Removes, NEW w \in Workspaces, RemoveTakes(v, w)
  PROVE  /\ PCMoves(v) /\ LocalMoves(v)
         /\ pc'[v] = IF sessions[w] = None THEN "forget" ELSE "unregister"
         /\ local'[v].ws = w /\ local'[v].rt = sessions[w]
         /\ local'[v].old = IF \E x \in Workspaces \ {w} : sessions[x] = sessions[w]
                              THEN {} ELSE {sessions[w]} \ {None}
<1> DEFINE r == sessions[w]
           R == IF \E x \in Workspaces \ {w} : sessions[x] = r THEN {} ELSE {r} \ {None}
           label == IF r = None THEN "forget" ELSE "unregister"
<1>1. Goto(v, label) /\ Set(v, [local[v] EXCEPT !.ws = w, !.rt = r, !.old = R])
  BY DEF RemoveTakes
<1>2. /\ v \in Tasks /\ label \in PCs
      /\ r \in Runtimes \cup {None} /\ R \in SUBSET Runtimes
  BY Maps DEF Tasks, PCs
<1> HIDE DEF R, label
<1>3. PCMoves(v) /\ pc'[v] = label
  BY <1>1, <1>2, Went
<1>4. LocalMoves(v) /\ local'[v].ws = w /\ local'[v].rt = r /\ local'[v].old = R
  BY <1>1, <1>2, AllFields DEF Set, Locals, LocalMoves
<1>5. QED
  BY <1>3, <1>4 DEF R, label

\* A switch begins.
LEMMA DidSwitch ==
  ASSUME TypeOK, NEW s \in Switches, NEW w \in Workspaces, Switch(s, w)
  PROVE  /\ PCMoves(s) /\ LocalMoves(s) /\ pc'[s] = "lock"
         /\ local'[s].rt = local[s].rt /\ local'[s].old = local[s].old
<1>1. s \in Tasks
  BY DEF Tasks
<1>2. QED
  BY <1>1, Went, TookWorkspace DEF Switch, PCs

\* It closes the gate and reads what it is to make.
LEMMA DidSwitchClosesGate ==
  ASSUME TypeOK, NEW s \in Switches, SwitchClosesGate(s)
  PROVE  /\ PCMoves(s) /\ LocalMoves(s) /\ pc'[s] = "look"
         /\ local'[s].rt = local[s].rt /\ local'[s].old = local[s].old
<1>1. s \in Tasks /\ Goto(s, "look") /\ TargetRead(s)
  BY DEF Tasks, SwitchClosesGate
<1>2. PICK args \in {settings.args} \cup Overrides :
        Set(s, [local[s] EXCEPT !.want = [settings EXCEPT !.args = args]])
  BY <1>1 DEF TargetRead
<1>3. [settings EXCEPT !.args = args] \in Settings
  BY <1>2, Maps, SettingsAssumption DEF Settings
<1>4. QED
  BY <1>1, <1>2, <1>3, Went, TookSettings DEF PCs

\* It starts the process that is to replace the others.
LEMMA DidSwitchSpawns ==
  ASSUME TypeOK, NEW s \in Switches, SwitchSpawns(s)
  PROVE  \E r \in Unused :
           /\ PCMoves(s) /\ LocalMoves(s) /\ pc'[s] = "commit"
           /\ Spawned(r, local[s].want)
           /\ local'[s].rt = r /\ local'[s].old = local[s].old
           /\ local'[s].want = local[s].want
<1>1. PICK r \in Unused : /\ Spawned(r, local[s].want)
                          /\ Goto(s, "commit") /\ Set(s, [local[s] EXCEPT !.rt = r])
  BY DEF SwitchSpawns
<1>2. s \in Tasks /\ r \in Runtimes \cup {None}
  BY DEF Tasks, Unused
<1>3. QED
  BY <1>1, <1>2, Went, TookRuntime DEF PCs

\* It has the runtimes it replaced.
LEMMA DidSwitchPublishes ==
  ASSUME TypeOK, NEW s \in Switches, SwitchPublishes(s)
  PROVE  /\ PCMoves(s) /\ LocalMoves(s) /\ pc'[s] = "enlist"
         /\ local'[s].rt = local[s].rt /\ local'[s].want = local[s].want
         /\ local'[s].old = Primary
<1>1. s \in Tasks /\ Primary \in SUBSET Runtimes /\ Connected \in SUBSET Workspaces
  BY Maps DEF Tasks, Connected
<1>2. QED
  BY <1>1, Went, TookReplaced DEF SwitchPublishes, PCs

\* It has those of the pool as well.
LEMMA DidSwitchDrains ==
  ASSUME TypeOK, NEW s \in Switches, SwitchDrains(s)
  PROVE  /\ PCMoves(s) /\ LocalMoves(s) /\ pc'[s] = "terminate"
         /\ local'[s].rt = local[s].rt /\ local'[s].want = local[s].want
         /\ local'[s].old = local[s].old \cup Pooled
<1>1. s \in Tasks /\ local[s].old \cup Pooled \in SUBSET Runtimes
  BY Maps, Fields DEF Tasks
<1>2. Goto(s, "terminate") /\ Set(s, [local[s] EXCEPT !.old = local[s].old \cup Pooled])
  BY DEF SwitchDrains
<1>3. QED
  BY <1>1, <1>2, Went, TookOld DEF PCs

\* A turn or a review begins.
LEMMA DidStart ==
  ASSUME TypeOK, NEW t \in Starts, NEW w \in Workspaces, NEW k \in Sources \cup {None},
         Start(t, w, k)
  PROVE  /\ PCMoves(t) /\ LocalMoves(t)
         /\ pc'[t] = IF k = None THEN "resolve" ELSE "takeIdle"
         /\ local'[t].source = k
         /\ local'[t].rt = local[t].rt /\ local'[t].old = local[t].old
<1> DEFINE label == IF k = None THEN "resolve" ELSE "takeIdle"
<1>1. t \in Tasks /\ label \in PCs
  BY DEF Tasks, Starts, PCs
<1>2. Goto(t, label) /\ Set(t, [local[t] EXCEPT !.ws = w, !.source = k])
  BY DEF Start
<1> HIDE DEF label
<1>3. PCMoves(t) /\ pc'[t] = label
  BY <1>1, <1>2, Went
<1>4. LocalMoves(t) /\ local'[t].source = k /\ local'[t].rt = local[t].rt /\ local'[t].old = local[t].old
  BY <1>1, <1>2, AllFields DEF Set, Locals, LocalMoves
<1>5. QED
  BY <1>3, <1>4 DEF label

\* It finds the runtime of its workspace, or ends.
LEMMA DidResolveShared ==
  ASSUME TypeOK, NEW t \in Starts, ResolveShared(t)
  PROVE  \/ Return(t)
         \/ /\ PCMoves(t) /\ LocalMoves(t) /\ pc'[t] = "mark"
            /\ local'[t].rt = sessions[local[t].ws] /\ local'[t].rt # None
            /\ local'[t].old = local[t].old /\ local'[t].source = local[t].source
            /\ UNCHANGED lockVars
<1>1. t \in Tasks
  BY DEF Tasks, Starts
<1>2. sessions[local[t].ws] \in Runtimes \cup {None}
  BY <1>1, Fields, Maps
<1>3. QED
  BY <1>1, <1>2, Went, TookRuntime DEF ResolveShared, PCs

\* It has the idle runtimes it took out of the pool.
LEMMA DidTakeIdle ==
  ASSUME TypeOK, NEW t \in Starts, TakeIdle(t)
  PROVE  \E idle \in SUBSET {k \in Sources : MayBeIdle(k)} :
           /\ PCMoves(t) /\ LocalMoves(t) /\ pc'[t] = "shutIdle"
           /\ pool' = [k \in Sources |-> IF k \in idle THEN None ELSE pool[k]]
           /\ local'[t].old = {pool[k] : k \in idle} /\ local'[t].rt = local[t].rt
           /\ local'[t].source = local[t].source
<1>1. PICK idle \in SUBSET {k \in Sources : MayBeIdle(k)} :
        /\ pool' = [k \in Sources |-> IF k \in idle THEN None ELSE pool[k]]
        /\ Set(t, [local[t] EXCEPT !.want = settings, !.old = {pool[k] : k \in idle}])
  BY DEF TakeIdle
<1>2. t \in Tasks /\ {pool[k] : k \in idle} \in SUBSET Runtimes
  BY Maps DEF Tasks, Starts, MayBeIdle
<1>3. PCMoves(t) /\ pc'[t] = "shutIdle"
  BY <1>2, Went DEF TakeIdle, PCs
<1>4. QED
  BY <1>1, <1>2, <1>3, TookIdle, Maps

\* It is rid of them.
LEMMA DidShutIdle ==
  ASSUME TypeOK, NEW t \in Starts, ShutIdle(t)
  PROVE  /\ PCMoves(t) /\ LocalMoves(t) /\ pc'[t] = "pool"
         /\ local'[t].old = {} /\ local'[t].rt = local[t].rt
         /\ local'[t].source = local[t].source
<1>1. t \in Tasks /\ {} \in SUBSET Runtimes
  BY DEF Tasks, Starts
<1>2. QED
  BY <1>1, Went, TookOld DEF ShutIdle, PCs

\* It finds the pooled runtime, or one to replace, or none.
LEMMA DidFindPooled ==
  ASSUME TypeOK, NEW t \in Starts, FindPooled(t), local[t].source # None
  PROVE  /\ PCMoves(t) /\ LocalMoves(t) /\ local'[t].source = local[t].source
         /\ \/ /\ pc'[t] = "enlist" /\ poolLock' = None
               /\ local'[t].rt = pool[local[t].source] /\ local'[t].old = {}
               /\ Alive(pool[local[t].source])
            \/ /\ pc'[t] = "spawnPool" /\ poolLock' = t
               /\ local'[t].rt = None /\ local'[t].old = {pool[local[t].source]} \ {None}
<1> DEFINE r == pool[local[t].source]
           keep == Alive(r) /\ (proc[r].with.bin = local[t].want.bin \/ InUse(r))
<1>0. t \in Tasks /\ {} \in SUBSET Runtimes
  BY DEF Tasks, Starts
<1>1. r \in Runtimes \cup {None} /\ {r} \ {None} \in SUBSET Runtimes
  BY <1>0, Fields, Maps
<1>2. CASE keep
  <2>1. Goto(t, "enlist") /\ Set(t, [local[t] EXCEPT !.rt = r, !.old = {}]) /\ poolLock' = None
    BY <1>2 DEF FindPooled
  <2>2. PCMoves(t) /\ pc'[t] = "enlist"
    BY <1>0, <2>1, Went DEF PCs
  <2>3. QED
    BY <1>0, <1>1, <1>2, <2>1, <2>2, AllFields DEF Set, Locals, LocalMoves
<1>3. CASE ~keep
  <2>1. /\ Goto(t, "spawnPool") /\ Set(t, [local[t] EXCEPT !.rt = None, !.old = {r} \ {None}])
        /\ poolLock' = t
    BY <1>3 DEF FindPooled
  <2>2. PCMoves(t) /\ pc'[t] = "spawnPool"
    BY <1>0, <2>1, Went DEF PCs
  <2>3. QED
    BY <1>0, <1>1, <2>1, <2>2, AllFields DEF Set, Locals, LocalMoves
<1>4. QED
  BY <1>2, <1>3

\* It starts a process for the pool.
LEMMA DidSpawnPooled ==
  ASSUME TypeOK, NEW t \in Starts, SpawnPooled(t)
  PROVE  \E r \in Unused :
           /\ PCMoves(t) /\ LocalMoves(t) /\ pc'[t] = "replace"
           /\ Spawned(r, [local[t].want EXCEPT !.profile = settings.profile])
           /\ local'[t].rt = r /\ local'[t].old = local[t].old
           /\ local'[t].source = local[t].source
<1>1. PICK r \in Unused :
        /\ Spawned(r, [local[t].want EXCEPT !.profile = settings.profile])
        /\ Goto(t, "replace") /\ Set(t, [local[t] EXCEPT !.rt = r])
  BY DEF SpawnPooled
<1>2. t \in Tasks /\ r \in Runtimes \cup {None}
  BY DEF Tasks, Starts, Unused
<1>3. QED
  BY <1>1, <1>2, Went, TookRuntime DEF PCs

\* It goes on with the previous runtime, and its own process ends.
LEMMA DidKeepPrevious ==
  ASSUME TypeOK, NEW t \in Starts, KeepPrevious(t)
  PROVE  \E r \in local[t].old :
           /\ PCMoves(t) /\ LocalMoves(t) /\ pc'[t] = "enlist"
           /\ local'[t].rt = r /\ local'[t].old = {}
           /\ local'[t].source = local[t].source
<1>1. PICK r \in local[t].old : Set(t, [local[t] EXCEPT !.rt = r, !.old = {}])
  BY DEF KeepPrevious
<1>2. t \in Tasks /\ r \in Runtimes \cup {None} /\ {} \in SUBSET Runtimes
  BY Fields DEF Tasks, Starts
<1>3. PCMoves(t) /\ pc'[t] = "enlist"
  BY <1>2, Went DEF KeepPrevious, PCs
<1>4. QED
  BY <1>1, <1>2, <1>3, AllFields DEF Set, Locals, LocalMoves

\* It has ended the runtime that its own replaced.
LEMMA DidRetire ==
  ASSUME TypeOK, NEW t \in Starts, Retire(t)
  PROVE  /\ PCMoves(t) /\ LocalMoves(t) /\ pc'[t] = "resume"
         /\ local'[t].old = {} /\ local'[t].rt = local[t].rt
         /\ local'[t].source = local[t].source
<1>1. t \in Tasks /\ {} \in SUBSET Runtimes
  BY DEF Tasks, Starts
<1>2. QED
  BY <1>1, Went, TookOld DEF Retire, PCs

-----------------------------------------------------------------------------
(* Types.                                                                   *)

\* A start that asks the pool has a source, a switch that spawned a runtime.
Chosen ==
  /\ \A t \in Starts :
       pc[t] \in {"takeIdle", "shutIdle", "pool", "spawnPool", "replace"} => local[t].source # None
  /\ \A s \in Switches : pc[s] \in {"commit", "sync", "publish"} => local[s].rt # None

\* A process that starts runs.
LEMMA TypeSpawned ==
  ASSUME TypeOK, NEW r \in Unused, NEW with \in Settings, Spawned(r, with)
  PROVE  proc' \in [Runtimes -> [state : ProcState, with : Settings]]
BY DEF TypeOK, Spawned, ProcState, Unused

\* Processes end in one of the ways that are told apart.
LEMMA TypeEnded ==
  ASSUME TypeOK, NEW R, NEW how \in Endings, Ended(R, how)
  PROVE  proc' \in [Runtimes -> [state : ProcState, with : Settings]]
BY DEF TypeOK, Ended, ProcState

\* A process may be started with a binary and the settings' Provider.
LEMMA TypeMade ==
  ASSUME TypeOK, NEW t \in Tasks
  PROVE  [local[t].want EXCEPT !.profile = settings.profile] \in Settings
<1>1. local[t].want \in Settings /\ settings \in Settings
  BY Fields, Maps
<1>2. QED
  BY <1>1 DEF Settings

\* A connection keeps the types.
LEMMA TypeConnect ==
  ASSUME TypeOK, NEW c \in Connects, ConnectStep(c)
  PROVE  TypeOK' /\ PCMoves(c) /\ LocalMoves(c)
<1>0. c \in Tasks
  BY Apart
<1> USE DEF dataVars, mapVars, procVars, lockVars
<1>1. ASSUME NEW w \in Workspaces, Connect(c, w) PROVE TypeOK' /\ PCMoves(c) /\ LocalMoves(c)
  BY <1>1, DidConnect DEF Connect, TypeOK, PCMoves, LocalMoves
<1>2. CASE ConnectLocks(c)
  BY <1>0, <1>2, DidConnectLocks DEF ConnectLocks, TypeOK, PCMoves, LocalMoves
<1>3. CASE ConnectFindsOwn(c) \/ ConnectSpawnFails(c)
  BY <1>0, <1>3, Returned DEF ConnectFindsOwn, ConnectSpawnFails, TypeOK, PCMoves, LocalMoves
<1>4. CASE ConnectLooksForShared(c)
  <2>1. sessions' \in [Workspaces -> Runtimes \cup {None}]
    BY <1>4, TypeForgotten DEF ConnectLooksForShared, TypeOK
  <2>2. QED
    BY <1>4, <2>1, DidConnectLooksForShared
       DEF ConnectLooksForShared, TypeOK, PCMoves, LocalMoves
<1>5. CASE ConnectReuses(c)
  BY <1>5, DidConnectReuses DEF ConnectReuses, TypeOK, PCMoves, LocalMoves
<1>6. CASE ConnectPasses(c)
  <2>1. sessions' \in [Workspaces -> Runtimes \cup {None}]
    BY <1>6, TypeForgotten DEF ConnectPasses, TypeOK
  <2>2. QED
    BY <1>6, <2>1, DidConnectPasses DEF ConnectPasses, TypeOK, PCMoves, LocalMoves
<1>7. CASE ConnectSpawns(c)
  <2>1. proc' \in [Runtimes -> [state : ProcState, with : Settings]]
    BY <1>0, <1>7, TypeMade, TypeSpawned, DidConnectSpawns
  <2>2. QED
    BY <1>7, <2>1, DidConnectSpawns DEF ConnectSpawns, TypeOK, PCMoves, LocalMoves
<1>8. CASE ConnectRegisters(c)
  <2>1. PCMoves(c) /\ LocalMoves(c)
    BY <1>0, <1>8, Went, AllFields DEF ConnectRegisters, LocalMoves, PCs
  <2>2. serves' \in [Runtimes -> SUBSET Workspaces]
    BY <1>0, <1>8, Fields DEF ConnectRegisters, TypeOK
  <2>3. QED
    BY <1>8, <2>1, <2>2 DEF ConnectRegisters, TypeOK, PCMoves, LocalMoves
<1>9. CASE ConnectInserts(c)
  <2>1. sessions' \in [Workspaces -> Runtimes \cup {None}]
    BY <1>0, <1>9, Fields DEF ConnectInserts, TypeOK
  <2>2. QED
    BY <1>0, <1>9, <2>1, Returned DEF ConnectInserts, TypeOK, PCMoves, LocalMoves
<1>10. QED
  BY <1>1, <1>2, <1>3, <1>4, <1>5, <1>6, <1>7, <1>8, <1>9 DEF ConnectStep

\* A removal keeps the types.
LEMMA TypeRemove ==
  ASSUME TypeOK, NEW v \in Removes, RemoveStep(v)
  PROVE  TypeOK' /\ PCMoves(v) /\ LocalMoves(v)
<1>0. v \in Tasks
  BY Apart
<1> USE DEF dataVars, mapVars, procVars, lockVars
<1>1. ASSUME NEW w \in Workspaces, RemoveTakes(v, w) PROVE TypeOK' /\ PCMoves(v) /\ LocalMoves(v)
  BY <1>1, DidRemoveTakes DEF RemoveTakes, TypeOK, PCMoves, LocalMoves
<1>2. CASE RemoveUnregisters(v)
  <2>1. PCMoves(v) /\ LocalMoves(v)
    BY <1>0, <1>2, Went, AllFields DEF RemoveUnregisters, LocalMoves, PCs
  <2>2. serves' \in [Runtimes -> SUBSET Workspaces]
    BY <1>0, <1>2, Fields DEF RemoveUnregisters, TypeOK
  <2>3. QED
    BY <1>2, <2>1, <2>2 DEF RemoveUnregisters, TypeOK, PCMoves, LocalMoves
<1>3. CASE RemoveKills(v)
  <2>1. PCMoves(v) /\ LocalMoves(v)
    BY <1>0, <1>3, Went, AllFields DEF RemoveKills, LocalMoves, PCs
  <2>2. proc' \in [Runtimes -> [state : ProcState, with : Settings]]
    BY <1>3, TypeEnded DEF RemoveKills, Endings
  <2>3. QED
    BY <1>3, <2>1, <2>2 DEF RemoveKills, TypeOK, PCMoves, LocalMoves
<1>4. CASE RemoveForgets(v)
  BY <1>0, <1>4, Finished DEF RemoveForgets, TypeOK, PCMoves, LocalMoves
<1>5. QED
  BY <1>1, <1>2, <1>3, <1>4 DEF RemoveStep

\* A switch keeps the types.
LEMMA TypeSwitch ==
  ASSUME TypeOK, Chosen, NEW s \in Switches, SwitchStep(s)
  PROVE  TypeOK' /\ PCMoves(s) /\ LocalMoves(s)
<1>0. s \in Tasks
  BY Apart
<1> USE DEF dataVars, mapVars, procVars, lockVars
<1>a. ASSUME NEW label \in PCs, Goto(s, label), UNCHANGED local PROVE PCMoves(s) /\ LocalMoves(s)
  BY <1>0, <1>a, Went, AllFields DEF LocalMoves
<1>1. ASSUME NEW w \in Workspaces, Switch(s, w) PROVE TypeOK' /\ PCMoves(s) /\ LocalMoves(s)
  BY <1>1, DidSwitch DEF Switch, TypeOK, PCMoves, LocalMoves
<1>2. CASE SwitchLocks(s)
  <2>1. PCMoves(s) /\ LocalMoves(s)
    BY <1>2, <1>a DEF SwitchLocks, PCs
  <2>2. QED
    BY <1>0, <1>2, <2>1 DEF SwitchLocks, TypeOK, PCMoves, LocalMoves
<1>3. CASE SwitchClosesGate(s)
  BY <1>0, <1>3, DidSwitchClosesGate DEF SwitchClosesGate, TypeOK, PCMoves, LocalMoves
<1>4. CASE SwitchLooks(s)
  <2>1. \E label \in {"syncOnly", "quietPool", "quiet"} : Goto(s, label)
    BY <1>4 DEF SwitchLooks
  <2>2. PCMoves(s) /\ LocalMoves(s)
    BY <1>4, <2>1, <1>a DEF SwitchLooks, PCs
  <2>3. QED
    BY <1>4, <2>2 DEF SwitchLooks, TypeOK, PCMoves, LocalMoves
<1>5. CASE SwitchSyncsOnly(s)
  <2>1. config' \in Profiles
    BY <1>0, <1>5, Fields DEF SwitchSyncsOnly, Syncs, Settings, TypeOK
  <2>2. QED
    BY <1>0, <1>5, <2>1, Returned DEF SwitchSyncsOnly, TypeOK, PCMoves, LocalMoves
<1>6. CASE SwitchSyncsForPool(s)
  <2>1. config' \in Profiles
    BY <1>0, <1>6, Fields DEF SwitchSyncsForPool, Syncs, Settings, TypeOK
  <2>2. CASE Return(s)
    BY <1>0, <1>6, <2>1, <2>2, Returned DEF SwitchSyncsForPool, TypeOK, PCMoves, LocalMoves
  <2>3. CASE Goto(s, "drain") /\ UNCHANGED <<lockVars, local>>
    <3>1. PCMoves(s) /\ LocalMoves(s)
      BY <2>3, <1>a DEF PCs
    <3>2. QED
      BY <1>6, <2>1, <2>3, <3>1 DEF SwitchSyncsForPool, TypeOK, PCMoves, LocalMoves
  <2>4. QED
    BY <1>6, <2>2, <2>3 DEF SwitchSyncsForPool
<1>7. CASE SwitchFindsQuiet(s)
  <2>1. \E label \in {"spawn", "syncPool"} : Goto(s, label)
    BY <1>7 DEF SwitchFindsQuiet
  <2>2. PCMoves(s) /\ LocalMoves(s)
    BY <1>7, <2>1, <1>a DEF SwitchFindsQuiet, PCs
  <2>3. QED
    BY <1>7, <2>2 DEF SwitchFindsQuiet, TypeOK, PCMoves, LocalMoves
<1>8. CASE SwitchFindsTurn(s) \/ SwitchSpawnFails(s)
  BY <1>0, <1>8, Returned DEF SwitchFindsTurn, SwitchSpawnFails, TypeOK, PCMoves, LocalMoves
<1>9. CASE SwitchSpawns(s)
  <2>1. proc' \in [Runtimes -> [state : ProcState, with : Settings]]
    BY <1>0, <1>9, Fields, TypeSpawned, DidSwitchSpawns
  <2>2. QED
    BY <1>9, <2>1, DidSwitchSpawns DEF SwitchSpawns, TypeOK, PCMoves, LocalMoves
<1>10. CASE SwitchCommits(s)
  <2>1. PCMoves(s) /\ LocalMoves(s)
    BY <1>10, <1>a DEF SwitchCommits, PCs
  <2>2. QED
    BY <1>0, <1>10, <2>1 DEF SwitchCommits, TypeOK, PCMoves, LocalMoves
<1>11. CASE SwitchDiscards(s)
  <2>1. proc' \in [Runtimes -> [state : ProcState, with : Settings]]
    BY <1>11, TypeEnded DEF SwitchDiscards, Endings
  <2>2. QED
    BY <1>0, <1>11, <2>1, Returned DEF SwitchDiscards, TypeOK, PCMoves, LocalMoves
<1>12. CASE SwitchSyncs(s)
  <2>1. PCMoves(s) /\ LocalMoves(s)
    BY <1>12, <1>a DEF SwitchSyncs, PCs
  <2>2. config' \in Profiles
    BY <1>0, <1>12, Fields DEF SwitchSyncs, Settings
  <2>3. QED
    BY <1>12, <2>1, <2>2 DEF SwitchSyncs, TypeOK, PCMoves, LocalMoves
<1>13. CASE SwitchPublishes(s)
  <2>1. local[s].rt \in Runtimes
    BY <1>0, <1>13, Fields DEF SwitchPublishes, Chosen
  <2>2. sessions' \in [Workspaces -> Runtimes \cup {None}] /\ unclaimed' \subseteq Runtimes
    BY <1>13, <2>1 DEF SwitchPublishes, TypeOK
  <2>3. QED
    <3>1. /\ UNCHANGED <<settings, changes, config, known, pool, procVars>>
          /\ UNCHANGED <<spawnLock, gateWriter, gateReaders, poolLock>> /\ settingsLock' = None
      BY <1>13 DEF SwitchPublishes
    <3>2. PCMoves(s) /\ LocalMoves(s)
      BY <1>13, DidSwitchPublishes
    <3>3. QED
      BY <2>2, <3>1, <3>2 DEF TypeOK, PCMoves, LocalMoves, procVars
<1>14. CASE SwitchEnlists(s)
  <2>1. PCMoves(s) /\ LocalMoves(s)
    BY <1>14, <1>a DEF SwitchEnlists, PCs
  <2>2. serves' \in [Runtimes -> SUBSET Workspaces]
    BY <1>0, <1>14, Fields DEF SwitchEnlists, TypeOK
  <2>3. QED
    BY <1>14, <2>1, <2>2 DEF SwitchEnlists, TypeOK, PCMoves, LocalMoves
<1>15. CASE SwitchDrains(s)
  BY <1>15, DidSwitchDrains DEF SwitchDrains, TypeOK, PCMoves, LocalMoves
<1>16. CASE SwitchTerminates(s)
  <2>1. proc' \in [Runtimes -> [state : ProcState, with : Settings]]
    BY <1>16, TypeEnded DEF SwitchTerminates, Endings
  <2>2. QED
    BY <1>0, <1>16, <2>1, Returned DEF SwitchTerminates, TypeOK, PCMoves, LocalMoves
<1>17. QED
  BY <1>1, <1>2, <1>3, <1>4, <1>5, <1>6, <1>7, <1>8, <1>9, <1>10, <1>11, <1>12, <1>13,
     <1>14, <1>15, <1>16 DEF SwitchStep

\* The start of a turn or of a review keeps the types.
LEMMA TypeStart ==
  ASSUME TypeOK, Chosen, NEW t \in Starts, StartStep(t)
  PROVE  TypeOK' /\ PCMoves(t) /\ LocalMoves(t)
<1>0. t \in Tasks
  BY Apart
<1> USE DEF dataVars, mapVars, procVars, lockVars
<1>a. ASSUME NEW label \in PCs, Goto(t, label), UNCHANGED local PROVE PCMoves(t) /\ LocalMoves(t)
  BY <1>0, <1>a, Went, AllFields DEF LocalMoves
<1>1. ASSUME NEW w \in Workspaces, NEW k \in Sources \cup {None}, Start(t, w, k)
      PROVE  TypeOK' /\ PCMoves(t) /\ LocalMoves(t)
  <2>1. gateReaders' \subseteq Turns
    BY <1>1 DEF Start, TypeOK
  <2>2. QED
    BY <1>1, <2>1, DidStart DEF Start, TypeOK, PCMoves, LocalMoves
<1>2. CASE ResolveShared(t)
  <2>1. CASE Return(t)
    BY <1>0, <1>2, <2>1, Returned DEF ResolveShared, TypeOK, PCMoves, LocalMoves
  <2>2. CASE ~Return(t)
    BY <1>2, <2>2, DidResolveShared DEF ResolveShared, TypeOK, PCMoves, LocalMoves
  <2>3. QED
    BY <2>1, <2>2
<1>3. CASE TakeIdle(t)
  <2>1. pool' \in [Sources -> Runtimes \cup {None}]
    BY <1>3, DidTakeIdle DEF TypeOK
  <2>2. QED
    BY <1>3, <2>1, DidTakeIdle DEF TakeIdle, TypeOK, PCMoves, LocalMoves
<1>4. CASE ShutIdle(t)
  <2>1. proc' \in [Runtimes -> [state : ProcState, with : Settings]]
    BY <1>4, TypeEnded DEF ShutIdle, Endings
  <2>2. QED
    BY <1>4, <2>1, DidShutIdle DEF ShutIdle, TypeOK, PCMoves, LocalMoves
<1>5. CASE FindPooled(t)
  <2>1. local[t].source # None
    BY <1>5 DEF FindPooled, Chosen
  <2>2. QED
    <3>1. /\ UNCHANGED <<dataVars, mapVars, procVars>>
          /\ UNCHANGED <<spawnLock, gateWriter, gateReaders, settingsLock>>
      BY <1>5 DEF FindPooled
    <3>2. PCMoves(t) /\ LocalMoves(t) /\ poolLock' \in Tasks \cup {None}
      BY <1>0, <1>5, <2>1, DidFindPooled
    <3>3. QED
      BY <3>1, <3>2 DEF TypeOK, PCMoves, LocalMoves, dataVars, mapVars, procVars
<1>6. CASE SpawnPooled(t)
  <2>1. proc' \in [Runtimes -> [state : ProcState, with : Settings]]
    BY <1>0, <1>6, TypeMade, TypeSpawned, DidSpawnPooled
  <2>2. QED
    BY <1>6, <2>1, DidSpawnPooled DEF SpawnPooled, TypeOK, PCMoves, LocalMoves
<1>7. CASE SpawnPooledFails(t) \/ SendFails(t)
  BY <1>0, <1>7, Returned DEF SpawnPooledFails, SendFails, TypeOK, PCMoves, LocalMoves
<1>8. CASE KeepPrevious(t)
  <2>1. proc' \in [Runtimes -> [state : ProcState, with : Settings]]
    BY <1>8, TypeEnded DEF KeepPrevious, Endings
  <2>2. PCMoves(t) /\ LocalMoves(t)
    BY <1>8, DidKeepPrevious
  <2>3. QED
    BY <1>8, <2>1, <2>2 DEF KeepPrevious, TypeOK, PCMoves, LocalMoves
<1>9. CASE Replace(t)
  <2>1. PCMoves(t) /\ LocalMoves(t)
    BY <1>9, <1>a DEF Replace, PCs
  <2>2. pool' \in [Sources -> Runtimes \cup {None}]
    BY <1>0, <1>9, Fields DEF Replace, TypeOK
  <2>3. QED
    BY <1>9, <2>1, <2>2 DEF Replace, TypeOK, PCMoves, LocalMoves
<1>10. CASE Retire(t)
  <2>1. proc' \in [Runtimes -> [state : ProcState, with : Settings]]
    BY <1>10, TypeEnded DEF Retire, Endings
  <2>2. QED
    BY <1>10, <2>1, DidRetire DEF Retire, TypeOK, PCMoves, LocalMoves
<1>11. CASE Enlist(t)
  <2>1. serves' \in [Runtimes -> SUBSET Workspaces]
    BY <1>0, <1>11, Fields DEF Enlist, TypeOK
  <2>2. CASE Return(t)
    BY <1>0, <1>11, <2>1, <2>2, Returned DEF Enlist, TypeOK, PCMoves, LocalMoves
  <2>3. CASE Goto(t, "mark") /\ UNCHANGED <<lockVars, local>>
    <3>1. PCMoves(t) /\ LocalMoves(t)
      BY <2>3, <1>a DEF PCs
    <3>2. QED
      BY <1>11, <2>1, <2>3, <3>1 DEF Enlist, TypeOK, PCMoves, LocalMoves
  <2>4. QED
    BY <1>11, <2>2, <2>3 DEF Enlist
<1>12. CASE Send(t)
  <2>1. PCMoves(t) /\ LocalMoves(t)
    BY <1>12, <1>a DEF Send, PCs
  <2>2. serves' \in [Runtimes -> SUBSET Workspaces] /\ active' \in [Runtimes -> SUBSET Starts]
    <3>1. local[t].ws \in Workspaces /\ t \in Starts
      BY <1>0, Fields
    <3>2. serves' = [serves EXCEPT ![local[t].rt] = serves[local[t].rt] \cup {local[t].ws}]
      BY <1>12 DEF Send
    <3>3. active' = active \/ active' = [active EXCEPT ![local[t].rt] = active[local[t].rt] \cup {t}]
      BY <1>12 DEF Send
    <3>4. \A r \in Runtimes : serves'[r] \in SUBSET Workspaces /\ active'[r] \in SUBSET Starts
      <4> TAKE r \in Runtimes
      <4>1. serves[r] \in SUBSET Workspaces /\ active[r] \in SUBSET Starts
        BY DEF TypeOK
      <4>2. serves'[r] = serves[r] \/ serves'[r] = serves[r] \cup {local[t].ws}
        BY <3>2 DEF TypeOK
      <4>3. active'[r] = active[r] \/ active'[r] = active[r] \cup {t}
        BY <3>3 DEF TypeOK
      <4>4. QED
        BY <3>1, <4>1, <4>2, <4>3
    <3>5. /\ \E f : serves' = [serves EXCEPT ![local[t].rt] = f]
          /\ \E f : active' = [active EXCEPT ![local[t].rt] = f]
      BY <3>2, <3>3 DEF TypeOK
    <3>6. QED
      BY <3>4, <3>5 DEF TypeOK
  <2>3. QED
    BY <1>12, <2>1, <2>2 DEF Send, TypeOK, PCMoves, LocalMoves
<1>13. CASE Accept(t)
  <2>1. PCMoves(t) /\ LocalMoves(t)
    BY <1>13, <1>a DEF Accept, PCs
  <2>2. active' \in [Runtimes -> SUBSET Starts]
    BY <1>13 DEF Accept, TypeOK
  <2>3. QED
    BY <1>13, <2>1, <2>2 DEF Accept, TypeOK, PCMoves, LocalMoves
<1>14. CASE Refuse(t)
  <2>1. active' \in [Runtimes -> SUBSET Starts]
    BY <1>14 DEF Refuse, TypeOK
  <2>2. QED
    BY <1>0, <1>14, <2>1, Returned DEF Refuse, TypeOK, PCMoves, LocalMoves
<1>15. CASE Complete(t)
  <2>1. active' \in [Runtimes -> SUBSET Starts]
    BY <1>15 DEF Complete, TypeOK
  <2>2. QED
    BY <1>0, <1>15, <2>1, Finished DEF Complete, TypeOK, PCMoves, LocalMoves
<1>16. QED
  BY <1>1, <1>2, <1>3, <1>4, <1>5, <1>6, <1>7, <1>8, <1>9, <1>10, <1>11, <1>12, <1>13,
     <1>14, <1>15 DEF StartStep

\* What the end of a process' output does to the calls that wait for it.
LEMMA DidOutputEnds ==
  ASSUME TypeOK, NEW r \in Runtimes, OutputEnds(r)
  PROVE  /\ pc' \in [Tasks -> PCs] /\ local' \in [Tasks -> Locals]
         /\ \A t \in Tasks :
              /\ t \in Waiting(r) => pc'[t] = "done" /\ local'[t].rt = None
              /\ t \notin Waiting(r) => pc'[t] = pc[t] /\ local'[t].rt = local[t].rt
              /\ local'[t].old = local[t].old /\ local'[t].want = local[t].want
              /\ local'[t].ws = local[t].ws /\ local'[t].source = local[t].source
<1>1. \A t \in Tasks : [local[t] EXCEPT !.rt = None] \in Locals
  BY AllFields DEF Locals
<1>2. local' \in [Tasks -> Locals]
  BY <1>1, AllFields DEF OutputEnds
<1>3. pc' \in [Tasks -> PCs]
  BY DEF OutputEnds, TypeOK, PCs
<1>4. ASSUME NEW t \in Tasks, t \in Waiting(r)
      PROVE  /\ pc'[t] = "done" /\ local'[t].rt = None
             /\ local'[t].old = local[t].old /\ local'[t].want = local[t].want
             /\ local'[t].ws = local[t].ws /\ local'[t].source = local[t].source
  BY <1>4, AllFields DEF OutputEnds, Locals
<1>5. ASSUME NEW t \in Tasks, t \notin Waiting(r)
      PROVE  pc'[t] = pc[t] /\ local'[t] = local[t]
  BY <1>5 DEF OutputEnds
<1>6. QED
  BY <1>2, <1>3, <1>4, <1>5

\* The user and the processes keep the types.
LEMMA TypeEnvironment ==
  ASSUME TypeOK, Environment
  PROVE  TypeOK'
<1> USE DEF dataVars, mapVars, procVars, lockVars, taskVars
<1>1. ASSUME NEW new \in Settings, ChangeSettings(new) PROVE TypeOK'
  BY <1>1, BoundsAssumption DEF ChangeSettings, TypeOK
<1>2. ASSUME NEW r \in Runtimes, Exit(r) PROVE TypeOK'
  <2>1. proc' \in [Runtimes -> [state : ProcState, with : Settings]]
    BY <1>2, TypeEnded DEF Exit, Endings
  <2>2. QED
    BY <1>2, <2>1 DEF Exit, TypeOK
<1>3. ASSUME NEW r \in Runtimes, OutputEnds(r) PROVE TypeOK'
  <2>1. active' \in [Runtimes -> SUBSET Starts]
    BY <1>3 DEF OutputEnds, TypeOK
  <2>2. QED
    BY <1>3, <2>1, DidOutputEnds DEF OutputEnds, TypeOK
<1>4. QED
  BY <1>1, <1>2, <1>3 DEF Environment

\* Initially nothing runs.
LEMMA TypeInit == Init => TypeOK /\ Chosen
<1> SUFFICES ASSUME Init PROVE TypeOK /\ Chosen
  OBVIOUS
<1>1. (CHOOSE w \in Workspaces : TRUE) \in Workspaces
  BY WorkspacesAssumption
<1>2. settings \in Settings /\ config \in Profiles
  BY DEF Init, Settings
<1>3. proc \in [Runtimes -> [state : ProcState, with : Settings]]
  BY <1>2 DEF Init, ProcState
<1>4. local \in [Tasks -> Locals]
  BY <1>1, <1>2 DEF Init, Locals
<1>5. TypeOK
  BY <1>2, <1>3, <1>4, BoundsAssumption DEF Init, TypeOK, PCs
<1>6. Chosen
  BY Apart DEF Init, Chosen
<1>7. QED
  BY <1>5, <1>6

\* A connection or a removal leaves the starts and the switches as they are.
LEMMA ChosenOthers ==
  ASSUME Chosen, NEW t \in Connects \cup Removes, PCMoves(t), LocalMoves(t)
  PROVE  Chosen'
BY Apart DEF Chosen, PCMoves, LocalMoves

\* A switch that goes on to publish has spawned.
LEMMA ChosenSwitch ==
  ASSUME TypeOK, Chosen, NEW s \in Switches, SwitchStep(s)
  PROVE  Chosen'
<1> DEFINE Picked == pc'[s] \in {"commit", "sync", "publish"} => local'[s].rt # None
<1>0. s \in Tasks /\ PCMoves(s) /\ LocalMoves(s)
  BY Apart, TypeSwitch
<1>a. ASSUME NEW label \in PCs \ {"commit", "sync", "publish"}, Goto(s, label) PROVE Picked
  BY <1>0, <1>a, Went
<1>1. Picked
  <2>1. ASSUME NEW w \in Workspaces, Switch(s, w) PROVE Picked
    BY <2>1, <1>a DEF Switch, PCs
  <2>2. CASE \/ SwitchLocks(s) \/ SwitchClosesGate(s) \/ SwitchEnlists(s) \/ SwitchDrains(s)
             \/ SwitchPublishes(s) \/ SwitchLooks(s) \/ SwitchFindsQuiet(s)
    BY <2>2, <1>a DEF SwitchLocks, SwitchClosesGate, SwitchEnlists, SwitchDrains,
                      SwitchPublishes, SwitchLooks, SwitchFindsQuiet, PCs
  <2>3. CASE SwitchSyncsForPool(s)
    BY <1>0, <2>3, <1>a, Returned DEF SwitchSyncsForPool, PCs
  <2>4. CASE \/ SwitchSyncsOnly(s) \/ SwitchFindsTurn(s) \/ SwitchSpawnFails(s)
             \/ SwitchDiscards(s) \/ SwitchTerminates(s)
    BY <1>0, <2>4, Returned DEF SwitchSyncsOnly, SwitchFindsTurn, SwitchSpawnFails,
                                SwitchDiscards, SwitchTerminates
  <2>5. CASE SwitchSpawns(s)
    BY <2>5, DidSwitchSpawns, TasksAssumption DEF Unused
  <2>6. CASE SwitchCommits(s) \/ SwitchSyncs(s)
    BY <2>6 DEF SwitchCommits, SwitchSyncs, Chosen
  <2>7. QED
    BY <2>1, <2>2, <2>3, <2>4, <2>5, <2>6 DEF SwitchStep
<1>2. QED
  BY <1>0, <1>1, Apart DEF Chosen, PCMoves, LocalMoves

\* A start that asks the pool was given a source.
LEMMA ChosenStart ==
  ASSUME TypeOK, Chosen, NEW t \in Starts, StartStep(t)
  PROVE  Chosen'
<1> DEFINE Asking == {"takeIdle", "shutIdle", "pool", "spawnPool", "replace"}
           Picked == pc'[t] \in Asking => local'[t].source # None
<1>0. t \in Tasks /\ PCMoves(t) /\ LocalMoves(t)
  BY Apart, TypeStart
<1>1. Picked
  <2>1. ASSUME NEW w \in Workspaces, NEW k \in Sources \cup {None}, Start(t, w, k) PROVE Picked
    BY <2>1, DidStart
  <2>2. CASE TakeIdle(t) \/ ShutIdle(t) \/ SpawnPooled(t)
    BY <2>2, DidTakeIdle, DidShutIdle, DidSpawnPooled
       DEF Chosen, TakeIdle, ShutIdle, SpawnPooled
  <2>3. CASE FindPooled(t)
    BY <2>3, DidFindPooled DEF Chosen, FindPooled
  <2>4. CASE ResolveShared(t)
    BY <1>0, <2>4, DidResolveShared, Returned
  <2>5. CASE SpawnPooledFails(t) \/ SendFails(t) \/ Refuse(t) \/ Complete(t)
    BY <1>0, <2>5, Returned, Finished DEF SpawnPooledFails, SendFails, Refuse, Complete
  <2>6. CASE Replace(t) \/ Retire(t) \/ KeepPrevious(t) \/ Send(t) \/ Accept(t)
    BY <1>0, <2>6, Went DEF Replace, Retire, KeepPrevious, Send, Accept, PCs
  <2>7. CASE Enlist(t)
    BY <1>0, <2>7, Went, Returned DEF Enlist, PCs
  <2>8. QED
    BY <2>1, <2>2, <2>3, <2>4, <2>5, <2>6, <2>7 DEF StartStep
<1>2. QED
  BY <1>0, <1>1, Apart DEF Chosen, PCMoves, LocalMoves

\* Nobody chooses anything in a step of the user or of a process.
LEMMA ChosenEnvironment ==
  ASSUME TypeOK, Chosen, Environment
  PROVE  Chosen'
<1>1. ASSUME UNCHANGED taskVars PROVE Chosen'
  BY <1>1 DEF Chosen, taskVars
<1>2. ASSUME NEW r \in Runtimes, OutputEnds(r) PROVE Chosen'
  BY <1>2, DidOutputEnds, Apart DEF Chosen, Waiting
<1>3. QED
  BY <1>1, <1>2 DEF Environment, ChangeSettings, Exit

\* Every step keeps the types.
LEMMA TypeNext == TypeOK /\ Chosen /\ [Next]_vars => (TypeOK /\ Chosen)'
<1> SUFFICES ASSUME TypeOK, Chosen, [Next]_vars PROVE (TypeOK /\ Chosen)'
  OBVIOUS
<1>1. CASE UNCHANGED vars
  BY <1>1 DEF vars, TypeOK, Chosen, dataVars, mapVars, procVars, lockVars, taskVars
<1>2. ASSUME NEW c \in Connects, ConnectStep(c) PROVE (TypeOK /\ Chosen)'
  BY <1>2, TypeConnect, ChosenOthers
<1>3. ASSUME NEW v \in Removes, RemoveStep(v) PROVE (TypeOK /\ Chosen)'
  BY <1>3, TypeRemove, ChosenOthers
<1>4. ASSUME NEW s \in Switches, SwitchStep(s) PROVE (TypeOK /\ Chosen)'
  BY <1>4, TypeSwitch, ChosenSwitch
<1>5. ASSUME NEW t \in Starts, StartStep(t) PROVE (TypeOK /\ Chosen)'
  BY <1>5, TypeStart, ChosenStart
<1>6. CASE Environment
  BY <1>6, TypeEnvironment, ChosenEnvironment
<1>7. QED
  BY <1>1, <1>2, <1>3, <1>4, <1>5, <1>6 DEF Next

\* The state is well typed.
THEOREM RuntimeTypes == Spec => []TypeOK
<1>1. Init => TypeOK /\ Chosen
  BY TypeInit
<1>2. TypeOK /\ Chosen /\ [Next]_vars => (TypeOK /\ Chosen)'
  BY TypeNext
<1>3. QED
  BY <1>1, <1>2, PTL DEF Spec

-----------------------------------------------------------------------------
(* Locks: a call that is past the point where it takes a lock has it.       *)

Connecting == {"own", "reuse", "register", "insert"}
Gated      == {"look", "quiet", "quietPool", "spawn", "commit", "sync", "publish",
               "enlist", "drain", "terminate", "syncOnly", "syncPool"}

ConnectHolds(c) == pc[c] \in Connecting => spawnLock = c

SwitchHolds(s) == /\ pc[s] \in Gated \cup {"gate"} => spawnLock = s
                  /\ pc[s] \in Gated => gateWriter = s
                  /\ pc[s] \in {"sync", "publish"} => settingsLock = s

StartHolds(t) ==
  /\ t \in Turns /\ pc[t] \notin {"idle", "turn", "done"} => t \in gateReaders
  /\ pc[t] \in {"spawnPool", "replace", "retire"} => poolLock = t

LocksHeld ==
  /\ \A c \in Connects : ConnectHolds(c)
  /\ \A s \in Switches : SwitchHolds(s)
  /\ \A t \in Starts : StartHolds(t)
  /\ gateWriter # None => gateReaders = {}

\* A step of one call takes no lock from another.
Spares(t) ==
  \A q \in Tasks : q # t =>
    /\ spawnLock = q => spawnLock' = q
    /\ gateWriter = q => gateWriter' = q
    /\ poolLock = q => poolLock' = q
    /\ settingsLock = q => settingsLock' = q
    /\ q \in gateReaders => q \in gateReaders'

\* What a call that returns does to the locks.
LEMMA ReturnSpares ==
  ASSUME TypeOK, NEW t \in Tasks, t # None, Return(t)
  PROVE  /\ Spares(t) /\ pc'[t] = "done"
         /\ gateWriter' # None => gateWriter # None
         /\ gateReaders' \subseteq gateReaders
BY Returned, TasksAssumption DEF Return, Freed, Spares, Tasks

\* A call that spares the others and holds its own locks leaves all as it was.
LEMMA HoldsConnect ==
  ASSUME LocksHeld, NEW c \in Connects, PCMoves(c), Spares(c), ConnectHolds(c)',
         gateWriter' # None => gateReaders' = {}
  PROVE  LocksHeld'
BY Apart DEF LocksHeld, ConnectHolds, SwitchHolds, StartHolds, PCMoves, Spares

\* The same of a switch.
LEMMA HoldsSwitch ==
  ASSUME LocksHeld, NEW s \in Switches, PCMoves(s), Spares(s), SwitchHolds(s)',
         gateWriter' # None => gateReaders' = {}
  PROVE  LocksHeld'
BY Apart DEF LocksHeld, ConnectHolds, SwitchHolds, StartHolds, PCMoves, Spares

\* The same of a start.
LEMMA HoldsStart ==
  ASSUME LocksHeld, NEW t \in Starts, PCMoves(t), Spares(t), StartHolds(t)',
         gateWriter' # None => gateReaders' = {}
  PROVE  LocksHeld'
BY Apart DEF LocksHeld, ConnectHolds, SwitchHolds, StartHolds, PCMoves, Spares

\* A connection holds the spawn lock from its look at the map to its entry in it.
LEMMA LocksConnect ==
  ASSUME TypeOK, LocksHeld, NEW c \in Connects, ConnectStep(c)
  PROVE  LocksHeld' /\ Spares(c)
<1> DEFINE Gate == gateWriter' # None => gateReaders' = {}
<1>0. c \in Tasks /\ c # None /\ PCMoves(c)
  BY Apart, TypeConnect
<1> SUFFICES Spares(c) /\ ConnectHolds(c)' /\ Gate
  BY <1>0, HoldsConnect
<1> USE DEF lockVars, Spares
<1>1. ASSUME NEW w \in Workspaces, Connect(c, w) PROVE Spares(c) /\ ConnectHolds(c)' /\ Gate
  BY <1>1, DidConnect DEF Connect, ConnectHolds, Connecting, LocksHeld
<1>2. CASE ConnectLocks(c)
  <2>1. Spares(c) /\ spawnLock' = c /\ Gate
    BY <1>2, Apart DEF ConnectLocks, LocksHeld
  <2>2. QED
    BY <2>1 DEF ConnectHolds
<1>3. CASE ConnectFindsOwn(c) \/ ConnectSpawnFails(c) \/ ConnectInserts(c)
  <2>1. Return(c)
    BY <1>3 DEF ConnectFindsOwn, ConnectSpawnFails, ConnectInserts
  <2>2. QED
    BY <1>0, <2>1, ReturnSpares DEF ConnectHolds, Connecting, LocksHeld
<1>4. CASE \/ ConnectLooksForShared(c) \/ ConnectReuses(c) \/ ConnectPasses(c)
           \/ ConnectSpawns(c) \/ ConnectRegisters(c)
  <2>1. UNCHANGED lockVars /\ pc[c] \in Connecting
    BY <1>4 DEF ConnectLooksForShared, ConnectReuses, ConnectPasses, ConnectSpawns,
                ConnectRegisters, Connecting
  <2>2. QED
    BY <2>1 DEF ConnectHolds, LocksHeld
<1>5. QED
  BY <1>1, <1>2, <1>3, <1>4 DEF ConnectStep

\* A removal takes no lock.
LEMMA LocksRemove ==
  ASSUME TypeOK, LocksHeld, NEW v \in Removes, RemoveStep(v)
  PROVE  LocksHeld' /\ Spares(v)
<1>1. PCMoves(v) /\ UNCHANGED lockVars
  BY TypeRemove DEF RemoveStep, RemoveTakes, RemoveUnregisters, RemoveKills, RemoveForgets
<1>2. QED
  BY <1>1, Apart
     DEF LocksHeld, ConnectHolds, SwitchHolds, StartHolds, PCMoves, Spares, lockVars

\* A switch holds the spawn lock, then the gate; the settings while it publishes.
LEMMA LocksSwitch ==
  ASSUME TypeOK, Chosen, LocksHeld, NEW s \in Switches, SwitchStep(s)
  PROVE  LocksHeld' /\ Spares(s)
<1> DEFINE Gate == gateWriter' # None => gateReaders' = {}
<1>0. s \in Tasks /\ s # None /\ PCMoves(s)
  BY Apart, TypeSwitch
<1> SUFFICES Spares(s) /\ SwitchHolds(s)' /\ Gate
  BY <1>0, HoldsSwitch
<1>a. ASSUME NEW label \in PCs, Goto(s, label), UNCHANGED lockVars,
             label \in Gated \cup {"gate"} => pc[s] \in Gated \cup {"gate"},
             label \in Gated => pc[s] \in Gated,
             label \in {"sync", "publish"} => pc[s] \in {"sync", "publish"}
      PROVE  Spares(s) /\ SwitchHolds(s)' /\ Gate
  BY <1>0, <1>a, Went DEF Spares, SwitchHolds, LocksHeld, lockVars
<1>b. ASSUME Return(s) PROVE Spares(s) /\ SwitchHolds(s)' /\ Gate
  BY <1>0, <1>b, ReturnSpares DEF SwitchHolds, Gated, LocksHeld
<1>1. ASSUME NEW w \in Workspaces, Switch(s, w) PROVE Spares(s) /\ SwitchHolds(s)' /\ Gate
  BY <1>1, <1>a DEF Switch, Gated, PCs
<1>2. CASE SwitchLocks(s)
  <2>1. pc'[s] = "gate" /\ spawnLock' = s
    BY <1>0, <1>2, Went DEF SwitchLocks, PCs
  <2>2. Spares(s) /\ Gate
    BY <1>2, Apart DEF SwitchLocks, Spares, LocksHeld
  <2>3. QED
    BY <2>1, <2>2 DEF SwitchHolds, Gated
<1>3. CASE SwitchClosesGate(s)
  <2>1. pc'[s] = "look" /\ spawnLock' = s /\ gateWriter' = s
    BY <1>3, DidSwitchClosesGate DEF SwitchClosesGate, LocksHeld, SwitchHolds
  <2>2. Spares(s) /\ Gate
    BY <1>3, Apart DEF SwitchClosesGate, Spares
  <2>3. QED
    BY <2>1, <2>2 DEF SwitchHolds
<1>4. CASE SwitchLooks(s)
  <2>1. \E label \in {"syncOnly", "quietPool", "quiet"} : Goto(s, label)
    BY <1>4 DEF SwitchLooks
  <2>2. QED
    BY <1>4, <2>1, <1>a DEF SwitchLooks, Gated, PCs
<1>5. CASE SwitchSyncsForPool(s)
  <2>1. CASE Goto(s, "drain") /\ UNCHANGED <<lockVars, local>>
    BY <1>5, <2>1, <1>a DEF SwitchSyncsForPool, Gated, PCs
  <2>2. QED
    BY <1>5, <1>b, <2>1 DEF SwitchSyncsForPool
<1>6. CASE SwitchFindsQuiet(s)
  <2>1. \E label \in {"spawn", "syncPool"} : Goto(s, label)
    BY <1>6 DEF SwitchFindsQuiet
  <2>2. QED
    BY <1>6, <2>1, <1>a DEF SwitchFindsQuiet, Gated, PCs
<1>7. CASE \/ SwitchSyncsOnly(s) \/ SwitchFindsTurn(s) \/ SwitchSpawnFails(s)
           \/ SwitchDiscards(s) \/ SwitchTerminates(s)
  BY <1>7, <1>b DEF SwitchSyncsOnly, SwitchFindsTurn, SwitchSpawnFails, SwitchDiscards,
                    SwitchTerminates
<1>8. CASE SwitchSpawns(s) \/ SwitchSyncs(s) \/ SwitchEnlists(s) \/ SwitchDrains(s)
  BY <1>8, <1>a DEF SwitchSpawns, SwitchSyncs, SwitchEnlists, SwitchDrains, Gated, PCs
<1>9. CASE SwitchCommits(s)
  <2>1. pc'[s] = "sync" /\ settingsLock' = s /\ spawnLock' = s /\ gateWriter' = s
    BY <1>0, <1>9, Went DEF SwitchCommits, LocksHeld, SwitchHolds, Gated, PCs
  <2>2. Spares(s) /\ Gate
    BY <1>9, Apart DEF SwitchCommits, Spares, LocksHeld
  <2>3. QED
    BY <2>1, <2>2 DEF SwitchHolds
<1>10. CASE SwitchPublishes(s)
  <2>1. pc'[s] = "enlist" /\ settingsLock = s /\ spawnLock' = s /\ gateWriter' = s
    BY <1>10, DidSwitchPublishes DEF SwitchPublishes, LocksHeld, SwitchHolds, Gated
  <2>2. Spares(s) /\ Gate
    BY <1>10, <2>1 DEF SwitchPublishes, Spares, LocksHeld
  <2>3. QED
    BY <2>1, <2>2 DEF SwitchHolds
<1>11. QED
  BY <1>1, <1>2, <1>3, <1>4, <1>5, <1>6, <1>7, <1>8, <1>9, <1>10 DEF SwitchStep

\* A turn holds the gate from its start to its answer, and the pool's lock while
\* it replaces a runtime.
LEMMA LocksStart ==
  ASSUME TypeOK, Chosen, LocksHeld, NEW t \in Starts, StartStep(t)
  PROVE  LocksHeld' /\ Spares(t)
<1> DEFINE Gate == gateWriter' # None => gateReaders' = {}
           Going == {"idle", "turn", "done"}
<1>0. t \in Tasks /\ t # None /\ PCMoves(t)
  BY Apart, TypeStart
<1> SUFFICES Spares(t) /\ StartHolds(t)' /\ Gate
  BY <1>0, HoldsStart
<1>a. ASSUME NEW label \in PCs, pc'[t] = label, UNCHANGED lockVars, pc[t] \notin Going,
             label \in {"spawnPool", "replace", "retire"} => pc[t] \in {"spawnPool", "replace", "retire"}
      PROVE  Spares(t) /\ StartHolds(t)' /\ Gate
  BY <1>0, <1>a DEF Spares, StartHolds, LocksHeld, lockVars
<1>b. ASSUME Return(t) PROVE Spares(t) /\ StartHolds(t)' /\ Gate
  BY <1>0, <1>b, ReturnSpares DEF StartHolds, LocksHeld
<1>1. ASSUME NEW w \in Workspaces, NEW k \in Sources \cup {None}, Start(t, w, k)
      PROVE  Spares(t) /\ StartHolds(t)' /\ Gate
  <2>1. pc'[t] \in {"resolve", "takeIdle"}
    BY <1>1, DidStart
  <2>2. t \in Turns => t \in gateReaders'
    BY <1>1 DEF Start
  <2>3. Gate
    BY <1>1 DEF Start, LocksHeld
  <2>4. Spares(t)
    BY <1>1 DEF Start, Spares
  <2>5. QED
    BY <2>1, <2>2, <2>3, <2>4 DEF StartHolds
<1>2. CASE ResolveShared(t)
  BY <1>2, <1>a, <1>b, DidResolveShared DEF ResolveShared, PCs
<1>3. CASE TakeIdle(t)
  BY <1>3, <1>a, DidTakeIdle DEF TakeIdle, PCs
<1>4. CASE ShutIdle(t)
  BY <1>4, <1>a, DidShutIdle DEF ShutIdle, PCs
<1>5. CASE FindPooled(t)
  <2>1. /\ pc'[t] \in {"enlist", "spawnPool"}
        /\ pc'[t] = "spawnPool" => poolLock' = t
    BY <1>5, DidFindPooled DEF FindPooled, Chosen
  <2>2. Spares(t) /\ Gate
    BY <1>5, Apart DEF FindPooled, Spares, LocksHeld
  <2>3. t \in Turns => t \in gateReaders'
    BY <1>5 DEF FindPooled, LocksHeld, StartHolds
  <2>4. QED
    BY <2>1, <2>2, <2>3 DEF StartHolds
<1>6. CASE SpawnPooled(t)
  BY <1>6, <1>a, DidSpawnPooled DEF SpawnPooled, PCs
<1>7. CASE SpawnPooledFails(t) \/ SendFails(t) \/ Refuse(t)
  BY <1>7, <1>b DEF SpawnPooledFails, SendFails, Refuse
<1>8. CASE KeepPrevious(t) \/ Retire(t)
  <2>1. poolLock = t /\ poolLock' = None /\ pc[t] \notin Going
    BY <1>8 DEF KeepPrevious, Retire, LocksHeld, StartHolds
  <2>2. pc'[t] \in {"enlist", "resume"}
    BY <1>8, DidKeepPrevious, DidRetire
  <2>3. Spares(t) /\ Gate
    BY <1>8, <2>1 DEF KeepPrevious, Retire, Spares, LocksHeld
  <2>4. t \in Turns => t \in gateReaders'
    BY <1>8, <2>1 DEF KeepPrevious, Retire, LocksHeld, StartHolds
  <2>5. QED
    BY <2>2, <2>3, <2>4 DEF StartHolds
<1>9. CASE Replace(t) \/ Send(t)
  BY <1>0, <1>9, <1>a, Went DEF Replace, Send, PCs
<1>10. CASE Enlist(t)
  BY <1>0, <1>10, <1>a, <1>b, Went DEF Enlist, PCs
<1>11. CASE Accept(t)
  <2>1. pc'[t] = "turn"
    BY <1>0, <1>11, Went DEF Accept, PCs
  <2>2. Spares(t) /\ Gate
    BY <1>11 DEF Accept, Spares, LocksHeld
  <2>3. QED
    BY <2>1, <2>2 DEF StartHolds
<1>12. CASE Complete(t)
  <2>1. pc'[t] = "done" /\ UNCHANGED lockVars
    BY <1>0, <1>12, Finished DEF Complete
  <2>2. QED
    BY <2>1 DEF StartHolds, Spares, LocksHeld, lockVars
<1>13. QED
  BY <1>1, <1>2, <1>3, <1>4, <1>5, <1>6, <1>7, <1>8, <1>9, <1>10, <1>11, <1>12 DEF StartStep

\* The user takes no lock; the end of a process' output lets its turns go.
LEMMA LocksEnvironment ==
  ASSUME TypeOK, LocksHeld, Environment
  PROVE  LocksHeld'
<1>1. ASSUME UNCHANGED <<lockVars, taskVars>> PROVE LocksHeld'
  BY <1>1 DEF LocksHeld, ConnectHolds, SwitchHolds, StartHolds, lockVars, taskVars
<1>2. ASSUME NEW r \in Runtimes, OutputEnds(r) PROVE LocksHeld'
  <2>1. \A t \in Tasks : pc'[t] \in {pc[t], "done"}
    BY <1>2, DidOutputEnds
  <2>2. /\ \A t \in Starts : t \notin Waiting(r) => pc'[t] = pc[t]
        /\ \A t \in Starts : t \in Waiting(r) => pc'[t] = "done"
    BY <1>2, DidOutputEnds, Apart
  <2>3. /\ UNCHANGED <<spawnLock, gateWriter, poolLock, settingsLock>>
        /\ gateReaders' = gateReaders \ Waiting(r)
    BY <1>2 DEF OutputEnds
  <2>4. \A c \in Connects : ConnectHolds(c)'
    BY <2>1, <2>3, Apart DEF LocksHeld, ConnectHolds, Connecting
  <2>5. \A s \in Switches : SwitchHolds(s)'
    BY <2>1, <2>3, Apart DEF LocksHeld, SwitchHolds, Gated
  <2>6. \A t \in Starts : StartHolds(t)'
    BY <2>2, <2>3 DEF LocksHeld, StartHolds
  <2>7. QED
    BY <2>3, <2>4, <2>5, <2>6 DEF LocksHeld
<1>3. QED
  BY <1>1, <1>2 DEF Environment, ChangeSettings, Exit

\* Locks are kept by every step.
LEMMA LocksNext == TypeOK /\ Chosen /\ LocksHeld /\ [Next]_vars => LocksHeld'
<1> SUFFICES ASSUME TypeOK, Chosen, LocksHeld, [Next]_vars PROVE LocksHeld'
  OBVIOUS
<1>1. CASE UNCHANGED vars
  BY <1>1 DEF vars, LocksHeld, ConnectHolds, SwitchHolds, StartHolds, lockVars, taskVars
<1>2. QED
  BY <1>1, LocksConnect, LocksRemove, LocksSwitch, LocksStart, LocksEnvironment DEF Next

\* What every theorem below rests on.
Sound == TypeOK /\ Chosen /\ LocksHeld

\* And every step keeps it.
LEMMA SoundNext == Sound /\ [Next]_vars => Sound'
BY TypeNext, LocksNext DEF Sound

\* Initially nobody is past a lock.
LEMMA SoundInit == Init => Sound
<1>1. Init => LocksHeld
  BY Apart DEF Init, LocksHeld, ConnectHolds, SwitchHolds, StartHolds, Connecting, Gated
<1>2. QED
  BY <1>1, TypeInit DEF Sound

-----------------------------------------------------------------------------
(* Processes: one that was started keeps what it was started with, and none *)
(* comes back to life.                                                      *)

Started(r) == proc[r].state # "unused"

Kept ==
  \A r \in Runtimes : Started(r) => /\ Started(r)' /\ proc'[r].with = proc[r].with
                                    /\ Alive(r)' => Alive(r)

\* A step ends processes, starts one, or leaves them alone.
LEMMA KeptSame == ASSUME UNCHANGED proc PROVE Kept
BY DEF Kept, Started, Alive

\* Ending a set of processes.
LEMMA KeptEnded == ASSUME TypeOK, NEW R, NEW how \in Endings, Ended(R, how) PROVE Kept
BY DEF Kept, Started, Alive, Ended, TypeOK, Endings

\* Starting one that had not run.
LEMMA KeptSpawned == ASSUME TypeOK, NEW r \in Unused, NEW with, Spawned(r, with) PROVE Kept
BY DEF Kept, Started, Alive, Spawned, TypeOK, Unused

\* A connection starts at most one process.
LEMMA KeptConnect ==
  ASSUME TypeOK, NEW c \in Connects, ConnectStep(c)
  PROVE  Kept /\ UNCHANGED <<settings, config, pool, active>>
<1> USE DEF dataVars, mapVars, procVars
<1>1. CASE ConnectSpawns(c)
  BY <1>1, DidConnectSpawns, KeptSpawned DEF ConnectSpawns
<1>2. CASE ~ConnectSpawns(c)
  BY <1>2, KeptSame
     DEF ConnectStep, Connect, ConnectLocks, ConnectFindsOwn, ConnectLooksForShared,
         ConnectReuses, ConnectPasses, ConnectSpawnFails, ConnectRegisters, ConnectInserts
<1>3. QED
  BY <1>1, <1>2

\* A removal ends the process that only its workspace used.
LEMMA KeptRemove ==
  ASSUME TypeOK, NEW v \in Removes, RemoveStep(v)
  PROVE  Kept /\ UNCHANGED <<settings, config, pool, active>>
<1> USE DEF dataVars, mapVars, procVars
<1>1. CASE RemoveKills(v)
  BY <1>1, KeptEnded DEF RemoveKills, Endings
<1>2. CASE ~RemoveKills(v)
  BY <1>2, KeptSame DEF RemoveStep, RemoveTakes, RemoveUnregisters, RemoveForgets
<1>3. QED
  BY <1>1, <1>2

\* A switch starts one process, and ends its own or those it replaced.
LEMMA KeptSwitch ==
  ASSUME TypeOK, NEW s \in Switches, SwitchStep(s)
  PROVE  Kept /\ UNCHANGED <<settings, active>>
<1> USE DEF dataVars, mapVars, procVars
<1>1. CASE SwitchSpawns(s)
  BY <1>1, DidSwitchSpawns, KeptSpawned DEF SwitchSpawns
<1>2. CASE SwitchDiscards(s) \/ SwitchTerminates(s)
  BY <1>2, KeptEnded DEF SwitchDiscards, SwitchTerminates, Endings
<1>3. CASE ~(SwitchSpawns(s) \/ SwitchDiscards(s) \/ SwitchTerminates(s))
  BY <1>3, KeptSame
     DEF SwitchStep, Switch, SwitchLocks, SwitchClosesGate, SwitchLooks, SwitchSyncsOnly,
         SwitchSyncsForPool, SwitchFindsQuiet, SwitchFindsTurn, SwitchSpawnFails,
         SwitchCommits, SwitchSyncs, SwitchPublishes, SwitchEnlists, SwitchDrains
<1>4. QED
  BY <1>1, <1>2, <1>3

\* A start replaces a runtime of the pool, or closes idle ones.
LEMMA KeptStart ==
  ASSUME TypeOK, NEW t \in Starts, StartStep(t)
  PROVE  Kept /\ UNCHANGED <<settings, config, sessions>>
<1> USE DEF dataVars, mapVars, procVars
<1>1. CASE SpawnPooled(t)
  BY <1>1, DidSpawnPooled, KeptSpawned DEF SpawnPooled
<1>2. CASE ShutIdle(t) \/ KeepPrevious(t) \/ Retire(t)
  BY <1>2, KeptEnded DEF ShutIdle, KeepPrevious, Retire, Endings
<1>3. CASE ~(SpawnPooled(t) \/ ShutIdle(t) \/ KeepPrevious(t) \/ Retire(t))
  BY <1>3, KeptSame
     DEF StartStep, Start, ResolveShared, TakeIdle, FindPooled, SpawnPooledFails, Replace,
         Enlist, Send, SendFails, Accept, Refuse, Complete
<1>4. QED
  BY <1>1, <1>2, <1>3

\* A process may end by itself.
LEMMA KeptEnvironment ==
  ASSUME TypeOK, Environment
  PROVE  Kept /\ UNCHANGED <<config, mapVars>>
<1> USE DEF dataVars, mapVars, procVars
<1>1. ASSUME NEW r \in Runtimes, Exit(r) PROVE Kept
  BY <1>1, KeptEnded DEF Exit, Endings
<1>2. QED
  BY <1>1, KeptSame DEF Environment, ChangeSettings, Exit, OutputEnds

-----------------------------------------------------------------------------
(* A switch publishes what the settings ask for.                            *)

\* What a switch has settled when it comes to publish.
Settled(s) ==
  /\ pc[s] \in {"commit", "sync", "publish"} =>
       Started(local[s].rt) /\ Matches(s, local[s].rt)
  /\ pc[s] \in {"sync", "publish"} => TransactionMatches(s)
  /\ pc[s] = "publish" => config = local[s].want.profile

SwitchSettled == \A s \in Switches : Settled(s)

\* What others do to a switch that has settled something: the settings and the
\* config file are its own from the commit on.
LEMMA SettledKept ==
  ASSUME Sound, NEW s \in Switches, Settled(s), Kept, pc'[s] = pc[s], local'[s] = local[s],
         settingsLock = s => UNCHANGED <<settings, config>>
  PROVE  Settled(s)'
<1>1. s \in Tasks /\ (pc[s] \in {"sync", "publish"} => settingsLock = s)
  BY Apart DEF Sound, LocksHeld, SwitchHolds
<1>2. pc[s] \in {"commit", "sync", "publish"} => local[s].rt \in Runtimes
  BY <1>1, Fields DEF Sound, Chosen
<1>3. pc[s] \in {"commit", "sync", "publish"} =>
        proc'[local[s].rt].with = local[s].want /\ proc'[local[s].rt].state # "unused"
  BY <1>2 DEF Settled, Kept, Matches, Started
<1>4. QED
  BY <1>1, <1>2, <1>3 DEF Settled, Matches, Started, TransactionMatches

\* Calls of the other kinds.
LEMMA SettledOthers ==
  ASSUME Sound, SwitchSettled, NEW t \in Tasks \ Switches, PCMoves(t), LocalMoves(t), Kept,
         UNCHANGED <<settings, config>>
  PROVE  SwitchSettled'
<1> SUFFICES ASSUME NEW s \in Switches PROVE Settled(s)'
  BY DEF SwitchSettled
<1>1. s \in Tasks /\ pc'[s] = pc[s] /\ local'[s] = local[s]
  BY Apart DEF PCMoves, LocalMoves
<1>2. QED
  BY <1>1, SettledKept DEF SwitchSettled

\* What a step of a switch leaves settled for itself and for the others.
LEMMA SettledSwitch ==
  ASSUME Sound, SwitchSettled, NEW s \in Switches, SwitchStep(s)
  PROVE  SwitchSettled'
<1>0. /\ TypeOK /\ s \in Tasks /\ PCMoves(s) /\ LocalMoves(s) /\ Kept
      /\ UNCHANGED settings
  BY Apart, TypeSwitch, KeptSwitch DEF Sound
<1> USE DEF dataVars, mapVars, procVars, lockVars
<1>1. ASSUME NEW q \in Switches, q # s PROVE Settled(q)'
  <2>1. settingsLock = q => UNCHANGED config
    <3>1. SwitchSyncs(s) => settingsLock = s
      BY DEF SwitchSyncs, Sound, LocksHeld, SwitchHolds
    <3>2. QED
      BY <1>1, <3>1, Apart
         DEF SwitchStep, Switch, SwitchLocks, SwitchClosesGate, SwitchLooks,
             SwitchSyncsOnly, SwitchSyncsForPool, SwitchFindsQuiet, SwitchFindsTurn,
             SwitchSpawns, SwitchSpawnFails, SwitchCommits, SwitchDiscards,
             SwitchPublishes, SwitchEnlists, SwitchDrains, SwitchTerminates
  <2>2. q \in Tasks /\ pc'[q] = pc[q] /\ local'[q] = local[q]
    BY <1>0, <1>1, Apart DEF PCMoves, LocalMoves
  <2>3. QED
    BY <1>0, <2>1, <2>2, SettledKept DEF SwitchSettled
<1>2. Settled(s)'
  <2>a. ASSUME NEW label \in PCs \ {"commit", "sync", "publish"}, Goto(s, label)
        PROVE  Settled(s)'
    BY <1>0, <2>a, Went DEF Settled
  <2>1. ASSUME NEW w \in Workspaces, Switch(s, w) PROVE Settled(s)'
    BY <2>1, <2>a DEF Switch, PCs
  <2>2. CASE \/ SwitchLocks(s) \/ SwitchClosesGate(s) \/ SwitchEnlists(s) \/ SwitchDrains(s)
             \/ SwitchPublishes(s) \/ SwitchLooks(s) \/ SwitchFindsQuiet(s)
    BY <2>2, <2>a DEF SwitchLocks, SwitchClosesGate, SwitchEnlists, SwitchDrains,
                      SwitchPublishes, SwitchLooks, SwitchFindsQuiet, PCs
  <2>3. CASE SwitchSyncsForPool(s)
    BY <1>0, <2>3, <2>a, Returned DEF SwitchSyncsForPool, PCs, Settled
  <2>4. CASE \/ SwitchSyncsOnly(s) \/ SwitchFindsTurn(s) \/ SwitchSpawnFails(s)
             \/ SwitchDiscards(s) \/ SwitchTerminates(s)
    BY <1>0, <2>4, Returned DEF SwitchSyncsOnly, SwitchFindsTurn, SwitchSpawnFails,
                                SwitchDiscards, SwitchTerminates, Settled
  <2>5. CASE SwitchSpawns(s)
    <3>1. PICK r \in Unused : /\ Spawned(r, local[s].want) /\ pc'[s] = "commit"
                              /\ local'[s].rt = r /\ local'[s].want = local[s].want
      BY <1>0, <2>5, DidSwitchSpawns
    <3>2. proc'[r] = [state |-> "running", with |-> local[s].want]
      BY <1>0, <3>1 DEF Spawned, Unused, TypeOK
    <3>3. QED
      BY <3>1, <3>2 DEF Settled, Started, Matches
  <2>6. CASE SwitchCommits(s) \/ SwitchSyncs(s)
    <3>1. pc[s] \in {"commit", "sync"} /\ UNCHANGED <<proc, local>> /\ pc'[s] \in {"sync", "publish"}
      BY <1>0, <2>6, Went DEF SwitchCommits, SwitchSyncs, PCs
    <3>2. TransactionMatches(s)
      BY <2>6 DEF SwitchCommits, SwitchSyncs, MayCommit, SwitchSettled, Settled
    <3>3. pc'[s] = "publish" => config' = local[s].want.profile
      BY <1>0, <2>6, Went DEF SwitchCommits, SwitchSyncs, PCs
    <3>4. QED
      BY <1>0, <3>1, <3>2, <3>3
         DEF SwitchSettled, Settled, Started, Matches, TransactionMatches
  <2>7. QED
    BY <2>1, <2>2, <2>3, <2>4, <2>5, <2>6 DEF SwitchStep
<1>3. QED
  BY <1>1, <1>2 DEF SwitchSettled

\* Every step leaves settled what is.
LEMMA SettledNext == Sound /\ SwitchSettled /\ [Next]_vars => SwitchSettled'
<1> SUFFICES ASSUME Sound, SwitchSettled, [Next]_vars PROVE SwitchSettled'
  OBVIOUS
<1>0. TypeOK /\ Chosen
  BY DEF Sound
<1>1. CASE UNCHANGED vars
  BY <1>1 DEF vars, dataVars, procVars, taskVars, SwitchSettled, Settled, Started, Matches,
              TransactionMatches
<1>2. ASSUME NEW c \in Connects, ConnectStep(c) PROVE SwitchSettled'
  BY <1>0, <1>2, Apart, TypeConnect, KeptConnect, SettledOthers
<1>3. ASSUME NEW v \in Removes, RemoveStep(v) PROVE SwitchSettled'
  BY <1>0, <1>3, Apart, TypeRemove, KeptRemove, SettledOthers
<1>4. ASSUME NEW s \in Switches, SwitchStep(s) PROVE SwitchSettled'
  BY <1>4, SettledSwitch
<1>5. ASSUME NEW t \in Starts, StartStep(t) PROVE SwitchSettled'
  BY <1>0, <1>5, Apart, TypeStart, KeptStart, SettledOthers
<1>6. CASE Environment
  <2>1. ASSUME NEW s \in Switches PROVE Settled(s)'
    <3>1. Kept /\ UNCHANGED config
      BY <1>0, <1>6, KeptEnvironment
    <3>2. settingsLock = s => UNCHANGED settings
      BY <1>6, Apart DEF Environment, ChangeSettings, Exit, OutputEnds, dataVars
    <3>3. CASE UNCHANGED taskVars
      BY <3>1, <3>2, <3>3, SettledKept DEF SwitchSettled, taskVars
    <3>4. ASSUME NEW r \in Runtimes, OutputEnds(r) PROVE Settled(s)'
      <4>1. s \in Tasks /\ s \notin Waiting(r)
        BY Apart DEF Waiting
      <4>2. pc'[s] = pc[s] /\ local'[s] = local[s]
        BY <3>4, <4>1 DEF OutputEnds
      <4>3. QED
        BY <3>1, <3>2, <4>2, SettledKept DEF SwitchSettled
    <3>5. QED
      BY <1>6, <3>3, <3>4 DEF Environment, ChangeSettings, Exit
  <2>2. QED
    BY <2>1 DEF SwitchSettled
<1>7. QED
  BY <1>1, <1>2, <1>3, <1>4, <1>5, <1>6 DEF Next

\* A switch is moved by itself only.
LEMMA OwnStep ==
  ASSUME Sound, NEW s \in Switches, [Next]_vars, pc'[s] # pc[s]
  PROVE  SwitchStep(s)
<1>0. s \in Tasks /\ TypeOK /\ Chosen
  BY Apart DEF Sound
<1>1. ~UNCHANGED vars
  BY DEF vars, taskVars
<1>2. ASSUME NEW t \in Tasks, PCMoves(t) PROVE t = s
  BY <1>0, <1>2 DEF PCMoves
<1>3. ~Environment
  <2>1. \A r \in Runtimes : s \notin Waiting(r)
    BY Apart DEF Waiting
  <2>2. QED
    BY <1>0, <2>1, DidOutputEnds DEF Environment, ChangeSettings, Exit, taskVars
<1>4. QED
  BY <1>0, <1>1, <1>2, <1>3, Apart, TypeConnect, TypeRemove, TypeSwitch, TypeStart DEF Next

\* The step with which a switch leaves the publication is the publication.
LEMMA OnlyPublishes ==
  ASSUME Sound, NEW s \in Switches, [Next]_vars, pc[s] = "publish", pc'[s] # "publish"
  PROVE  SwitchPublishes(s)
<1>1. SwitchStep(s)
  BY OwnStep
<1>2. QED
  BY <1>1 DEF SwitchStep, Switch, SwitchLocks, SwitchClosesGate, SwitchLooks, SwitchSyncsOnly,
              SwitchSyncsForPool, SwitchFindsQuiet, SwitchFindsTurn, SwitchSpawns,
              SwitchSpawnFails, SwitchCommits, SwitchDiscards, SwitchSyncs, SwitchEnlists,
              SwitchDrains, SwitchTerminates

\* When a switch publishes its runtime, the settings still ask for its binary and its
\* Provider, the config file names the same, and every connected workspace gets that
\* runtime, with the args the switch has read or was asked for.
THEOREM SwitchPublishesTarget == Spec => PublishedIsTarget
<1>1. Init => Sound /\ SwitchSettled
  BY SoundInit, Apart DEF Init, SwitchSettled, Settled
<1>2. Sound /\ SwitchSettled /\ [Next]_vars => (Sound /\ SwitchSettled)'
  BY SoundNext, SettledNext
<1>3. Sound /\ SwitchSettled /\ [Next]_vars => PublishesTarget
  <2> SUFFICES ASSUME Sound, SwitchSettled, [Next]_vars, NEW s \in Switches,
                      pc[s] = "publish", pc'[s] # "publish"
               PROVE  /\ config = settings.profile
                      /\ \A w \in Connected :
                           /\ sessions'[w] # None
                           /\ proc[sessions'[w]].with = [settings EXCEPT !.args = local[s].want.args]
    BY DEF PublishesTarget
  <2>1. SwitchPublishes(s)
    BY OnlyPublishes
  <2>2. TransactionMatches(s) /\ config = settings.profile /\ Matches(s, local[s].rt)
    BY DEF SwitchSettled, Settled, TransactionMatches
  <2>3. local[s].rt # None
    BY DEF Sound, Chosen
  <2>4. \A w \in Connected : sessions'[w] = local[s].rt
    BY <2>1 DEF SwitchPublishes, Connected
  <2>5. local[s].want = [settings EXCEPT !.args = local[s].want.args]
    <3>1. s \in Tasks /\ settings \in Settings /\ local[s].want \in Settings
      BY Apart, Fields, Maps DEF Sound
    <3>2. QED
      BY <2>2, <3>1 DEF Settings, TransactionMatches
  <2>6. QED
    BY <2>2, <2>3, <2>4, <2>5 DEF Matches
<1>4. QED
  BY <1>1, <1>2, <1>3, PTL DEF Spec, PublishedIsTarget

-----------------------------------------------------------------------------
(* Workspaces share: the session map never has two running processes of one *)
(* binary, and a connection under way does not bring a second one.          *)

OneEach(R) ==
  \A r, q \in R : Alive(r) /\ Alive(q) /\ proc[r].with.bin = proc[q].with.bin => r = q

\* A connection has not passed over a running process of the binary it wants.
Shared(c) ==
  /\ pc[c] = "reuse" =>
       /\ \A r \in local[c].old : Started(r)
       /\ OneEach(Primary \cup local[c].old)
       /\ \A r \in Primary \ local[c].old : Alive(r) => proc[r].with.bin # local[c].want.bin
  /\ pc[c] \in {"register", "insert"} =>
       /\ local[c].rt # None /\ Started(local[c].rt)
       /\ OneEach(Primary \cup {local[c].rt})

MapShared == (\A r \in Primary : Started(r)) /\ OneEach(Primary)
Unshared  == MapShared /\ \A c \in Connects : Shared(c)

\* What is taken out of the map adds nothing to it.
LEMMA MapShrinks ==
  ASSUME \A w \in Workspaces : sessions'[w] \in {sessions[w], None}
  PROVE  Primary' \subseteq Primary
BY DEF Primary, Connected

\* Forgetting a process is such a change of the map.
LEMMA Forgets ==
  ASSUME TypeOK, NEW r, sessions' = Forgotten(r)
  PROVE  \A w \in Workspaces : sessions'[w] \in {sessions[w], None}
BY DEF Forgotten

\* Processes that are of different binaries stay so.
LEMMA StillEach ==
  ASSUME TypeOK, Kept, NEW R \in SUBSET Runtimes, \A r \in R : Started(r), OneEach(R)
  PROVE  /\ \A r \in R : Started(r)' /\ proc'[r].with = proc[r].with /\ (Alive(r)' => Alive(r))
         /\ \A r, q \in R : Alive(r)' /\ Alive(q)' /\ proc'[r].with.bin = proc'[q].with.bin => r = q
BY DEF Kept, OneEach

\* A map that only shrinks is still shared.
LEMMA MapStillShared ==
  ASSUME TypeOK, MapShared, Kept, Primary' \subseteq Primary
  PROVE  MapShared'
<1>1. Primary \in SUBSET Runtimes
  BY Maps
<1>2. QED
  BY <1>1, StillEach DEF MapShared, OneEach

\* And so is the place of a connection that takes no step.
LEMMA SharedKept ==
  ASSUME TypeOK, MapShared, NEW c \in Connects, Shared(c), Kept, Primary' \subseteq Primary,
         pc'[c] = pc[c], local'[c] = local[c]
  PROVE  Shared(c)'
<1>0. c \in Tasks /\ Primary \in SUBSET Runtimes
  BY Apart, Maps
<1>1. CASE pc[c] = "reuse"
  <2> DEFINE R == Primary \cup local[c].old
  <2>1. R \in SUBSET Runtimes /\ (\A r \in R : Started(r)) /\ OneEach(R)
    BY <1>0, <1>1, Fields DEF Shared, MapShared
  <2>2. /\ \A r \in R : Started(r)' /\ proc'[r].with = proc[r].with /\ (Alive(r)' => Alive(r))
        /\ \A r, q \in R : Alive(r)' /\ Alive(q)' /\ proc'[r].with.bin = proc'[q].with.bin => r = q
    BY <2>1, StillEach
  <2>3. QED
    BY <1>1, <2>2 DEF Shared, OneEach
<1>2. CASE pc[c] \in {"register", "insert"}
  <2> DEFINE R == Primary \cup {local[c].rt}
  <2>1. R \in SUBSET Runtimes /\ (\A r \in R : Started(r)) /\ OneEach(R)
    BY <1>0, <1>2, Fields DEF Shared, MapShared
  <2>2. /\ \A r \in R : Started(r)' /\ proc'[r].with = proc[r].with /\ (Alive(r)' => Alive(r))
        /\ \A r, q \in R : Alive(r)' /\ Alive(q)' /\ proc'[r].with.bin = proc'[q].with.bin => r = q
    BY <2>1, StillEach
  <2>3. QED
    BY <1>2, <2>2 DEF Shared, OneEach
<1>3. CASE pc[c] \notin {"reuse", "register", "insert"}
  BY <1>3 DEF Shared
<1>4. QED
  BY <1>1, <1>2, <1>3

\* Calls of the other kinds, when the map only shrinks.
LEMMA UnsharedOthers ==
  ASSUME TypeOK, Unshared, Kept, Primary' \subseteq Primary,
         \A c \in Connects : pc'[c] = pc[c] /\ local'[c] = local[c]
  PROVE  Unshared'
BY MapStillShared, SharedKept DEF Unshared

\* A connection's own steps.
LEMMA UnsharedConnect ==
  ASSUME Sound, Unshared, NEW c \in Connects, ConnectStep(c)
  PROVE  Unshared'
<1>0. /\ TypeOK /\ c \in Tasks /\ c # None /\ PCMoves(c) /\ LocalMoves(c) /\ Kept
      /\ MapShared /\ Shared(c) /\ Primary \in SUBSET Runtimes
      /\ \A q \in Connects : q # c => q \in Tasks /\ pc'[q] = pc[q] /\ local'[q] = local[q]
  BY Apart, TypeConnect, KeptConnect, Maps DEF Sound, PCMoves, LocalMoves, Unshared
<1> USE DEF dataVars, mapVars, procVars, lockVars
<1>1. CASE ConnectInserts(c)
  <2>1. pc'[c] = "done"
    BY <1>0, <1>1, Returned DEF ConnectInserts
  <2>2. \A q \in Connects : pc'[q] \notin {"reuse", "register", "insert"}
    <3>1. spawnLock = c
      BY <1>1 DEF ConnectInserts, Sound, LocksHeld, ConnectHolds, Connecting
    <3>2. QED
      BY <1>0, <2>1, <3>1 DEF Sound, LocksHeld, ConnectHolds, Connecting
  <2>3. \A q \in Connects : Shared(q)'
    BY <2>2 DEF Shared
  <2> DEFINE R == Primary \cup {local[c].rt}
  <2>4. R \in SUBSET Runtimes /\ (\A r \in R : Started(r)) /\ OneEach(R)
    BY <1>0, <1>1, Fields DEF Shared, MapShared, ConnectInserts
  <2>5. Primary' \subseteq R
    BY <1>0, <1>1 DEF ConnectInserts, Primary, Connected, TypeOK
  <2>6. /\ \A r \in R : Started(r)' /\ proc'[r].with = proc[r].with /\ (Alive(r)' => Alive(r))
        /\ \A r, q \in R : Alive(r)' /\ Alive(q)' /\ proc'[r].with.bin = proc'[q].with.bin => r = q
    BY <1>0, <2>4, StillEach
  <2>7. MapShared'
    BY <2>5, <2>6 DEF MapShared, OneEach
  <2>8. QED
    BY <2>3, <2>7 DEF Unshared
<1>2. CASE ~ConnectInserts(c)
  <2>1. Primary' \subseteq Primary
    <3>1. UNCHANGED sessions \/ \E r : sessions' = Forgotten(r)
      BY <1>0, <1>2, DidConnectPasses
         DEF ConnectStep, Connect, ConnectLocks, ConnectFindsOwn, ConnectLooksForShared,
             ConnectReuses, ConnectSpawns, ConnectSpawnFails, ConnectRegisters
    <3>2. QED
      BY <1>0, <3>1, Forgets, MapShrinks
  <2>2. Shared(c)'
    <3>1. ASSUME NEW w \in Workspaces, Connect(c, w) PROVE Shared(c)'
      BY <1>0, <3>1, DidConnect DEF Shared
    <3>2. CASE ConnectLocks(c)
      BY <1>0, <3>2, DidConnectLocks DEF Shared
    <3>3. CASE ConnectFindsOwn(c) \/ ConnectSpawnFails(c)
      BY <1>0, <3>3, Returned DEF Shared, ConnectFindsOwn, ConnectSpawnFails
    <3>4. CASE ConnectLooksForShared(c)
      <4>1. pc'[c] = "reuse" /\ local'[c].old = {sessions'[w] : w \in Workspaces} \ {None}
        BY <1>0, <3>4, DidConnectLooksForShared
      <4>2. local'[c].old = Primary'
        BY <4>1 DEF Primary, Connected
      <4>3. MapShared'
        BY <1>0, <2>1, MapStillShared
      <4>4. OneEach(Primary \cup local[c].old)'
        BY <4>2, <4>3 DEF MapShared, OneEach
      <4>5. QED
        BY <4>1, <4>2, <4>3, <4>4 DEF Shared, MapShared
    <3>5. CASE ConnectReuses(c)
      <4>1. PICK r \in local[c].old :
              pc'[c] = "register" /\ Alive(r) /\ local'[c].rt = r
        BY <1>0, <3>5, DidConnectReuses
      <4> DEFINE R == Primary \cup local[c].old
      <4>2. R \in SUBSET Runtimes /\ (\A q \in R : Started(q)) /\ OneEach(R)
        BY <1>0, <3>5, Fields DEF ConnectReuses, Shared, MapShared
      <4>3. /\ \A q \in R : Started(q)'
            /\ \A p, q \in R : Alive(p)' /\ Alive(q)' /\ proc'[p].with.bin = proc'[q].with.bin => p = q
        BY <1>0, <4>2, StillEach
      <4>4. (Primary \cup {local[c].rt})' \subseteq R /\ local'[c].rt \in R
        BY <2>1, <4>1
      <4>5. QED
        BY <4>1, <4>3, <4>4 DEF Shared, OneEach, Alive
    <3>6. CASE ConnectPasses(c)
      <4>1. PICK r \in local[c].old :
              /\ pc'[c] = "reuse" /\ local'[c].old = local[c].old \ {r}
              /\ ~(Alive(r) /\ proc[r].with.bin = local[c].want.bin)
              /\ local'[c].want = local[c].want
        BY <1>0, <3>6, DidConnectPasses
      <4> DEFINE R == Primary \cup local[c].old
      <4>2. /\ R \in SUBSET Runtimes /\ (\A q \in R : Started(q)) /\ OneEach(R)
            /\ \A q \in Primary \ local[c].old : Alive(q) => proc[q].with.bin # local[c].want.bin
        BY <1>0, <3>6, Fields DEF ConnectPasses, Shared, MapShared
      <4>3. /\ \A q \in R : Started(q)' /\ proc'[q].with = proc[q].with /\ (Alive(q)' => Alive(q))
            /\ \A p, q \in R : Alive(p)' /\ Alive(q)' /\ proc'[p].with.bin = proc'[q].with.bin => p = q
        BY <1>0, <4>2, StillEach
      <4>4. \A q \in Primary' \ local'[c].old : Alive(q)' => proc'[q].with.bin # local'[c].want.bin
        BY <2>1, <4>1, <4>2, <4>3
      <4>5. OneEach(Primary \cup local[c].old)' /\ \A q \in local'[c].old : Started(q)'
        BY <2>1, <4>1, <4>3 DEF OneEach
      <4>6. QED
        BY <4>1, <4>4, <4>5 DEF Shared
    <3>7. CASE ConnectSpawns(c)
      <4>1. PICK r \in Unused :
              /\ pc'[c] = "register" /\ local'[c].rt = r
              /\ Spawned(r, [local[c].want EXCEPT !.profile = settings.profile])
        BY <1>0, <3>7, DidConnectSpawns
      <4>2. proc'[r] = [state |-> "running", with |-> [local[c].want EXCEPT !.profile = settings.profile]]
        BY <1>0, <4>1 DEF Spawned, Unused, TypeOK
      <4>3. \A q \in Primary : Alive(q) => proc[q].with.bin # local[c].want.bin
        BY <1>0, <3>7 DEF ConnectSpawns, Shared
      <4>4. /\ \A q \in Primary : Started(q)' /\ proc'[q].with = proc[q].with /\ (Alive(q)' => Alive(q))
            /\ \A p, q \in Primary : Alive(p)' /\ Alive(q)' /\ proc'[p].with.bin = proc'[q].with.bin => p = q
        BY <1>0, StillEach DEF MapShared
      <4>5. r # None
        BY TasksAssumption DEF Unused
      <4>6. \A q \in Primary : Alive(q)' => proc'[q].with.bin # proc'[r].with.bin
        <5>1. local[c].want \in Settings
          BY <1>0, Fields
        <5>2. proc'[r].with.bin = local[c].want.bin
          BY <4>2, <5>1 DEF Settings
        <5>3. QED
          BY <4>3, <4>4, <5>2
      <4>7. OneEach(Primary \cup {local[c].rt})'
        BY <2>1, <4>1, <4>4, <4>6 DEF OneEach
      <4>8. QED
        BY <4>1, <4>2, <4>5, <4>7 DEF Shared, Started
    <3>8. CASE ConnectRegisters(c)
      <4>1. pc[c] = "register" /\ pc'[c] = "insert" /\ local'[c] = local[c]
        BY <1>0, <3>8, Went DEF ConnectRegisters, PCs
      <4> DEFINE R == Primary \cup {local[c].rt}
      <4>2. R \in SUBSET Runtimes /\ (\A q \in R : Started(q)) /\ OneEach(R) /\ local[c].rt # None
        BY <1>0, <4>1, Fields DEF Shared, MapShared
      <4>3. /\ \A q \in R : Started(q)'
            /\ \A p, q \in R : Alive(p)' /\ Alive(q)' /\ proc'[p].with.bin = proc'[q].with.bin => p = q
        BY <1>0, <4>2, StillEach
      <4>4. QED
        BY <2>1, <4>1, <4>2, <4>3 DEF Shared, OneEach
    <3>9. QED
      BY <1>2, <3>1, <3>2, <3>3, <3>4, <3>5, <3>6, <3>7, <3>8 DEF ConnectStep
  <2>3. QED
    BY <1>0, <2>1, <2>2, MapStillShared, SharedKept DEF Unshared
<1>3. QED
  BY <1>1, <1>2

\* A publication puts one runtime where any was; no connection is under way then.
LEMMA UnsharedPublishes ==
  ASSUME Sound, SwitchSettled, Unshared, NEW s \in Switches, SwitchPublishes(s)
  PROVE  Unshared'
<1>0. /\ s \in Tasks /\ TypeOK /\ PCMoves(s)
      /\ \A c \in Connects : c \in Tasks /\ c # s
  BY Apart, DidSwitchPublishes DEF Sound
<1>1. spawnLock = s
  BY DEF SwitchPublishes, Sound, LocksHeld, SwitchHolds, Gated
<1>2. \A c \in Connects : pc'[c] \notin {"reuse", "register", "insert"}
  BY <1>0, <1>1 DEF Sound, LocksHeld, ConnectHolds, Connecting, PCMoves
<1>3. Started(local[s].rt) /\ UNCHANGED proc
  BY DEF SwitchPublishes, SwitchSettled, Settled, procVars
<1>4. Primary' \subseteq {local[s].rt}
  BY DEF SwitchPublishes, Primary, Connected
<1>5. MapShared'
  BY <1>3, <1>4 DEF MapShared, OneEach, Started
<1>6. QED
  BY <1>2, <1>5 DEF Unshared, Shared

\* Every step leaves the map shared.
LEMMA UnsharedNext == Sound /\ SwitchSettled /\ Unshared /\ [Next]_vars => Unshared'
<1> SUFFICES ASSUME Sound, SwitchSettled, Unshared, [Next]_vars PROVE Unshared'
  OBVIOUS
<1>0. TypeOK /\ Chosen
  BY DEF Sound
<1>a. UNCHANGED sessions => Primary' \subseteq Primary
  BY MapShrinks
<1>b. ASSUME NEW t \in Tasks \ Connects, PCMoves(t), LocalMoves(t)
      PROVE  \A c \in Connects : pc'[c] = pc[c] /\ local'[c] = local[c]
  BY <1>b, Apart DEF PCMoves, LocalMoves
<1> USE DEF mapVars
<1>1. CASE UNCHANGED vars
  BY <1>0, <1>1, <1>a, KeptSame, UnsharedOthers DEF vars, taskVars, procVars
<1>2. ASSUME NEW c \in Connects, ConnectStep(c) PROVE Unshared'
  BY <1>2, UnsharedConnect
<1>3. ASSUME NEW v \in Removes, RemoveStep(v) PROVE Unshared'
  <2>1. \A w \in Workspaces : sessions'[w] \in {sessions[w], None}
    BY <1>0, <1>3 DEF RemoveStep, RemoveTakes, RemoveUnregisters, RemoveKills, RemoveForgets, TypeOK
  <2>2. QED
    BY <1>0, <1>3, <1>b, <2>1, MapShrinks, Apart, TypeRemove, KeptRemove, UnsharedOthers
<1>4. ASSUME NEW s \in Switches, SwitchStep(s) PROVE Unshared'
  <2>1. CASE SwitchPublishes(s)
    BY <2>1, UnsharedPublishes
  <2>2. CASE ~SwitchPublishes(s)
    <3>1. UNCHANGED sessions
      BY <1>4, <2>2
         DEF SwitchStep, Switch, SwitchLocks, SwitchClosesGate, SwitchLooks, SwitchSyncsOnly,
             SwitchSyncsForPool, SwitchFindsQuiet, SwitchFindsTurn, SwitchSpawns,
             SwitchSpawnFails, SwitchCommits, SwitchDiscards, SwitchSyncs, SwitchEnlists,
             SwitchDrains, SwitchTerminates
    <3>2. QED
      BY <1>0, <1>4, <1>a, <1>b, <3>1, Apart, TypeSwitch, KeptSwitch, UnsharedOthers
  <2>3. QED
    BY <2>1, <2>2
<1>5. ASSUME NEW t \in Starts, StartStep(t) PROVE Unshared'
  BY <1>0, <1>5, <1>a, <1>b, Apart, TypeStart, KeptStart, UnsharedOthers
<1>6. CASE Environment
  <2>1. \A c \in Connects : pc'[c] = pc[c] /\ local'[c] = local[c]
    BY <1>6, Apart DEF Environment, ChangeSettings, Exit, OutputEnds, Waiting, taskVars
  <2>2. QED
    BY <1>0, <1>6, <1>a, <2>1, KeptEnvironment, UnsharedOthers
<1>7. QED
  BY <1>1, <1>2, <1>3, <1>4, <1>5, <1>6 DEF Next

\* Two processes of one binary never serve the session map.
THEOREM WorkspacesShare == Spec => []OneProcessPerBin
<1>1. Init => Sound /\ SwitchSettled /\ Unshared
  <2>1. Init => Unshared
    BY Apart DEF Init, Unshared, MapShared, Shared, OneEach, Primary, Connected
  <2>2. QED
    BY <2>1, SoundInit, Apart DEF Init, SwitchSettled, Settled
<1>2. Sound /\ SwitchSettled /\ Unshared /\ [Next]_vars => (Sound /\ SwitchSettled /\ Unshared)'
  BY SoundNext, SettledNext, UnsharedNext
<1>3. Unshared => OneProcessPerBin
  BY DEF Unshared, MapShared, OneEach, OneProcessPerBin
<1>4. QED
  BY <1>1, <1>2, <1>3, PTL DEF Spec

-----------------------------------------------------------------------------
(* A switch under the gate: no turn chooses a runtime, no connection enters *)
(* the map, and the turns that are under way can only end.                  *)

\* A turn that is under way is marked at its runtime.
TurnsMarked ==
  \A t \in Turns :
    /\ pc[t] = "idle" => local[t].rt = None
    /\ pc[t] = "turn" => local[t].rt \in Runtimes /\ t \in active[local[t].rt]

\* What the steps of a start do to the marks.
LEMMA MarksStart ==
  ASSUME TypeOK, Chosen, NEW t \in Starts, StartStep(t)
  PROVE  /\ pc'[t] # "idle" /\ (pc'[t] = "turn" => Accept(t))
         /\ \A r \in Runtimes : \A q \in Starts : q # t /\ q \in active[r] => q \in active'[r]
<1>0. t \in Tasks
  BY Apart
<1> USE DEF procVars
<1>a. UNCHANGED active =>
        \A r \in Runtimes : \A q \in Starts : q # t /\ q \in active[r] => q \in active'[r]
  OBVIOUS
<1>1. ASSUME NEW w \in Workspaces, NEW k \in Sources \cup {None}, Start(t, w, k)
      PROVE  pc'[t] \notin {"idle", "turn"} /\ UNCHANGED active
  BY <1>1, DidStart DEF Start
<1>2. CASE ResolveShared(t)
  BY <1>0, <1>2, DidResolveShared, Returned DEF ResolveShared
<1>3. CASE TakeIdle(t) \/ ShutIdle(t) \/ SpawnPooled(t) \/ KeepPrevious(t) \/ Retire(t)
  BY <1>3, DidTakeIdle, DidShutIdle, DidSpawnPooled, DidKeepPrevious, DidRetire
     DEF TakeIdle, ShutIdle, SpawnPooled, KeepPrevious, Retire
<1>4. CASE FindPooled(t)
  BY <1>4, DidFindPooled DEF FindPooled, Chosen
<1>5. CASE SpawnPooledFails(t) \/ SendFails(t)
  BY <1>0, <1>5, Returned DEF SpawnPooledFails, SendFails
<1>6. CASE Replace(t)
  BY <1>0, <1>6, Went DEF Replace, PCs
<1>7. CASE Enlist(t)
  BY <1>0, <1>7, Went, Returned DEF Enlist, PCs
<1>8. CASE Send(t)
  <2>1. pc'[t] = "sent"
    BY <1>0, <1>8, Went DEF Send, PCs
  <2>2. QED
    BY <1>8, <2>1 DEF Send, TypeOK
<1>9. CASE Accept(t)
  <2>1. pc'[t] = "turn"
    BY <1>0, <1>9, Went DEF Accept, PCs
  <2>2. QED
    BY <1>9, <2>1 DEF Accept, TypeOK
<1>10. CASE Refuse(t)
  <2>1. pc'[t] = "done"
    BY <1>0, <1>10, Returned DEF Refuse
  <2>2. QED
    BY <1>10, <2>1 DEF Refuse, TypeOK
<1>11. CASE Complete(t)
  <2>1. pc'[t] = "done"
    BY <1>0, <1>11, Finished DEF Complete
  <2>2. QED
    BY <1>11, <2>1 DEF Complete, TypeOK
<1>12. QED
  BY <1>a, <1>1, <1>2, <1>3, <1>4, <1>5, <1>6, <1>7, <1>8, <1>9, <1>10, <1>11 DEF StartStep

\* Every step keeps the marks.
LEMMA MarkedNext == Sound /\ TurnsMarked /\ [Next]_vars => TurnsMarked'
<1> SUFFICES ASSUME Sound, TurnsMarked, [Next]_vars PROVE TurnsMarked'
  OBVIOUS
<1>0. TypeOK /\ Chosen
  BY DEF Sound
<1>a. ASSUME NEW t \in Tasks \ Starts, PCMoves(t), LocalMoves(t), UNCHANGED active
      PROVE  TurnsMarked'
  <2>1. \A q \in Turns : pc'[q] = pc[q] /\ local'[q] = local[q]
    BY <1>a, Apart DEF PCMoves, LocalMoves
  <2>2. QED
    BY <1>a, <2>1 DEF TurnsMarked
<1>1. CASE UNCHANGED <<taskVars, active>>
  BY <1>1 DEF taskVars, TurnsMarked
<1>2. ASSUME NEW c \in Connects, ConnectStep(c) PROVE TurnsMarked'
  BY <1>0, <1>2, <1>a, Apart, TypeConnect, KeptConnect
<1>3. ASSUME NEW v \in Removes, RemoveStep(v) PROVE TurnsMarked'
  BY <1>0, <1>3, <1>a, Apart, TypeRemove, KeptRemove
<1>4. ASSUME NEW s \in Switches, SwitchStep(s) PROVE TurnsMarked'
  BY <1>0, <1>4, <1>a, Apart, TypeSwitch, KeptSwitch
<1>5. ASSUME NEW t \in Starts, StartStep(t) PROVE TurnsMarked'
  <2>0. /\ t \in Tasks /\ PCMoves(t) /\ LocalMoves(t)
        /\ pc'[t] # "idle" /\ (pc'[t] = "turn" => Accept(t))
        /\ \A r \in Runtimes : \A q \in Starts : q # t /\ q \in active[r] => q \in active'[r]
    BY <1>0, <1>5, Apart, TypeStart, MarksStart
  <2>1. ASSUME NEW q \in Turns, q # t
        PROVE  /\ pc'[q] = "idle" => local'[q].rt = None
               /\ pc'[q] = "turn" => local'[q].rt \in Runtimes /\ q \in active'[local'[q].rt]
    BY <2>0, <2>1, Apart DEF TurnsMarked, PCMoves, LocalMoves
  <2>2. pc'[t] = "turn" => local'[t].rt \in Runtimes /\ t \in active'[local'[t].rt]
    <3>1. SUFFICES ASSUME Accept(t) PROVE local'[t].rt \in Runtimes /\ t \in active'[local'[t].rt]
      BY <2>0
    <3>2. local[t].rt \in Runtimes /\ UNCHANGED local
      BY <1>0, <2>0, <3>1, Fields DEF Accept, Alive
    <3>3. QED
      BY <1>0, <3>1, <3>2 DEF Accept, TypeOK
  <2>3. QED
    BY <2>0, <2>1, <2>2 DEF TurnsMarked
<1>6. ASSUME NEW r \in Runtimes, OutputEnds(r) PROVE TurnsMarked'
  <2>1. ASSUME NEW t \in Turns
        PROVE  /\ pc'[t] = "idle" => local'[t].rt = None
               /\ pc'[t] = "turn" => local'[t].rt \in Runtimes /\ t \in active'[local'[t].rt]
    <3>1. CASE t \in Waiting(r)
      BY <1>0, <1>6, <3>1, DidOutputEnds, Apart
    <3>2. CASE t \notin Waiting(r)
      <4>1. pc'[t] = pc[t] /\ local'[t].rt = local[t].rt
        BY <1>0, <1>6, <3>2, DidOutputEnds, Apart
      <4>2. pc[t] = "turn" => local[t].rt # r
        BY <3>2, Apart DEF Waiting
      <4>3. \A q \in Runtimes : q # r => active'[q] = active[q]
        BY <1>0, <1>6 DEF OutputEnds, TypeOK
      <4>4. QED
        BY <4>1, <4>2, <4>3 DEF TurnsMarked
    <3>3. QED
      BY <3>1, <3>2
  <2>2. QED
    BY <2>1 DEF TurnsMarked
<1>7. QED
  BY <1>1, <1>2, <1>3, <1>4, <1>5, <1>6
     DEF Next, Environment, ChangeSettings, Exit, vars, procVars

\* While a switch has the spawn lock, the others only take out of the map.
Gating(s) == pc[s] \in Gated

\* That is what the steps of the others are held to.
LEMMA MapUndisturbed ==
  ASSUME Sound, NEW s \in Switches, Gating(s), [Next]_vars, ~SwitchStep(s)
  PROVE  Primary' \subseteq Primary /\ pc'[s] = pc[s] /\ local'[s] = local[s] /\ Kept
<1>0. /\ s \in Tasks /\ TypeOK /\ Chosen /\ s # None /\ spawnLock = s
  BY Apart DEF Sound, LocksHeld, SwitchHolds, Gating
<1>a. UNCHANGED sessions => Primary' \subseteq Primary
  BY MapShrinks
<1> USE DEF mapVars
<1>1. CASE UNCHANGED vars
  BY <1>1, <1>a, KeptSame DEF vars, taskVars, procVars
<1>2. ASSUME NEW c \in Connects, ConnectStep(c)
      PROVE  UNCHANGED sessions /\ Kept /\ pc'[s] = pc[s] /\ local'[s] = local[s]
  <2>1. c # s /\ spawnLock # c /\ c \in Tasks
    BY <1>0, Apart
  <2>2. UNCHANGED sessions
    BY <1>0, <1>2, <2>1
       DEF ConnectStep, Connect, ConnectLocks, ConnectFindsOwn, ConnectLooksForShared,
           ConnectReuses, ConnectPasses, ConnectSpawns, ConnectSpawnFails, ConnectRegisters,
           ConnectInserts, Sound, LocksHeld, ConnectHolds, Connecting
  <2>3. QED
    BY <1>0, <1>2, <2>1, <2>2, TypeConnect, KeptConnect DEF PCMoves, LocalMoves
<1>3. ASSUME NEW v \in Removes, RemoveStep(v)
      PROVE  Primary' \subseteq Primary /\ Kept /\ pc'[s] = pc[s] /\ local'[s] = local[s]
  <2>1. \A w \in Workspaces : sessions'[w] \in {sessions[w], None}
    BY <1>0, <1>3 DEF RemoveStep, RemoveTakes, RemoveUnregisters, RemoveKills, RemoveForgets, TypeOK
  <2>2. QED
    BY <1>0, <1>3, <2>1, MapShrinks, Apart, TypeRemove, KeptRemove DEF PCMoves, LocalMoves
<1>4. ASSUME NEW q \in Switches, SwitchStep(q)
      PROVE  UNCHANGED sessions /\ Kept /\ pc'[s] = pc[s] /\ local'[s] = local[s]
  <2>1. q # s /\ spawnLock # q /\ q \in Tasks
    BY <1>0, <1>4, Apart
  <2>2. UNCHANGED sessions
    BY <1>4, <2>1
       DEF SwitchStep, Switch, SwitchLocks, SwitchClosesGate, SwitchLooks, SwitchSyncsOnly,
           SwitchSyncsForPool, SwitchFindsQuiet, SwitchFindsTurn, SwitchSpawns,
           SwitchSpawnFails, SwitchCommits, SwitchDiscards, SwitchSyncs, SwitchPublishes,
           SwitchEnlists, SwitchDrains, SwitchTerminates, Sound, LocksHeld, SwitchHolds, Gated
  <2>3. QED
    BY <1>0, <1>4, <2>1, <2>2, TypeSwitch, KeptSwitch DEF PCMoves, LocalMoves
<1>5. ASSUME NEW t \in Starts, StartStep(t)
      PROVE  UNCHANGED sessions /\ Kept /\ pc'[s] = pc[s] /\ local'[s] = local[s]
  BY <1>0, <1>5, Apart, TypeStart, KeptStart DEF PCMoves, LocalMoves
<1>6. CASE Environment
  BY <1>0, <1>6, <1>a, Apart, KeptEnvironment
     DEF Environment, ChangeSettings, Exit, OutputEnds, Waiting, taskVars
<1>7. QED
  BY <1>a, <1>1, <1>2, <1>3, <1>4, <1>5, <1>6 DEF Next

\* Under the gate a turn does nothing but end, if there are no reviews.
LEMMA GateClosed ==
  ASSUME Reviews = {}, Sound, NEW s \in Switches, Gating(s), NEW t \in Starts, StartStep(t)
  PROVE  Complete(t)
<1>1. t \in Turns /\ gateWriter # None /\ gateReaders = {}
  BY Apart DEF Starts, Sound, LocksHeld, SwitchHolds, Gating
<1>2. pc[t] \in {"idle", "turn", "done"}
  BY <1>1, Apart DEF Sound, LocksHeld, StartHolds
<1>3. QED
  BY <1>1, <1>2
     DEF StartStep, Start, ResolveShared, TakeIdle, ShutIdle, FindPooled, SpawnPooled,
         SpawnPooledFails, KeepPrevious, Replace, Retire, Enlist, Send, SendFails, Accept, Refuse

\* So nothing enters the pool, and no turn begins.
LEMMA PoolUndisturbed ==
  ASSUME Reviews = {}, Sound, NEW s \in Switches, Gating(s), [Next]_vars, ~SwitchStep(s)
  PROVE  Pooled' \subseteq Pooled /\ \A r \in Runtimes : active'[r] \subseteq active[r]
<1>0. TypeOK /\ Chosen /\ s \in Tasks /\ s # None /\ spawnLock = s
  BY Apart DEF Sound, LocksHeld, SwitchHolds, Gating
<1>a. UNCHANGED pool => Pooled' = Pooled
  BY DEF Pooled
<1> USE DEF mapVars, procVars
<1>1. CASE UNCHANGED vars
  BY <1>1, <1>a DEF vars
<1>2. ASSUME NEW c \in Connects, ConnectStep(c) PROVE UNCHANGED <<pool, active>>
  BY <1>0, <1>2, KeptConnect
<1>3. ASSUME NEW v \in Removes, RemoveStep(v) PROVE UNCHANGED <<pool, active>>
  BY <1>0, <1>3, KeptRemove
<1>4. ASSUME NEW q \in Switches, SwitchStep(q) PROVE UNCHANGED <<pool, active>>
  <2>1. q # s /\ spawnLock # q
    BY <1>0, <1>4
  <2>2. UNCHANGED pool
    BY <1>4, <2>1
       DEF SwitchStep, Switch, SwitchLocks, SwitchClosesGate, SwitchLooks, SwitchSyncsOnly,
           SwitchSyncsForPool, SwitchFindsQuiet, SwitchFindsTurn, SwitchSpawns,
           SwitchSpawnFails, SwitchCommits, SwitchDiscards, SwitchSyncs, SwitchPublishes,
           SwitchEnlists, SwitchDrains, SwitchTerminates, Sound, LocksHeld, SwitchHolds, Gated
  <2>3. QED
    BY <1>0, <1>4, <2>2, KeptSwitch
<1>5. ASSUME NEW t \in Starts, StartStep(t)
      PROVE  UNCHANGED pool /\ \A r \in Runtimes : active'[r] \subseteq active[r]
  <2>1. Complete(t)
    BY <1>5, GateClosed
  <2>2. QED
    BY <1>0, <2>1 DEF Complete, TypeOK
<1>6. ASSUME Environment
      PROVE  UNCHANGED pool /\ \A r \in Runtimes : active'[r] \subseteq active[r]
  BY <1>0, <1>6 DEF Environment, ChangeSettings, Exit, OutputEnds, TypeOK
<1>7. QED
  BY <1>a, <1>1, <1>2, <1>3, <1>4, <1>5, <1>6 DEF Next

\* What a switch knows of the turns, and of what the map has been made of.
Quieted(s) ==
  /\ pc[s] \in {"idle", "lock", "gate", "look", "quietPool", "syncPool"} => local[s].old = {}
  /\ pc[s] \in {"sync", "publish", "syncPool"} => Quiescent(Runs)
  /\ pc[s] \in {"enlist", "drain"} => Quiescent(local[s].old \cup Pooled)
  /\ pc[s] = "terminate" => Quiescent(local[s].old) /\ Pooled = {}

SwitchQuiet == \A s \in Switches : Quieted(s)

Made(s) == pc[s] \in {"quietPool", "syncPool", "enlist", "drain", "terminate"} =>
             \A r \in Primary : Matches(s, r)

SwitchMade == \A s \in Switches : Made(s)

\* Others do not disturb a switch.
LEMMA QuietedKept ==
  ASSUME Reviews = {}, Sound, NEW s \in Switches, Quieted(s), [Next]_vars, ~SwitchStep(s)
  PROVE  Quieted(s)'
<1>0. s \in Tasks /\ TypeOK
  BY Apart DEF Sound
<1>1. pc'[s] = pc[s]
  BY OwnStep
<1>2. CASE Gating(s)
  <2>1. /\ local'[s] = local[s] /\ Primary' \subseteq Primary /\ Pooled' \subseteq Pooled
        /\ \A r \in Runtimes : active'[r] \subseteq active[r]
    BY <1>2, MapUndisturbed, PoolUndisturbed
  <2>2. Runs' \subseteq Runs /\ Runs \subseteq Runtimes /\ Pooled \subseteq Runtimes
        /\ local[s].old \subseteq Runtimes
    BY <1>0, <2>1, Maps, Fields DEF Runs
  <2>3. QED
    BY <1>1, <2>1, <2>2 DEF Quieted, Quiescent
<1>3. CASE ~Gating(s)
  <2>1. local'[s].old = local[s].old
    <3>1. ASSUME NEW t \in Tasks, LocalMoves(t), t # s PROVE local'[s] = local[s]
      BY <1>0, <3>1 DEF LocalMoves
    <3>2. CASE Environment
      BY <1>0, <3>2, DidOutputEnds DEF Environment, ChangeSettings, Exit, taskVars
    <3>3. CASE UNCHANGED vars
      BY <3>3 DEF vars, taskVars
    <3>4. QED
      BY <3>1, <3>2, <3>3, Apart, TypeConnect, TypeRemove, TypeSwitch, TypeStart DEF Next, Sound
  <2>2. QED
    BY <1>1, <1>3, <2>1 DEF Quieted, Gating, Gated
<1>4. QED
  BY <1>2, <1>3

\* What a switch made stays so under the steps of the others.
LEMMA MadeKept ==
  ASSUME Sound, Unshared, NEW s \in Switches, Made(s), [Next]_vars, ~SwitchStep(s)
  PROVE  Made(s)'
<1>1. pc'[s] = pc[s]
  BY OwnStep
<1>2. CASE Gating(s)
  <2>1. local'[s] = local[s] /\ Primary' \subseteq Primary /\ Kept
    BY <1>2, MapUndisturbed
  <2>2. \A r \in Primary : r \in Runtimes /\ Started(r)
    BY Maps DEF Unshared, MapShared, Sound
  <2>3. QED
    BY <1>1, <2>1, <2>2 DEF Made, Kept, Matches
<1>3. CASE ~Gating(s)
  BY <1>1, <1>3 DEF Made, Gating, Gated
<1>4. QED
  BY <1>2, <1>3

\* What a step of a switch finds quiet, and what it leaves of one making.
LEMMA QuietedSwitch ==
  ASSUME Sound, NEW s \in Switches, Quieted(s), SwitchStep(s)
  PROVE  Quieted(s)'
<1>0. s \in Tasks /\ TypeOK
  BY Apart DEF Sound
<1>a. UNCHANGED mapVars => Primary' = Primary /\ Pooled' = Pooled /\ Runs' = Runs
  BY DEF mapVars, Primary, Pooled, Connected, Runs
<1> USE DEF procVars
<1>1. ASSUME NEW w \in Workspaces, Switch(s, w) PROVE Quieted(s)'
  BY <1>0, <1>1, DidSwitch DEF Switch, Quieted
<1>2. CASE SwitchLocks(s)
  BY <1>0, <1>2, Went DEF SwitchLocks, Quieted, PCs
<1>3. CASE SwitchClosesGate(s)
  BY <1>0, <1>3, DidSwitchClosesGate DEF SwitchClosesGate, Quieted
<1>4. CASE SwitchLooks(s)
  <2>1. \E label \in {"syncOnly", "quietPool", "quiet"} : Goto(s, label)
    BY <1>4 DEF SwitchLooks
  <2>2. pc'[s] \in {"syncOnly", "quietPool", "quiet"}
    BY <1>0, <2>1, Went DEF PCs
  <2>3. QED
    BY <1>4, <2>2 DEF SwitchLooks, Quieted
<1>5. CASE SwitchSyncsForPool(s)
  <2>1. CASE Return(s)
    BY <1>0, <2>1, Returned DEF Quieted
  <2>2. CASE Goto(s, "drain") /\ UNCHANGED <<lockVars, local>>
    <3>1. pc'[s] = "drain" /\ pc[s] = "syncPool" /\ UNCHANGED <<mapVars, active, local>>
      BY <1>0, <1>5, <2>2, Went DEF SwitchSyncsForPool, PCs
    <3>2. Pooled' = Pooled /\ Pooled \subseteq Runs
      BY <1>a, <3>1 DEF Runs
    <3>3. QED
      BY <3>1, <3>2 DEF Quieted, Quiescent
  <2>3. QED
    BY <1>5, <2>1, <2>2 DEF SwitchSyncsForPool
<1>6. CASE SwitchFindsQuiet(s)
  <2>1. /\ pc'[s] \in {"spawn", "syncPool"} /\ UNCHANGED <<mapVars, active, local>>
        /\ Quiescent(Runs) /\ (pc'[s] = "syncPool" => pc[s] = "quietPool")
    BY <1>0, <1>6, Went DEF SwitchFindsQuiet, PCs
  <2>2. QED
    BY <1>a, <2>1 DEF Quieted, Quiescent
<1>7. CASE \/ SwitchSyncsOnly(s) \/ SwitchFindsTurn(s) \/ SwitchSpawnFails(s)
           \/ SwitchDiscards(s) \/ SwitchTerminates(s)
  BY <1>0, <1>7, Returned DEF SwitchSyncsOnly, SwitchFindsTurn, SwitchSpawnFails,
                              SwitchDiscards, SwitchTerminates, Quieted
<1>8. CASE SwitchSpawns(s)
  BY <1>0, <1>8, DidSwitchSpawns DEF Quieted
<1>9. CASE SwitchCommits(s) \/ SwitchSyncs(s)
  <2>1. pc'[s] \in {"sync", "publish"} /\ UNCHANGED <<mapVars, active>>
    BY <1>0, <1>9, Went DEF SwitchCommits, SwitchSyncs, PCs
  <2>2. Quiescent(Runs)
    BY <1>9 DEF SwitchCommits, SwitchSyncs, MayCommit, Quieted
  <2>3. QED
    BY <1>a, <2>1, <2>2 DEF Quieted, Quiescent
<1>10. CASE SwitchPublishes(s)
  <2>1. pc'[s] = "enlist" /\ local'[s].old = Primary /\ UNCHANGED <<pool, active>>
    BY <1>0, <1>10, DidSwitchPublishes DEF SwitchPublishes
  <2>2. Quiescent(Runs) /\ Pooled' = Pooled
    BY <1>10, <2>1 DEF SwitchPublishes, Quieted, Pooled
  <2>3. QED
    BY <2>1, <2>2 DEF Quieted, Quiescent, Runs
<1>11. CASE SwitchEnlists(s)
  <2>1. pc'[s] = "drain" /\ pc[s] = "enlist" /\ UNCHANGED <<mapVars, active, local>>
    BY <1>0, <1>11, Went DEF SwitchEnlists, PCs
  <2>2. QED
    BY <1>a, <2>1 DEF Quieted, Quiescent
<1>12. CASE SwitchDrains(s)
  <2>1. pc'[s] = "terminate" /\ local'[s].old = local[s].old \cup Pooled /\ UNCHANGED active
    BY <1>0, <1>12, DidSwitchDrains DEF SwitchDrains
  <2>2. Quiescent(local[s].old \cup Pooled) /\ Pooled' = {}
    BY <1>12 DEF SwitchDrains, Quieted, Pooled
  <2>3. QED
    BY <2>1, <2>2 DEF Quieted, Quiescent
<1>13. QED
  BY <1>1, <1>2, <1>3, <1>4, <1>5, <1>6, <1>7, <1>8, <1>9, <1>10, <1>11, <1>12 DEF SwitchStep

\* And under its own.
LEMMA MadeSwitch ==
  ASSUME Sound, SwitchSettled, NEW s \in Switches, Made(s), SwitchStep(s)
  PROVE  Made(s)'
<1>0. s \in Tasks /\ TypeOK
  BY Apart DEF Sound
<1>a. UNCHANGED sessions => Primary' = Primary
  BY DEF Primary, Connected
<1>b. ASSUME UNCHANGED <<sessions, proc>>, local'[s].want = local[s].want,
             pc[s] \in {"quietPool", "syncPool", "enlist", "drain", "terminate"}
      PROVE  Made(s)'
  BY <1>a, <1>b DEF Made, Matches
<1> USE DEF procVars, mapVars
<1>1. ASSUME NEW w \in Workspaces, Switch(s, w) PROVE Made(s)'
  BY <1>0, <1>1, DidSwitch DEF Made
<1>2. CASE SwitchLocks(s) \/ SwitchCommits(s) \/ SwitchSyncs(s)
  BY <1>0, <1>2, Went DEF SwitchLocks, SwitchCommits, SwitchSyncs, Made, PCs
<1>3. CASE SwitchClosesGate(s) \/ SwitchSpawns(s)
  BY <1>0, <1>3, DidSwitchClosesGate, DidSwitchSpawns DEF Made
<1>4. CASE SwitchLooks(s)
  <2>1. CASE Goto(s, "quietPool") /\ (\A r \in Primary : Matches(s, r))
    BY <1>a, <1>4, <2>1 DEF SwitchLooks, Made, Matches
  <2>2. CASE Goto(s, "syncOnly") \/ Goto(s, "quiet")
    BY <1>0, <2>2, Went DEF Made, PCs
  <2>3. QED
    BY <1>4, <2>1, <2>2 DEF SwitchLooks
<1>5. CASE SwitchSyncsForPool(s)
  <2>1. CASE Return(s)
    BY <1>0, <2>1, Returned DEF Made
  <2>2. CASE Goto(s, "drain") /\ UNCHANGED <<lockVars, local>>
    BY <1>5, <2>2, <1>b DEF SwitchSyncsForPool
  <2>3. QED
    BY <1>5, <2>1, <2>2 DEF SwitchSyncsForPool
<1>6. CASE SwitchFindsQuiet(s)
  <2>1. CASE pc[s] = "quietPool"
    BY <1>6, <2>1, <1>b DEF SwitchFindsQuiet
  <2>2. CASE pc[s] = "quiet"
    BY <1>0, <1>6, <2>2, Went DEF SwitchFindsQuiet, Made, PCs
  <2>3. QED
    BY <1>6, <2>1, <2>2 DEF SwitchFindsQuiet
<1>7. CASE \/ SwitchSyncsOnly(s) \/ SwitchFindsTurn(s) \/ SwitchSpawnFails(s)
           \/ SwitchDiscards(s) \/ SwitchTerminates(s)
  BY <1>0, <1>7, Returned DEF SwitchSyncsOnly, SwitchFindsTurn, SwitchSpawnFails,
                              SwitchDiscards, SwitchTerminates, Made
<1>8. CASE SwitchPublishes(s)
  <2>1. /\ UNCHANGED proc /\ local'[s].want = local[s].want
        /\ Primary' \subseteq {local[s].rt} /\ Matches(s, local[s].rt)
    BY <1>0, <1>8, DidSwitchPublishes
       DEF SwitchPublishes, SwitchSettled, Settled, Primary, Connected
  <2>2. QED
    BY <2>1 DEF Made, Matches
<1>9. CASE SwitchEnlists(s)
  BY <1>9, <1>b DEF SwitchEnlists
<1>10. CASE SwitchDrains(s)
  BY <1>0, <1>10, <1>b, DidSwitchDrains DEF SwitchDrains
<1>11. QED
  BY <1>1, <1>2, <1>3, <1>4, <1>5, <1>6, <1>7, <1>8, <1>9, <1>10 DEF SwitchStep

\* Only a switch ends processes as a switch does.
LEMMA EndsElsewhere ==
  ASSUME TypeOK, NEW R, NEW how, how # "switched", Ended(R, how), NEW r \in Runtimes
  PROVE  ~EndsAs(r, "switched")
BY DEF Ended, EndsAs, TypeOK

\* Nor does a spawn.
LEMMA SpawnsElsewhere ==
  ASSUME TypeOK, NEW u \in Unused, NEW with, Spawned(u, with), NEW r \in Runtimes
  PROVE  ~EndsAs(r, "switched")
BY DEF Spawned, Unused, EndsAs, TypeOK

\* Only the last step of a switch does, and only to what the switch drained.
LEMMA SwitchEnds ==
  ASSUME Sound, [Next]_vars, NEW r \in Runtimes, EndsAs(r, "switched")
  PROVE  \E s \in Switches : SwitchTerminates(s) /\ r \in local[s].old
<1>0. TypeOK
  BY DEF Sound
<1>a. proc' # proc
  BY DEF EndsAs
<1> USE DEF procVars
<1>1. ~UNCHANGED vars /\ ~Environment
  BY <1>0, <1>a, EndsElsewhere DEF vars, Environment, ChangeSettings, Exit, OutputEnds
<1>2. ASSUME NEW c \in Connects, ConnectStep(c) PROVE FALSE
  <2>1. ConnectSpawns(c)
    BY <1>2, <1>a
       DEF ConnectStep, Connect, ConnectLocks, ConnectFindsOwn, ConnectLooksForShared,
           ConnectReuses, ConnectPasses, ConnectSpawnFails, ConnectRegisters, ConnectInserts
  <2>2. QED
    BY <1>0, <2>1, SpawnsElsewhere DEF ConnectSpawns
<1>3. ASSUME NEW v \in Removes, RemoveStep(v) PROVE FALSE
  BY <1>0, <1>3, <1>a, EndsElsewhere
     DEF RemoveStep, RemoveTakes, RemoveUnregisters, RemoveKills, RemoveForgets
<1>4. ASSUME NEW t \in Starts, StartStep(t) PROVE FALSE
  <2>1. SpawnPooled(t) \/ ShutIdle(t) \/ KeepPrevious(t) \/ Retire(t)
    BY <1>4, <1>a
       DEF StartStep, Start, ResolveShared, TakeIdle, FindPooled, SpawnPooledFails, Replace,
           Enlist, Send, SendFails, Accept, Refuse, Complete
  <2>2. QED
    BY <1>0, <2>1, SpawnsElsewhere, EndsElsewhere
       DEF SpawnPooled, ShutIdle, KeepPrevious, Retire
<1>5. PICK s \in Switches : SwitchStep(s)
  BY <1>1, <1>2, <1>3, <1>4 DEF Next
<1>6. SwitchSpawns(s) \/ SwitchDiscards(s) \/ SwitchTerminates(s)
  BY <1>5, <1>a
     DEF SwitchStep, Switch, SwitchLocks, SwitchClosesGate, SwitchLooks, SwitchSyncsOnly,
         SwitchSyncsForPool, SwitchFindsQuiet, SwitchFindsTurn, SwitchSpawnFails,
         SwitchCommits, SwitchSyncs, SwitchPublishes, SwitchEnlists, SwitchDrains
<1>7. SwitchTerminates(s)
  BY <1>0, <1>6, SpawnsElsewhere, EndsElsewhere DEF SwitchSpawns, SwitchDiscards
<1>8. r \in local[s].old
  BY <1>0, <1>7 DEF SwitchTerminates, Ended, EndsAs, TypeOK
<1>9. QED
  BY <1>7, <1>8

\* The invariant of a switch, with no reviews.
SwitchInv == Sound /\ SwitchSettled /\ Unshared /\ TurnsMarked /\ SwitchQuiet /\ SwitchMade

\* It holds before anybody calls.
LEMMA SwitchInvInit == Init => SwitchInv
<1> SUFFICES ASSUME Init PROVE SwitchInv
  OBVIOUS
<1>1. Sound
  BY SoundInit
<1>2. SwitchSettled /\ SwitchQuiet /\ SwitchMade /\ TurnsMarked
  BY Apart DEF Init, SwitchSettled, Settled, SwitchQuiet, Quieted, SwitchMade, Made, TurnsMarked
<1>3. Unshared
  BY Apart DEF Init, Unshared, MapShared, Shared, OneEach, Primary, Connected
<1>4. QED
  BY <1>1, <1>2, <1>3 DEF SwitchInv

\* And every step keeps it.
LEMMA SwitchInvNext ==
  ASSUME Reviews = {}, SwitchInv, [Next]_vars
  PROVE  SwitchInv'
<1> USE DEF SwitchInv
<1>1. Sound' /\ SwitchSettled' /\ Unshared' /\ TurnsMarked'
  BY SoundNext, SettledNext, UnsharedNext, MarkedNext
<1>2. SwitchQuiet'
  BY QuietedKept, QuietedSwitch DEF SwitchQuiet
<1>3. SwitchMade'
  BY MadeKept, MadeSwitch DEF SwitchMade
<1>4. QED
  BY <1>1, <1>2, <1>3

\* A switch ends no runtime that works on a turn, nor one a turn was given: with
\* the turns alone, which take the gate.
THEOREM TurnsAreSpared ==
  ASSUME Reviews = {}
  PROVE  Spec => SwitchSparesTurns
<1>1. SwitchInv /\ [Next]_vars => SwitchInv'
  BY SwitchInvNext
<1>2. SwitchInv /\ [Next]_vars => EndsSparingly
  <2> SUFFICES ASSUME SwitchInv, [Next]_vars, NEW r \in Runtimes, EndsAs(r, "switched")
               PROVE  /\ active[r] = {} /\ Waiting(r) = {}
                      /\ \A t \in Turns : pc[t] # "done" => local[t].rt # r
    BY DEF EndsSparingly
  <2> USE DEF SwitchInv
  <2>1. PICK s \in Switches : SwitchTerminates(s) /\ r \in local[s].old
    BY SwitchEnds
  <2>2. active[r] = {}
    BY <2>1 DEF SwitchTerminates, SwitchQuiet, Quieted, Quiescent
  <2>3. gateReaders = {}
    BY <2>1, Apart DEF SwitchTerminates, Sound, LocksHeld, SwitchHolds, Gated
  <2>4. \A t \in Turns : pc[t] \in {"idle", "turn", "done"}
    BY <2>3, Apart DEF Sound, LocksHeld, StartHolds
  <2>5. \A t \in Turns : pc[t] # "done" => local[t].rt # r
    BY <2>2, <2>4, TasksAssumption DEF TurnsMarked
  <2>6. Waiting(r) = {}
    BY <2>5 DEF Waiting, Starts
  <2>7. QED
    BY <2>2, <2>5, <2>6
<1>3. QED
  BY <1>1, <1>2, SwitchInvInit, PTL DEF Spec, SwitchSparesTurns

\* A switch that replaced the runtimes leaves none of another making.
THEOREM OneMakingIsLeft ==
  ASSUME Reviews = {}
  PROVE  Spec => SwitchLeavesOneMaking
<1>1. SwitchInv /\ [Next]_vars => SwitchInv'
  BY SwitchInvNext
<1>2. SwitchInv /\ [Next]_vars => LeavesOneMaking
  <2> SUFFICES ASSUME SwitchInv, [Next]_vars, NEW s \in Switches,
                      pc[s] = "terminate", pc'[s] = "done", NEW r \in Runs
               PROVE  Matches(s, r)
    BY DEF LeavesOneMaking
  <2> USE DEF SwitchInv
  <2>1. Pooled = {} /\ \A q \in Primary : Matches(s, q)
    BY DEF SwitchQuiet, Quieted, SwitchMade, Made
  <2>2. QED
    BY <2>1 DEF Runs
<1>3. QED
  BY <1>1, <1>2, SwitchInvInit, PTL DEF Spec, SwitchLeavesOneMaking

-----------------------------------------------------------------------------
(* Nothing that runs is lost: what leaves the map or the pool is in the     *)
(* hands of a call that ends it, and what a call spawned gets there.        *)

\* Who will put a runtime into the map or the pool, or end it.
Owns(t, r) ==
  \/ t \in Connects /\ pc[t] \in {"register", "insert"} /\ r = local[t].rt
  \/ t \in Removes /\ pc[t] \in {"unregister", "kill"} /\ r \in local[t].old
  \/ t \in Switches /\ pc[t] \in {"commit", "sync", "publish"} /\ r = local[t].rt
  \/ t \in Switches /\ pc[t] \in {"enlist", "drain", "terminate"} /\ r \in local[t].old
  \/ t \in Starts /\ pc[t] \in {"shutIdle", "retire"} /\ r \in local[t].old
  \/ t \in Starts /\ pc[t] = "replace" /\ r = local[t].rt

Reachable ==
  \A r \in Runtimes : Alive(r) => r \in Runs \/ r \in unclaimed \/ \E t \in Tasks : Owns(t, r)

\* What a connection knows of its workspace: nobody else connects it meanwhile.
PlaceFree(c) ==
  /\ pc[c] = "own" => sessions[local[c].ws] \in {local[c].rt, None}
  /\ pc[c] \in {"reuse", "register", "insert"} => sessions[local[c].ws] = None

\* What a start knows of its place in the pool: nobody else fills it meanwhile.
PlaceKept(t) ==
  /\ pc[t] \in {"spawnPool", "replace"} => pool[local[t].source] \in local[t].old \cup {None}
  /\ pc[t] = "replace" => local[t].rt # None /\ Started(local[t].rt)

\* The runtime a switch spawned is in nobody else's hands.
SwitchFresh(s) ==
  /\ pc[s] \in {"idle", "lock", "gate", "look", "quietPool", "syncPool"} => local[s].rt = None
  /\ pc[s] \in {"commit", "sync", "publish", "enlist", "drain"} /\ local[s].rt # None =>
       /\ Started(local[s].rt) /\ local[s].rt \notin Pooled
       /\ \A t \in Starts : pc[t] = "replace" => local[t].rt # local[s].rt
  /\ pc[s] \in {"commit", "sync", "publish"} => local[s].rt \notin Primary
  /\ pc[s] \in {"enlist", "drain", "terminate"} => local[s].rt \notin local[s].old

PoolStarted == \A r \in Pooled : Started(r)
PlacesFree  == \A c \in Connects : PlaceFree(c)
PlacesKept  == PoolStarted /\ \A t \in Starts : PlaceKept(t)
AllFresh    == \A s \in Switches : SwitchFresh(s)

\* A connection is moved by itself only.
LEMMA OwnConnectStep ==
  ASSUME Sound, NEW c \in Connects, [Next]_vars, ~ConnectStep(c)
  PROVE  pc'[c] = pc[c] /\ local'[c] = local[c]
<1>0. c \in Tasks /\ TypeOK /\ Chosen
  BY Apart DEF Sound
<1>1. ASSUME NEW t \in Tasks, t # c, PCMoves(t), LocalMoves(t)
      PROVE  pc'[c] = pc[c] /\ local'[c] = local[c]
  BY <1>0, <1>1 DEF PCMoves, LocalMoves
<1>2. CASE Environment \/ UNCHANGED vars
  BY <1>0, <1>2, Apart
     DEF Environment, ChangeSettings, Exit, OutputEnds, Waiting, vars, taskVars
<1>3. QED
  BY <1>0, <1>1, <1>2, Apart, TypeConnect, TypeRemove, TypeSwitch, TypeStart DEF Next

\* While a connection has the spawn lock, the others only take out of the map.
LEMMA PlaceUndisturbed ==
  ASSUME Sound, NEW c \in Connects, pc[c] \in Connecting, [Next]_vars, ~ConnectStep(c)
  PROVE  \A w \in Workspaces : sessions'[w] \in {sessions[w], None}
<1>0. TypeOK /\ Chosen /\ spawnLock = c /\ c # None
  BY Apart DEF Sound, LocksHeld, ConnectHolds
<1> USE DEF mapVars
<1>1. ASSUME NEW q \in Connects, ConnectStep(q) PROVE UNCHANGED sessions
  <2>1. q # c /\ spawnLock # q
    BY <1>0, <1>1
  <2>2. QED
    BY <1>0, <1>1, <2>1
       DEF ConnectStep, Connect, ConnectLocks, ConnectFindsOwn, ConnectLooksForShared,
           ConnectReuses, ConnectPasses, ConnectSpawns, ConnectSpawnFails, ConnectRegisters,
           ConnectInserts, Sound, LocksHeld, ConnectHolds, Connecting
<1>2. ASSUME NEW v \in Removes, RemoveStep(v)
      PROVE  \A w \in Workspaces : sessions'[w] \in {sessions[w], None}
  BY <1>0, <1>2 DEF RemoveStep, RemoveTakes, RemoveUnregisters, RemoveKills, RemoveForgets, TypeOK
<1>3. ASSUME NEW s \in Switches, SwitchStep(s) PROVE UNCHANGED sessions
  <2>1. spawnLock # s
    BY <1>0, Apart
  <2>2. QED
    BY <1>3, <2>1
       DEF SwitchStep, Switch, SwitchLocks, SwitchClosesGate, SwitchLooks, SwitchSyncsOnly,
           SwitchSyncsForPool, SwitchFindsQuiet, SwitchFindsTurn, SwitchSpawns,
           SwitchSpawnFails, SwitchCommits, SwitchDiscards, SwitchSyncs, SwitchPublishes,
           SwitchEnlists, SwitchDrains, SwitchTerminates, Sound, LocksHeld, SwitchHolds, Gated
<1>4. ASSUME NEW t \in Starts, StartStep(t) PROVE UNCHANGED sessions
  BY <1>0, <1>4, KeptStart
<1>5. Environment \/ UNCHANGED vars => UNCHANGED sessions
  BY <1>0, KeptEnvironment DEF vars
<1>6. QED
  BY <1>1, <1>2, <1>3, <1>4, <1>5 DEF Next

\* A connection finds its workspace free, and it stays free.
LEMMA PlaceFreeNext ==
  ASSUME Sound, PlacesFree, [Next]_vars
  PROVE  PlacesFree'
<1> SUFFICES ASSUME NEW c \in Connects PROVE PlaceFree(c)'
  BY DEF PlacesFree
<1>0. TypeOK /\ c \in Tasks /\ PlaceFree(c) /\ local[c].ws \in Workspaces
  BY Apart, Fields DEF Sound, PlacesFree
<1>1. CASE ~ConnectStep(c)
  <2>1. pc'[c] = pc[c] /\ local'[c] = local[c]
    BY <1>1, OwnConnectStep
  <2>2. CASE pc[c] \in Connecting
    BY <1>0, <1>1, <2>1, <2>2, PlaceUndisturbed DEF PlaceFree
  <2>3. CASE pc[c] \notin Connecting
    BY <2>1, <2>3 DEF PlaceFree, Connecting
  <2>4. QED
    BY <2>2, <2>3
<1>2. CASE ConnectStep(c)
  <2> USE DEF mapVars
  <2>1. ASSUME NEW w \in Workspaces, Connect(c, w) PROVE PlaceFree(c)'
    BY <1>0, <2>1, DidConnect DEF PlaceFree
  <2>2. CASE ConnectLocks(c)
    BY <1>0, <2>2, DidConnectLocks DEF ConnectLocks, PlaceFree
  <2>3. CASE ConnectFindsOwn(c) \/ ConnectSpawnFails(c) \/ ConnectInserts(c)
    BY <1>0, <2>3, Returned DEF ConnectFindsOwn, ConnectSpawnFails, ConnectInserts, PlaceFree
  <2>4. CASE ConnectLooksForShared(c)
    <3>1. pc'[c] = "reuse" /\ local'[c].ws = local[c].ws
      BY <1>0, <2>4, DidConnectLooksForShared
    <3>2. sessions'[local[c].ws] = None
      BY <1>0, <2>4 DEF ConnectLooksForShared, PlaceFree, Forgotten
    <3>3. QED
      BY <3>1, <3>2 DEF PlaceFree
  <2>5. CASE ConnectReuses(c)
    BY <1>0, <2>5, DidConnectReuses DEF ConnectReuses, PlaceFree
  <2>6. CASE ConnectPasses(c)
    <3>1. PICK r \in local[c].old :
            /\ pc'[c] = "reuse" /\ local'[c].ws = local[c].ws
            /\ sessions' = IF Alive(r) THEN sessions ELSE Forgotten(r)
      BY <1>0, <2>6, DidConnectPasses
    <3>2. sessions'[local[c].ws] = None
      BY <1>0, <2>6, <3>1 DEF ConnectPasses, PlaceFree, Forgotten
    <3>3. QED
      BY <3>1, <3>2 DEF PlaceFree
  <2>7. CASE ConnectSpawns(c)
    BY <1>0, <2>7, DidConnectSpawns DEF ConnectSpawns, PlaceFree
  <2>8. CASE ConnectRegisters(c)
    <3>1. pc'[c] = "insert" /\ pc[c] = "register" /\ UNCHANGED <<sessions, local>>
      BY <1>0, <2>8, Went DEF ConnectRegisters, PCs
    <3>2. QED
      BY <1>0, <3>1 DEF PlaceFree
  <2>9. QED
    BY <1>2, <2>1, <2>2, <2>3, <2>4, <2>5, <2>6, <2>7, <2>8 DEF ConnectStep
<1>3. QED
  BY <1>1, <1>2

\* What enters the pool was spawned for it; a start that has spawned for the pool
\* did so when nobody else had the process.
LEMMA PoolGrows ==
  ASSUME Sound, [Next]_vars
  PROVE  /\ \A r \in Pooled' : r \in Pooled \/ \E t \in Starts : pc[t] = "replace" /\ r = local[t].rt
         /\ \A t \in Starts : pc'[t] = "replace" =>
              \/ pc[t] = "replace" /\ local'[t] = local[t]
              \/ local'[t].rt \in Unused
<1>0. TypeOK /\ Chosen
  BY DEF Sound
<1>a. (\A k \in Sources : pool'[k] \in {pool[k], None}) => Pooled' \subseteq Pooled
  BY DEF Pooled
<1>b. ASSUME NEW t \in Tasks \ Starts, PCMoves(t), LocalMoves(t)
      PROVE  \A q \in Starts : pc'[q] = pc[q] /\ local'[q] = local[q]
  BY <1>b, Apart DEF PCMoves, LocalMoves
<1> USE DEF mapVars
<1>1. CASE UNCHANGED vars
  BY <1>1, <1>a DEF vars, taskVars
<1>2. ASSUME NEW c \in Connects, ConnectStep(c)
      PROVE  UNCHANGED pool /\ \A q \in Starts : pc'[q] = pc[q] /\ local'[q] = local[q]
  BY <1>0, <1>2, <1>b, Apart, TypeConnect, KeptConnect
<1>3. ASSUME NEW v \in Removes, RemoveStep(v)
      PROVE  UNCHANGED pool /\ \A q \in Starts : pc'[q] = pc[q] /\ local'[q] = local[q]
  BY <1>0, <1>3, <1>b, Apart, TypeRemove, KeptRemove
<1>4. ASSUME NEW s \in Switches, SwitchStep(s)
      PROVE  /\ \A k \in Sources : pool'[k] \in {pool[k], None}
             /\ \A q \in Starts : pc'[q] = pc[q] /\ local'[q] = local[q]
  <2>1. \A k \in Sources : pool'[k] \in {pool[k], None}
    BY <1>4
       DEF SwitchStep, Switch, SwitchLocks, SwitchClosesGate, SwitchLooks, SwitchSyncsOnly,
           SwitchSyncsForPool, SwitchFindsQuiet, SwitchFindsTurn, SwitchSpawns,
           SwitchSpawnFails, SwitchCommits, SwitchDiscards, SwitchSyncs, SwitchPublishes,
           SwitchEnlists, SwitchDrains, SwitchTerminates
  <2>2. QED
    BY <1>0, <1>4, <1>b, <2>1, Apart, TypeSwitch
<1>5. ASSUME NEW t \in Starts, StartStep(t)
      PROVE  /\ \A r \in Pooled' : r \in Pooled \/ (pc[t] = "replace" /\ r = local[t].rt)
             /\ \A q \in Starts : q # t => pc'[q] = pc[q] /\ local'[q] = local[q]
             /\ pc'[t] = "replace" => local'[t].rt \in Unused
  <2>0. t \in Tasks /\ \A q \in Starts : q # t => pc'[q] = pc[q] /\ local'[q] = local[q]
    BY <1>0, <1>5, Apart, TypeStart DEF PCMoves, LocalMoves
  <2>1. \A r \in Pooled' : r \in Pooled \/ (pc[t] = "replace" /\ r = local[t].rt)
    <3>1. CASE Replace(t)
      BY <1>0, <3>1 DEF Replace, Pooled, TypeOK
    <3>2. CASE ~Replace(t)
      <4>1. \A k \in Sources : pool'[k] \in {pool[k], None}
        BY <1>5, <3>2
           DEF StartStep, Start, ResolveShared, TakeIdle, ShutIdle, FindPooled, SpawnPooled,
               SpawnPooledFails, KeepPrevious, Retire, Enlist, Send, SendFails, Accept,
               Refuse, Complete
      <4>2. QED
        BY <1>a, <4>1
    <3>3. QED
      BY <3>1, <3>2
  <2>2. pc'[t] = "replace" => local'[t].rt \in Unused
    <3>1. ASSUME NEW w \in Workspaces, NEW k \in Sources \cup {None}, Start(t, w, k)
          PROVE  pc'[t] # "replace"
      BY <1>0, <3>1, DidStart
    <3>2. CASE ResolveShared(t)
      BY <1>0, <2>0, <3>2, DidResolveShared, Returned
    <3>3. CASE TakeIdle(t) \/ ShutIdle(t) \/ KeepPrevious(t) \/ Retire(t)
      BY <1>0, <3>3, DidTakeIdle, DidShutIdle, DidKeepPrevious, DidRetire
    <3>4. CASE FindPooled(t)
      BY <1>0, <3>4, DidFindPooled DEF FindPooled, Chosen
    <3>5. CASE SpawnPooled(t)
      BY <1>0, <3>5, DidSpawnPooled
    <3>6. CASE SpawnPooledFails(t) \/ SendFails(t) \/ Refuse(t) \/ Complete(t)
      BY <1>0, <2>0, <3>6, Returned, Finished DEF SpawnPooledFails, SendFails, Refuse, Complete
    <3>7. CASE Replace(t) \/ Send(t) \/ Accept(t)
      BY <1>0, <2>0, <3>7, Went DEF Replace, Send, Accept, PCs
    <3>8. CASE Enlist(t)
      BY <1>0, <2>0, <3>8, Went, Returned DEF Enlist, PCs
    <3>9. QED
      BY <1>5, <3>1, <3>2, <3>3, <3>4, <3>5, <3>6, <3>7, <3>8 DEF StartStep
  <2>3. QED
    BY <2>0, <2>1, <2>2
<1>6. ASSUME Environment
      PROVE  /\ UNCHANGED pool
             /\ \A q \in Starts : \/ pc'[q] = pc[q] /\ local'[q] = local[q]
                                  \/ pc'[q] = "done"
  <2>1. UNCHANGED pool
    BY <1>0, <1>6, KeptEnvironment
  <2>2. ASSUME NEW r \in Runtimes, OutputEnds(r), NEW q \in Starts
        PROVE  (pc'[q] = pc[q] /\ local'[q] = local[q]) \/ pc'[q] = "done"
    BY <2>2, Apart DEF OutputEnds
  <2>3. QED
    BY <1>6, <2>1, <2>2 DEF Environment, ChangeSettings, Exit, taskVars
<1>7. QED
  <2>1. CASE \E t \in Starts : StartStep(t)
    BY <1>5, <2>1
  <2>2. CASE (\A k \in Sources : pool'[k] \in {pool[k], None}) /\
             (\A q \in Starts : (pc'[q] = pc[q] /\ local'[q] = local[q]) \/ pc'[q] = "done")
    BY <1>a, <2>2
  <2>3. QED
    BY <1>1, <1>2, <1>3, <1>4, <1>6, <2>1, <2>2 DEF Next, vars, taskVars

\* Every step keeps what it started.
LEMMA KeptNext == ASSUME Sound, [Next]_vars PROVE Kept
BY KeptSame, KeptConnect, KeptRemove, KeptSwitch, KeptStart, KeptEnvironment
   DEF Next, Sound, vars, procVars

\* A start finds its place in the pool free, but for what it is to replace.
LEMMA PlaceKeptNext ==
  ASSUME Sound, PlacesKept, [Next]_vars
  PROVE  PlacesKept'
<1>0. TypeOK /\ Chosen /\ Kept /\ Pooled \subseteq Runtimes
  BY KeptNext, Maps DEF Sound
<1>1. PoolStarted'
  <2>1. ASSUME NEW r \in Pooled' PROVE Started(r)'
    <3>1. CASE r \in Pooled
      BY <1>0, <3>1 DEF PlacesKept, PoolStarted, Kept
    <3>2. CASE \E t \in Starts : pc[t] = "replace" /\ r = local[t].rt
      <4>1. PICK t \in Starts : pc[t] = "replace" /\ r = local[t].rt
        BY <3>2
      <4>2. r \in Runtimes /\ Started(r)
        BY <1>0, <4>1, Apart, Fields DEF PlacesKept, PlaceKept
      <4>3. QED
        BY <1>0, <4>2 DEF Kept
    <3>3. QED
      BY <3>1, <3>2, PoolGrows
  <2>2. QED
    BY <2>1 DEF PoolStarted
<1>2. ASSUME NEW t \in Starts PROVE PlaceKept(t)'
  <2>0. t \in Tasks /\ PlaceKept(t)
    BY Apart DEF PlacesKept
  <2>1. CASE StartStep(t)
    <3>a. pc'[t] \notin {"spawnPool", "replace"} => PlaceKept(t)'
      BY DEF PlaceKept
    <3>1. ASSUME NEW w \in Workspaces, NEW k \in Sources \cup {None}, Start(t, w, k)
          PROVE  PlaceKept(t)'
      BY <1>0, <3>1, <3>a, DidStart
    <3>2. CASE ResolveShared(t)
      BY <1>0, <2>0, <3>2, <3>a, DidResolveShared, Returned
    <3>3. CASE TakeIdle(t) \/ ShutIdle(t) \/ KeepPrevious(t) \/ Retire(t)
      BY <1>0, <3>3, <3>a, DidTakeIdle, DidShutIdle, DidKeepPrevious, DidRetire
    <3>4. CASE FindPooled(t)
      <4>1. \/ pc'[t] = "enlist"
            \/ /\ pc'[t] = "spawnPool" /\ local'[t].old = {pool[local[t].source]} \ {None}
               /\ local'[t].source = local[t].source
        BY <1>0, <3>4, DidFindPooled DEF FindPooled, Chosen
      <4>2. UNCHANGED pool
        BY <3>4 DEF FindPooled, mapVars
      <4>3. QED
        BY <4>1, <4>2, <3>a DEF PlaceKept
    <3>5. CASE SpawnPooled(t)
      <4>1. PICK r \in Unused :
              /\ pc'[t] = "replace" /\ local'[t].rt = r /\ local'[t].old = local[t].old
              /\ local'[t].source = local[t].source
              /\ Spawned(r, [local[t].want EXCEPT !.profile = settings.profile])
        BY <1>0, <3>5, DidSpawnPooled
      <4>2. UNCHANGED pool /\ pc[t] = "spawnPool"
        BY <3>5 DEF SpawnPooled, mapVars
      <4>3. r # None /\ Started(r)'
        BY <1>0, <4>1, TasksAssumption DEF Unused, Spawned, Started, TypeOK
      <4>4. QED
        BY <2>0, <4>1, <4>2, <4>3 DEF PlaceKept, Started
    <3>6. CASE SpawnPooledFails(t) \/ SendFails(t) \/ Refuse(t) \/ Complete(t)
      BY <1>0, <2>0, <3>6, <3>a, Returned, Finished DEF SpawnPooledFails, SendFails, Refuse, Complete
    <3>7. CASE Replace(t) \/ Send(t) \/ Accept(t)
      BY <1>0, <2>0, <3>7, <3>a, Went DEF Replace, Send, Accept, PCs
    <3>8. CASE Enlist(t)
      BY <1>0, <2>0, <3>8, <3>a, Went, Returned DEF Enlist, PCs
    <3>9. QED
      BY <2>1, <3>1, <3>2, <3>3, <3>4, <3>5, <3>6, <3>7, <3>8 DEF StartStep
  <2>2. CASE ~StartStep(t)
    <3>1. (pc'[t] = pc[t] /\ local'[t] = local[t]) \/ pc'[t] = "done"
      <4>1. ASSUME NEW q \in Tasks, q # t, PCMoves(q), LocalMoves(q)
            PROVE  pc'[t] = pc[t] /\ local'[t] = local[t]
        BY <2>0, <4>1 DEF PCMoves, LocalMoves
      <4>2. CASE Environment \/ UNCHANGED vars
        BY <2>0, <4>2 DEF Environment, ChangeSettings, Exit, OutputEnds, vars, taskVars
      <4>3. QED
        BY <1>0, <2>2, <4>1, <4>2, Apart, TypeConnect, TypeRemove, TypeSwitch, TypeStart DEF Next
    <3>2. CASE pc[t] \in {"spawnPool", "replace"} /\ pc'[t] = pc[t] /\ local'[t] = local[t]
      <4>1. local[t].source \in Sources
        BY <1>0, <2>0, <3>2, Fields DEF Chosen
      <4>2. poolLock = t
        BY <3>2 DEF Sound, LocksHeld, StartHolds
      <4>3. pool'[local[t].source] \in {pool[local[t].source], None}
        <5>1. ASSUME NEW q \in Starts, StartStep(q)
              PROVE  pool'[local[t].source] \in {pool[local[t].source], None}
          <6>1. ~Replace(q)
            BY <2>2, <4>2, <5>1 DEF Replace, Sound, LocksHeld, StartHolds
          <6>2. QED
            BY <4>1, <5>1, <6>1
               DEF StartStep, Start, ResolveShared, TakeIdle, ShutIdle, FindPooled,
                   SpawnPooled, SpawnPooledFails, KeepPrevious, Retire, Enlist, Send,
                   SendFails, Accept, Refuse, Complete, mapVars
        <5>2. ASSUME NEW s \in Switches, SwitchStep(s)
              PROVE  pool'[local[t].source] \in {pool[local[t].source], None}
          BY <4>1, <5>2
             DEF SwitchStep, Switch, SwitchLocks, SwitchClosesGate, SwitchLooks,
                 SwitchSyncsOnly, SwitchSyncsForPool, SwitchFindsQuiet, SwitchFindsTurn,
                 SwitchSpawns, SwitchSpawnFails, SwitchCommits, SwitchDiscards, SwitchSyncs,
                 SwitchPublishes, SwitchEnlists, SwitchDrains, SwitchTerminates, mapVars
        <5>3. QED
          BY <1>0, <5>1, <5>2, KeptConnect, KeptRemove, KeptEnvironment DEF Next, vars, mapVars
      <4>4. pc[t] = "replace" => local[t].rt \in Runtimes /\ Started(local[t].rt)'
        BY <1>0, <2>0, <3>2, Fields DEF PlaceKept, Kept, Started
      <4>5. QED
        BY <2>0, <3>2, <4>3, <4>4 DEF PlaceKept, Started
    <3>3. CASE pc'[t] \notin {"spawnPool", "replace"}
      BY <3>3 DEF PlaceKept
    <3>4. QED
      BY <3>1, <3>2, <3>3
  <2>3. QED
    BY <2>1, <2>2
<1>3. QED
  BY <1>1, <1>2 DEF PlacesKept

\* Others leave the runtime of a switch alone.
LEMMA FreshKept ==
  ASSUME Sound, SwitchSettled, PlacesKept, NEW s \in Switches, SwitchFresh(s), [Next]_vars,
         ~SwitchStep(s)
  PROVE  SwitchFresh(s)'
<1>0. TypeOK /\ s \in Tasks /\ Kept /\ local[s].rt \in Runtimes \cup {None} /\ Primary \subseteq Runtimes
  BY Apart, KeptNext, Fields, Maps DEF Sound
<1>1. pc'[s] = pc[s] /\ local'[s] = local[s]
  <2>1. ASSUME NEW t \in Tasks, t # s, PCMoves(t), LocalMoves(t)
        PROVE  pc'[s] = pc[s] /\ local'[s] = local[s]
    BY <1>0, <2>1 DEF PCMoves, LocalMoves
  <2>2. CASE Environment \/ UNCHANGED vars
    BY <1>0, <2>2, Apart DEF Environment, ChangeSettings, Exit, OutputEnds, Waiting, vars, taskVars
  <2>3. QED
    BY <2>1, <2>2, Apart, TypeConnect, TypeRemove, TypeSwitch, TypeStart DEF Next, Sound
<1>2. CASE Gating(s)
  <2>1. Primary' \subseteq Primary
    BY <1>2, MapUndisturbed
  <2>2. ASSUME local[s].rt # None, pc[s] \in {"commit", "sync", "publish", "enlist", "drain"}
        PROVE  /\ Started(local[s].rt)' /\ local[s].rt \notin Pooled'
               /\ \A t \in Starts : pc'[t] = "replace" => local'[t].rt # local[s].rt
    <3>1. /\ local[s].rt \in Runtimes /\ Started(local[s].rt) /\ local[s].rt \notin Pooled
          /\ \A t \in Starts : pc[t] = "replace" => local[t].rt # local[s].rt
      BY <1>0, <2>2 DEF SwitchFresh
    <3>2. Started(local[s].rt)'
      BY <1>0, <1>1, <3>1 DEF Kept, Started
    <3>3. local[s].rt \notin Unused
      BY <3>1 DEF Unused, Started
    <3>4. QED
      BY <3>1, <3>2, <3>3, PoolGrows
  <2>3. QED
    BY <1>0, <1>1, <2>1, <2>2 DEF SwitchFresh
<1>3. CASE ~Gating(s)
  BY <1>1, <1>3 DEF SwitchFresh, Gating, Gated
<1>4. QED
  BY <1>2, <1>3

\* A switch spawns what nobody has, publishes it, and keeps it out of what it ends.
LEMMA FreshSwitch ==
  ASSUME Sound, SwitchSettled, Unshared, PlacesKept, NEW s \in Switches, SwitchFresh(s),
         SwitchStep(s)
  PROVE  SwitchFresh(s)'
<1>0. /\ TypeOK /\ s \in Tasks /\ None \notin Runtimes
      /\ local[s].rt \in Runtimes \cup {None} /\ local[s].old \subseteq Runtimes
      /\ Primary \subseteq Runtimes /\ Pooled \subseteq Runtimes /\ Kept
  BY Apart, TasksAssumption, Fields, Maps, KeptSwitch DEF Sound
<1>a. UNCHANGED mapVars => Primary' = Primary /\ Pooled' = Pooled
  BY DEF mapVars, Primary, Pooled, Connected
<1>b. \A t \in Starts : pc'[t] = pc[t] /\ local'[t] = local[t]
  BY Apart, TypeSwitch DEF Sound, PCMoves, LocalMoves
<1>c. ASSUME UNCHANGED <<mapVars, proc, local>>,
             pc[s] \in {"commit", "sync", "publish", "enlist", "drain"},
             pc'[s] \in {"commit", "sync", "publish", "enlist", "drain"},
             pc'[s] \in {"commit", "sync", "publish"} => pc[s] \in {"commit", "sync", "publish"},
             pc'[s] \in {"enlist", "drain"} => pc[s] \in {"enlist", "drain"}
      PROVE  SwitchFresh(s)'
  BY <1>a, <1>b, <1>c DEF SwitchFresh, Started
<1> USE DEF procVars
<1>1. ASSUME NEW w \in Workspaces, Switch(s, w) PROVE SwitchFresh(s)'
  BY <1>0, <1>1, DidSwitch DEF Switch, SwitchFresh
<1>2. CASE SwitchLocks(s)
  BY <1>0, <1>2, Went DEF SwitchLocks, SwitchFresh, PCs
<1>3. CASE SwitchClosesGate(s)
  BY <1>0, <1>3, DidSwitchClosesGate DEF SwitchClosesGate, SwitchFresh
<1>4. CASE SwitchLooks(s)
  <2>1. \E label \in {"syncOnly", "quietPool", "quiet"} : Goto(s, label)
    BY <1>4 DEF SwitchLooks
  <2>2. pc'[s] \in {"syncOnly", "quietPool", "quiet"} /\ pc[s] = "look" /\ UNCHANGED local
    BY <1>0, <1>4, <2>1, Went DEF SwitchLooks, PCs
  <2>3. QED
    BY <2>2 DEF SwitchFresh
<1>5. CASE SwitchSyncsForPool(s)
  <2>1. CASE Return(s)
    BY <1>0, <2>1, Returned DEF SwitchFresh
  <2>2. CASE Goto(s, "drain") /\ UNCHANGED <<lockVars, local>>
    <3>1. pc'[s] = "drain" /\ pc[s] = "syncPool" /\ UNCHANGED local
      BY <1>0, <1>5, <2>2, Went DEF SwitchSyncsForPool, PCs
    <3>2. QED
      BY <1>0, <3>1 DEF SwitchFresh
  <2>3. QED
    BY <1>5, <2>1, <2>2 DEF SwitchSyncsForPool
<1>6. CASE SwitchFindsQuiet(s)
  <2>1. /\ pc'[s] \in {"spawn", "syncPool"} /\ UNCHANGED local
        /\ (pc'[s] = "syncPool" => pc[s] = "quietPool")
    BY <1>0, <1>6, Went DEF SwitchFindsQuiet, PCs
  <2>2. QED
    BY <2>1 DEF SwitchFresh
<1>7. CASE \/ SwitchSyncsOnly(s) \/ SwitchFindsTurn(s) \/ SwitchSpawnFails(s)
           \/ SwitchDiscards(s) \/ SwitchTerminates(s)
  BY <1>0, <1>7, Returned DEF SwitchSyncsOnly, SwitchFindsTurn, SwitchSpawnFails,
                              SwitchDiscards, SwitchTerminates, SwitchFresh
<1>8. CASE SwitchSpawns(s)
  <2>1. PICK r \in Unused : /\ Spawned(r, local[s].want) /\ pc'[s] = "commit"
                            /\ local'[s].rt = r
    BY <1>0, <1>8, DidSwitchSpawns
  <2>2. UNCHANGED mapVars /\ proc'[r].state = "running"
    BY <1>0, <1>8, <2>1 DEF SwitchSpawns, Spawned, Unused, TypeOK
  <2>3. r \notin Primary /\ r \notin Pooled
    BY <2>1 DEF Unused, Unshared, MapShared, PlacesKept, PoolStarted, Started
  <2>4. \A t \in Starts : pc[t] = "replace" => local[t].rt # r
    BY <2>1 DEF PlacesKept, PlaceKept, Started, Unused
  <2>5. QED
    BY <1>a, <1>b, <2>1, <2>2, <2>3, <2>4 DEF SwitchFresh, Started
<1>9. CASE SwitchCommits(s) \/ SwitchSyncs(s)
  BY <1>0, <1>9, <1>c, Went DEF SwitchCommits, SwitchSyncs, PCs
<1>10. CASE SwitchPublishes(s)
  <2>1. /\ pc'[s] = "enlist" /\ pc[s] = "publish" /\ local'[s].rt = local[s].rt
        /\ local'[s].old = Primary /\ UNCHANGED <<pool, proc>>
    BY <1>0, <1>10, DidSwitchPublishes DEF SwitchPublishes
  <2>2. Pooled' = Pooled
    BY <2>1 DEF Pooled
  <2>3. QED
    BY <1>b, <2>1, <2>2 DEF SwitchFresh, Started
<1>11. CASE SwitchEnlists(s)
  BY <1>0, <1>11, <1>c, Went DEF SwitchEnlists, PCs
<1>12. CASE SwitchDrains(s)
  <2>1. /\ pc'[s] = "terminate" /\ pc[s] = "drain" /\ local'[s].rt = local[s].rt
        /\ local'[s].old = local[s].old \cup Pooled
    BY <1>0, <1>12, DidSwitchDrains DEF SwitchDrains
  <2>2. local[s].rt \notin Pooled
    BY <1>0, <2>1 DEF SwitchFresh
  <2>3. QED
    BY <2>1, <2>2 DEF SwitchFresh
<1>13. QED
  BY <1>1, <1>2, <1>3, <1>4, <1>5, <1>6, <1>7, <1>8, <1>9, <1>10, <1>11, <1>12 DEF SwitchStep

\* A step of t loses no running process: what it takes out it has in hand, what
\* it lets go of has ended or can be reached.
LosesNone(t) ==
  /\ unclaimed \subseteq unclaimed'
  /\ \A r \in Runtimes : Alive(r)' =>
       /\ ~Alive(r) => Owns(t, r)'
       /\ Owns(t, r) => Owns(t, r)' \/ r \in Runs' \/ r \in unclaimed'
       /\ r \in Runs => r \in Runs' \/ Owns(t, r)'

\* Such a step leaves every running process within reach.
LEMMA ReachedStep ==
  ASSUME Reachable, NEW t \in Tasks, PCMoves(t), LocalMoves(t), LosesNone(t)
  PROVE  Reachable'
<1> SUFFICES ASSUME NEW r \in Runtimes, Alive(r)'
             PROVE  r \in Runs' \/ r \in unclaimed' \/ \E q \in Tasks : Owns(q, r)'
  BY DEF Reachable
<1>1. \A q \in Tasks : q # t /\ Owns(q, r) => Owns(q, r)'
  BY DEF Owns, PCMoves, LocalMoves
<1>2. CASE ~Alive(r)
  BY <1>2 DEF LosesNone
<1>3. CASE Alive(r)
  BY <1>1, <1>3 DEF Reachable, LosesNone
<1>4. QED
  BY <1>2, <1>3

\* Steps that take nothing out, and end nothing.
LEMMA LosesNothing ==
  ASSUME NEW t \in Tasks, UNCHANGED <<mapVars, proc, unclaimed>>,
         \A r \in Runtimes : Owns(t, r) => Owns(t, r)' \/ r \in Runs
  PROVE  LosesNone(t)
<1>1. Runs' = Runs
  BY DEF mapVars, Runs, Primary, Pooled, Connected
<1>2. QED
  BY <1>1 DEF LosesNone, Alive

\* Steps that end what their call had in hand.
LEMMA LosesEnded ==
  ASSUME TypeOK, NEW t \in Tasks, UNCHANGED <<mapVars, unclaimed>>, NEW R, NEW how \in Endings,
         Ended(R, how), \A r \in Runtimes : Owns(t, r) => r \in R
  PROVE  LosesNone(t)
<1>1. Runs' = Runs
  BY DEF mapVars, Runs, Primary, Pooled, Connected
<1>2. \A r \in Runtimes : Alive(r)' => Alive(r) /\ r \notin R
  BY DEF Ended, Alive, TypeOK, Endings
<1>3. QED
  BY <1>1, <1>2 DEF LosesNone

\* Steps that start a process and have it in hand.
LEMMA LosesSpawned ==
  ASSUME TypeOK, NEW t \in Tasks, UNCHANGED <<mapVars, unclaimed>>, NEW u \in Unused, NEW with,
         Spawned(u, with), \A r \in Runtimes : ~Owns(t, r), Owns(t, u)'
  PROVE  LosesNone(t)
<1>1. Runs' = Runs
  BY DEF mapVars, Runs, Primary, Pooled, Connected
<1>2. \A r \in Runtimes : r # u => proc'[r] = proc[r]
  BY DEF Spawned, TypeOK
<1>3. QED
  BY <1>1, <1>2 DEF LosesNone, Alive

\* A connection puts what it spawned into the map, and takes out what has ended.
LEMMA ReachedConnect ==
  ASSUME Sound, PlacesFree, NEW c \in Connects, ConnectStep(c)
  PROVE  LosesNone(c)
<1>0. /\ TypeOK /\ c \in Tasks /\ c \notin Removes \cup Switches \cup Starts
      /\ local[c].ws \in Workspaces /\ None \notin Runtimes
  BY Apart, Fields, TasksAssumption DEF Sound
<1>a. \A r : Owns(c, r) => pc[c] \in {"register", "insert"} /\ r = local[c].rt
  BY <1>0 DEF Owns
<1>b. ASSUME NEW r, sessions' = Forgotten(r), ~Alive(r), UNCHANGED <<pool, proc, unclaimed>>,
             \A q : ~Owns(c, q)
      PROVE  LosesNone(c)
  <2>1. \A q \in Runs : q # r => q \in Runs'
    BY <1>0, <1>b DEF Runs, Primary, Pooled, Connected, Forgotten, TypeOK
  <2>2. QED
    BY <1>b, <2>1 DEF LosesNone, Alive
<1> USE DEF dataVars, mapVars, procVars
<1>1. ASSUME NEW w \in Workspaces, Connect(c, w) PROVE LosesNone(c)
  BY <1>0, <1>1, <1>a, LosesNothing DEF Connect
<1>2. CASE ConnectLocks(c) \/ ConnectFindsOwn(c) \/ ConnectSpawnFails(c) \/ ConnectReuses(c)
  BY <1>0, <1>2, <1>a, LosesNothing
     DEF ConnectLocks, ConnectFindsOwn, ConnectSpawnFails, ConnectReuses
<1>3. CASE ConnectLooksForShared(c)
  <2>1. CASE UNCHANGED sessions
    BY <1>0, <1>3, <1>a, <2>1, LosesNothing DEF ConnectLooksForShared
  <2>2. CASE sessions' = Forgotten(local[c].rt)
    BY <1>3, <1>a, <1>b, <2>2 DEF ConnectLooksForShared
  <2>3. QED
    BY <1>3, <2>1, <2>2 DEF ConnectLooksForShared
<1>4. CASE ConnectPasses(c)
  <2>1. PICK r \in local[c].old : sessions' = IF Alive(r) THEN sessions ELSE Forgotten(r)
    BY <1>0, <1>4, DidConnectPasses
  <2>2. CASE Alive(r)
    BY <1>0, <1>4, <1>a, <2>1, <2>2, LosesNothing DEF ConnectPasses
  <2>3. CASE ~Alive(r)
    BY <1>4, <1>a, <1>b, <2>1, <2>3 DEF ConnectPasses
  <2>4. QED
    BY <2>2, <2>3
<1>5. CASE ConnectSpawns(c)
  <2>1. PICK r \in Unused :
          /\ pc'[c] = "register" /\ local'[c].rt = r
          /\ Spawned(r, [local[c].want EXCEPT !.profile = settings.profile])
    BY <1>0, <1>5, DidConnectSpawns
  <2>2. Owns(c, r)'
    BY <2>1 DEF Owns
  <2>3. UNCHANGED <<sessions, pool, unclaimed>> /\ pc[c] = "reuse"
    BY <1>5 DEF ConnectSpawns
  <2>4. QED
    BY <1>0, <1>a, <2>1, <2>2, <2>3, LosesSpawned
<1>6. CASE ConnectRegisters(c)
  <2>1. pc[c] = "register" /\ pc'[c] = "insert" /\ UNCHANGED local
    BY <1>0, <1>6, Went DEF ConnectRegisters, PCs
  <2>2. \A r : Owns(c, r) => Owns(c, r)'
    BY <1>a, <2>1 DEF Owns
  <2>3. QED
    BY <1>0, <1>6, <2>2, LosesNothing DEF ConnectRegisters
<1>7. CASE ConnectInserts(c)
  <2>1. sessions[local[c].ws] = None
    BY <1>7 DEF ConnectInserts, PlacesFree, PlaceFree
  <2>2. /\ \A r \in Runs : r \in Runs'
        /\ local[c].rt # None => local[c].rt \in Runs'
    BY <1>0, <1>7, <2>1 DEF ConnectInserts, Runs, Primary, Pooled, Connected, TypeOK
  <2>3. UNCHANGED <<proc, unclaimed>>
    BY <1>7 DEF ConnectInserts
  <2>4. QED
    BY <1>0, <1>a, <2>2, <2>3 DEF LosesNone, Alive
<1>8. QED
  BY <1>1, <1>2, <1>3, <1>4, <1>5, <1>6, <1>7 DEF ConnectStep

\* A removal ends what it was the last to have.
LEMMA ReachedRemove ==
  ASSUME Sound, NEW v \in Removes, RemoveStep(v)
  PROVE  LosesNone(v)
<1>0. TypeOK /\ v \in Tasks /\ v \notin Connects \cup Switches \cup Starts /\ None \notin Runtimes
  BY Apart, TasksAssumption DEF Sound
<1>a. \A r : Owns(v, r) => pc[v] \in {"unregister", "kill"} /\ r \in local[v].old
  BY <1>0 DEF Owns
<1> USE DEF dataVars, mapVars, procVars
<1>1. ASSUME NEW w \in Workspaces, RemoveTakes(v, w) PROVE LosesNone(v)
  <2>1. /\ pc[v] = "idle" /\ sessions' = [sessions EXCEPT ![w] = None]
        /\ UNCHANGED <<pool, proc, unclaimed>>
    BY <1>1 DEF RemoveTakes
  <2>2. /\ pc'[v] = IF sessions[w] = None THEN "forget" ELSE "unregister"
        /\ local'[v].old = IF \E x \in Workspaces \ {w} : sessions[x] = sessions[w]
                             THEN {} ELSE {sessions[w]} \ {None}
    BY <1>0, <1>1, DidRemoveTakes
  <2>3. ASSUME NEW r \in Runs PROVE r \in Runs' \/ Owns(v, r)'
    <3>1. CASE r \in Pooled
      BY <2>1, <3>1 DEF Runs, Pooled
    <3>2. CASE \E x \in Workspaces \ {w} : sessions[x] = r /\ r # None
      BY <1>0, <2>1, <3>2 DEF Runs, Primary, Connected, TypeOK
    <3>3. CASE r # None /\ sessions[w] = r /\ ~\E x \in Workspaces \ {w} : sessions[x] = r
      BY <2>2, <3>3 DEF Owns
    <3>4. QED
      BY <3>1, <3>2, <3>3 DEF Runs, Primary, Connected
  <2>4. QED
    BY <1>a, <2>1, <2>3 DEF LosesNone, Alive
<1>2. CASE RemoveUnregisters(v)
  <2>1. UNCHANGED local /\ (local[v].old # {} => pc'[v] = "kill")
    BY <1>0, <1>2, Went DEF RemoveUnregisters, PCs
  <2>2. \A r : Owns(v, r) => Owns(v, r)'
    BY <1>a, <2>1 DEF Owns
  <2>3. QED
    BY <1>0, <1>2, <2>2, LosesNothing DEF RemoveUnregisters
<1>3. CASE RemoveKills(v)
  BY <1>0, <1>3, <1>a, LosesEnded DEF RemoveKills, Endings
<1>4. CASE RemoveForgets(v)
  BY <1>0, <1>4, <1>a, LosesNothing DEF RemoveForgets
<1>5. QED
  BY <1>1, <1>2, <1>3, <1>4 DEF RemoveStep

\* A switch ends what it replaced, and its own runtime if it does not publish it.
LEMMA ReachedSwitch ==
  ASSUME Sound, AllFresh, NEW s \in Switches, SwitchStep(s)
  PROVE  LosesNone(s)
<1>0. TypeOK /\ s \in Tasks /\ s \notin Connects \cup Removes \cup Starts /\ None \notin Runtimes
  BY Apart, TasksAssumption DEF Sound
<1>a. \A r : Owns(s, r) =>
        \/ pc[s] \in {"commit", "sync", "publish"} /\ r = local[s].rt
        \/ pc[s] \in {"enlist", "drain", "terminate"} /\ r \in local[s].old
  BY <1>0 DEF Owns
<1>b. ASSUME UNCHANGED <<mapVars, proc, unclaimed>>,
             pc[s] \notin {"commit", "sync", "publish", "enlist", "drain", "terminate"}
      PROVE  LosesNone(s)
  BY <1>0, <1>a, <1>b, LosesNothing
<1> USE DEF dataVars, mapVars, procVars
<1>1. ASSUME NEW w \in Workspaces, Switch(s, w) PROVE LosesNone(s)
  BY <1>1, <1>b DEF Switch
<1>2. CASE \/ SwitchLocks(s) \/ SwitchClosesGate(s) \/ SwitchLooks(s) \/ SwitchSyncsOnly(s)
           \/ SwitchSyncsForPool(s) \/ SwitchFindsQuiet(s) \/ SwitchFindsTurn(s)
           \/ SwitchSpawnFails(s)
  BY <1>2, <1>b DEF SwitchLocks, SwitchClosesGate, SwitchLooks, SwitchSyncsOnly,
                    SwitchSyncsForPool, SwitchFindsQuiet, SwitchFindsTurn, SwitchSpawnFails
<1>3. CASE SwitchSpawns(s)
  <2>1. PICK r \in Unused : /\ Spawned(r, local[s].want) /\ pc'[s] = "commit"
                            /\ local'[s].rt = r
    BY <1>0, <1>3, DidSwitchSpawns
  <2>2. Owns(s, r)'
    BY <2>1 DEF Owns
  <2>3. UNCHANGED <<sessions, pool, unclaimed>> /\ pc[s] = "spawn"
    BY <1>3 DEF SwitchSpawns
  <2>4. QED
    BY <1>0, <1>a, <2>1, <2>2, <2>3, LosesSpawned
<1>4. CASE SwitchCommits(s) \/ SwitchSyncs(s)
  <2>1. /\ UNCHANGED <<sessions, pool, proc, unclaimed, local>>
        /\ pc[s] \in {"commit", "sync"} /\ pc'[s] \in {"sync", "publish"}
    BY <1>0, <1>4, Went DEF SwitchCommits, SwitchSyncs, PCs
  <2>2. \A r : Owns(s, r) => Owns(s, r)'
    BY <1>a, <2>1 DEF Owns
  <2>3. QED
    BY <1>0, <2>1, <2>2, LosesNothing
<1>5. CASE SwitchDiscards(s)
  BY <1>0, <1>5, <1>a, LosesEnded DEF SwitchDiscards, Endings
<1>6. CASE SwitchPublishes(s)
  <2>1. /\ pc[s] = "publish" /\ UNCHANGED <<pool, proc>>
        /\ sessions' = [w \in Workspaces |-> IF w \in Connected THEN local[s].rt ELSE None]
        /\ unclaimed' = IF Connected = {} THEN unclaimed \cup {local[s].rt} ELSE unclaimed
    BY <1>6 DEF SwitchPublishes
  <2>2. pc'[s] = "enlist" /\ local'[s].old = Primary
    BY <1>0, <1>6, DidSwitchPublishes
  <2>3. \A r \in Primary : Owns(s, r)'
    BY <2>2 DEF Owns
  <2>4. \A r \in Pooled : r \in Runs'
    BY <2>1 DEF Pooled, Runs
  <2>5. local[s].rt \in Runs' \/ local[s].rt \in unclaimed'
    <3>1. local[s].rt # None
      BY <2>1 DEF Sound, Chosen
    <3>2. CASE Connected = {}
      BY <2>1, <3>2
    <3>3. CASE Connected # {}
      <4>1. PICK w \in Connected : TRUE
        BY <3>3
      <4>2. w \in Workspaces /\ sessions'[w] = local[s].rt
        BY <2>1 DEF Connected
      <4>3. QED
        BY <3>1, <4>2 DEF Runs, Primary, Connected
    <3>4. QED
      BY <3>2, <3>3
  <2>6. QED
    BY <1>a, <2>1, <2>3, <2>4, <2>5 DEF LosesNone, Runs, Alive
<1>7. CASE SwitchEnlists(s)
  <2>1. /\ UNCHANGED <<sessions, pool, proc, unclaimed, local>>
        /\ pc[s] = "enlist" /\ pc'[s] = "drain"
    BY <1>0, <1>7, Went DEF SwitchEnlists, PCs
  <2>2. \A r : Owns(s, r) => Owns(s, r)'
    BY <1>a, <2>1 DEF Owns
  <2>3. QED
    BY <1>0, <2>1, <2>2, LosesNothing
<1>8. CASE SwitchDrains(s)
  <2>1. /\ pc[s] = "drain" /\ pc'[s] = "terminate"
        /\ local'[s].old = local[s].old \cup Pooled /\ UNCHANGED <<sessions, proc, unclaimed>>
    BY <1>0, <1>8, DidSwitchDrains DEF SwitchDrains
  <2>2. \A r : Owns(s, r) \/ r \in Pooled => Owns(s, r)'
    BY <1>a, <2>1 DEF Owns
  <2>3. \A r \in Primary : r \in Runs'
    BY <2>1 DEF Runs, Primary, Connected
  <2>4. QED
    BY <2>1, <2>2, <2>3 DEF LosesNone, Runs, Alive
<1>9. CASE SwitchTerminates(s)
  <2>1. local[s].rt \notin local[s].old
    BY <1>9 DEF SwitchTerminates, AllFresh, SwitchFresh
  <2>2. \A r : Owns(s, r) => r \in local[s].old \ {local[s].rt}
    BY <1>9, <1>a, <2>1 DEF SwitchTerminates
  <2>3. QED
    BY <1>0, <1>9, <2>2, LosesEnded DEF SwitchTerminates, Endings
<1>10. QED
  BY <1>1, <1>2, <1>3, <1>4, <1>5, <1>6, <1>7, <1>8, <1>9 DEF SwitchStep

\* A start ends what it took out of the pool, and puts what it spawned there.
LEMMA ReachedStart ==
  ASSUME Sound, PlacesKept, NEW t \in Starts, StartStep(t)
  PROVE  LosesNone(t)
<1>0. /\ TypeOK /\ Chosen /\ t \in Tasks /\ t \notin Connects \cup Removes \cup Switches
      /\ None \notin Runtimes /\ local[t].source \in Sources \cup {None}
  BY Apart, TasksAssumption, Fields DEF Sound
<1>a. \A r : Owns(t, r) =>
        \/ pc[t] \in {"shutIdle", "retire"} /\ r \in local[t].old
        \/ pc[t] = "replace" /\ r = local[t].rt
  BY <1>0 DEF Owns
<1>b. ASSUME UNCHANGED <<mapVars, proc, unclaimed>>, pc[t] \notin {"shutIdle", "retire", "replace"}
      PROVE  LosesNone(t)
  BY <1>0, <1>a, <1>b, LosesNothing
<1> USE DEF dataVars, mapVars, procVars
<1>1. ASSUME NEW w \in Workspaces, NEW k \in Sources \cup {None}, Start(t, w, k)
      PROVE  LosesNone(t)
  BY <1>1, <1>b DEF Start
<1>2. CASE \/ ResolveShared(t) \/ FindPooled(t) \/ SpawnPooledFails(t) \/ Enlist(t) \/ Send(t)
           \/ SendFails(t) \/ Accept(t) \/ Refuse(t) \/ Complete(t)
  BY <1>2, <1>b DEF ResolveShared, FindPooled, SpawnPooledFails, Enlist, Send, SendFails,
                    Accept, Refuse, Complete
<1>3. CASE TakeIdle(t)
  <2>1. PICK idle \in SUBSET {k \in Sources : MayBeIdle(k)} :
          /\ pc'[t] = "shutIdle" /\ local'[t].old = {pool[k] : k \in idle}
          /\ pool' = [k \in Sources |-> IF k \in idle THEN None ELSE pool[k]]
    BY <1>0, <1>3, DidTakeIdle
  <2>2. pc[t] = "takeIdle" /\ UNCHANGED <<sessions, proc, unclaimed>>
    BY <1>3 DEF TakeIdle
  <2>3. ASSUME NEW r \in Runs PROVE r \in Runs' \/ Owns(t, r)'
    <3>1. CASE r \in Primary
      BY <2>2, <3>1 DEF Runs, Primary, Connected
    <3>2. CASE r \in Pooled
      <4>1. PICK k \in Sources : pool[k] = r /\ r # None
        BY <3>2 DEF Pooled
      <4>2. CASE k \in idle
        BY <2>1, <4>1, <4>2 DEF Owns
      <4>3. CASE k \notin idle
        <5>1. pool'[k] = r
          BY <2>1, <4>1, <4>3
        <5>2. QED
          BY <4>1, <5>1 DEF Runs, Pooled
      <4>4. QED
        BY <4>2, <4>3
    <3>3. QED
      BY <3>1, <3>2 DEF Runs
  <2>4. QED
    BY <1>a, <2>2, <2>3 DEF LosesNone, Alive
<1>4. CASE ShutIdle(t)
  BY <1>0, <1>4, <1>a, LosesEnded DEF ShutIdle, Endings
<1>5. CASE SpawnPooled(t)
  <2>1. PICK r \in Unused :
          /\ pc'[t] = "replace" /\ local'[t].rt = r
          /\ Spawned(r, [local[t].want EXCEPT !.profile = settings.profile])
    BY <1>0, <1>5, DidSpawnPooled
  <2>2. Owns(t, r)'
    BY <2>1 DEF Owns
  <2>3. UNCHANGED <<sessions, pool, unclaimed>> /\ pc[t] = "spawnPool"
    BY <1>5 DEF SpawnPooled
  <2>4. QED
    BY <1>0, <1>a, <2>1, <2>2, <2>3, LosesSpawned
<1>6. CASE KeepPrevious(t)
  BY <1>0, <1>6, <1>a, LosesEnded DEF KeepPrevious, Endings
<1>7. CASE Replace(t)
  <2>1. /\ pc[t] = "replace" /\ pc'[t] = "retire" /\ UNCHANGED <<sessions, proc, unclaimed, local>>
        /\ pool' = [pool EXCEPT ![local[t].source] = local[t].rt]
    BY <1>0, <1>7, Went DEF Replace, PCs
  <2>2. /\ local[t].source \in Sources /\ local[t].rt # None
        /\ pool[local[t].source] \in local[t].old \cup {None}
    BY <1>0, <2>1 DEF Chosen, PlacesKept, PlaceKept
  <2>3. \A r : Owns(t, r) => r \in Runs'
    <3>1. pool'[local[t].source] = local[t].rt
      BY <1>0, <2>1, <2>2 DEF TypeOK
    <3>2. local[t].rt \in Pooled'
      BY <2>2, <3>1 DEF Pooled
    <3>3. QED
      BY <1>a, <2>1, <3>2 DEF Runs
  <2>4. ASSUME NEW r \in Runs PROVE r \in Runs' \/ Owns(t, r)'
    <3>1. CASE r \in Primary
      BY <2>1, <3>1 DEF Runs, Primary, Connected
    <3>2. CASE r \in Pooled
      <4>1. PICK k \in Sources : pool[k] = r /\ r # None
        BY <3>2 DEF Pooled
      <4>2. CASE k = local[t].source
        BY <2>1, <2>2, <4>1, <4>2 DEF Owns
      <4>3. CASE k # local[t].source
        <5>1. pool'[k] = r
          BY <1>0, <2>1, <4>1, <4>3 DEF TypeOK
        <5>2. QED
          BY <4>1, <5>1 DEF Runs, Pooled
      <4>4. QED
        BY <4>2, <4>3
    <3>3. QED
      BY <3>1, <3>2 DEF Runs
  <2>5. QED
    BY <2>1, <2>3, <2>4 DEF LosesNone, Alive
<1>8. CASE Retire(t)
  BY <1>0, <1>8, <1>a, LosesEnded DEF Retire, Endings
<1>9. QED
  BY <1>1, <1>2, <1>3, <1>4, <1>5, <1>6, <1>7, <1>8 DEF StartStep

\* The user starts and ends nothing; what ends by itself need not be reached.
LEMMA ReachedEnvironment ==
  ASSUME Sound, Reachable, Environment
  PROVE  Reachable'
<1>0. TypeOK
  BY DEF Sound
<1>1. Kept /\ UNCHANGED <<sessions, pool, unclaimed>>
  BY <1>0, KeptEnvironment DEF Environment, ChangeSettings, Exit, OutputEnds, dataVars, mapVars
<1>2. Runs' = Runs
  BY <1>1 DEF Runs, Primary, Pooled, Connected
<1>3. \A r \in Runtimes : Alive(r)' => Alive(r)
  <2>1. ASSUME NEW q \in Runtimes, Exit(q) PROVE \A r \in Runtimes : Alive(r)' => Alive(r)
    BY <1>0, <2>1 DEF Exit, Ended, Alive, TypeOK
  <2>2. QED
    BY <2>1 DEF Environment, ChangeSettings, OutputEnds, procVars, Alive
<1>4. \A t \in Tasks : \A r : Owns(t, r) => Owns(t, r)'
  <2>1. ASSUME NEW q \in Runtimes, OutputEnds(q), NEW t \in Tasks, NEW r, Owns(t, r)
        PROVE  Owns(t, r)'
    <3>1. t \notin Waiting(q)
      BY <2>1, Apart DEF Owns, Waiting
    <3>2. pc'[t] = pc[t] /\ local'[t] = local[t]
      BY <2>1, <3>1 DEF OutputEnds
    <3>3. QED
      BY <2>1, <3>2 DEF Owns
  <2>2. CASE UNCHANGED taskVars
    BY <2>2 DEF taskVars, Owns
  <2>3. QED
    BY <2>1, <2>2 DEF Environment, ChangeSettings, Exit
<1>5. QED
  BY <1>1, <1>2, <1>3, <1>4 DEF Reachable

\* The invariant that keeps every running process reachable.
StrayInv == /\ Sound /\ SwitchSettled /\ Unshared
            /\ PlacesFree /\ PlacesKept /\ AllFresh /\ Reachable

\* It holds before anybody calls.
LEMMA StrayInvInit == Init => StrayInv
<1> SUFFICES ASSUME Init PROVE StrayInv
  OBVIOUS
<1>1. Sound
  BY SoundInit
<1>2. \A t \in Tasks : pc[t] = "idle" /\ local[t].rt = None
  BY DEF Init
<1>3. SwitchSettled /\ PlacesFree /\ AllFresh
  BY <1>2, Apart DEF SwitchSettled, Settled, PlacesFree, PlaceFree, AllFresh, SwitchFresh
<1>4. Primary = {} /\ Pooled = {}
  BY DEF Init, Primary, Connected, Pooled
<1>5. Unshared /\ PlacesKept
  BY <1>2, <1>4, Apart DEF Unshared, MapShared, Shared, OneEach, PlacesKept, PoolStarted, PlaceKept
<1>6. Reachable
  BY DEF Init, Reachable, Alive
<1>7. QED
  BY <1>1, <1>3, <1>5, <1>6 DEF StrayInv

\* And every step keeps it.
LEMMA StrayInvNext == StrayInv /\ [Next]_vars => StrayInv'
<1> SUFFICES ASSUME StrayInv, [Next]_vars PROVE StrayInv'
  OBVIOUS
<1> USE DEF StrayInv
<1>1. Sound' /\ SwitchSettled' /\ Unshared' /\ PlacesFree' /\ PlacesKept'
  BY SoundNext, SettledNext, UnsharedNext, PlaceFreeNext, PlaceKeptNext
<1>2. AllFresh'
  BY FreshKept, FreshSwitch DEF AllFresh
<1>3. Reachable'
  <2>0. TypeOK /\ Chosen
    BY DEF Sound
  <2>1. CASE UNCHANGED vars
    BY <2>1 DEF vars, dataVars, mapVars, procVars, taskVars, Reachable, Runs, Primary, Pooled,
                Connected, Owns, Alive
  <2>2. ASSUME NEW c \in Connects, ConnectStep(c) PROVE Reachable'
    BY <2>0, <2>2, Apart, TypeConnect, ReachedConnect, ReachedStep
  <2>3. ASSUME NEW v \in Removes, RemoveStep(v) PROVE Reachable'
    BY <2>0, <2>3, Apart, TypeRemove, ReachedRemove, ReachedStep
  <2>4. ASSUME NEW s \in Switches, SwitchStep(s) PROVE Reachable'
    BY <2>0, <2>4, Apart, TypeSwitch, ReachedSwitch, ReachedStep
  <2>5. ASSUME NEW t \in Starts, StartStep(t) PROVE Reachable'
    BY <2>0, <2>5, Apart, TypeStart, ReachedStart, ReachedStep
  <2>6. CASE Environment
    BY <2>6, ReachedEnvironment
  <2>7. QED
    BY <2>1, <2>2, <2>3, <2>4, <2>5, <2>6 DEF Next
<1>4. QED
  BY <1>1, <1>2, <1>3

\* A process that runs is in the map, in the pool, in the hands of a call, or was
\* published when no workspace was left.
THEOREM NothingStrays == Spec => []NoStrays
<1>1. StrayInv => NoStrays
  <2>1. \A t \in Tasks : \A r : Owns(t, r) => Borrowed(r)
    BY DEF Owns, Borrowed
  <2>2. QED
    BY <2>1 DEF StrayInv, Reachable, NoStrays
<1>2. QED
  BY <1>1, StrayInvInit, StrayInvNext, PTL DEF Spec

=============================================================================
