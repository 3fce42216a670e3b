# ThreadFleet in TLA+

ThreadFleet is a desktop application that drives `codex app-server` processes.
A Tauri backend (`src/src-tauri/src`) owns the processes, a React frontend
(`src/src`) shows their threads, and a daemon built from the same shared cores
serves remote desktops over TCP. This directory models the concurrent core of
both: in the backend what runs between two `await`s, two lock acquisitions or
two calls of the file system is one action, in the frontend what a handler does
up to its next `await`, with React's renders as steps of their own. Every order
of these steps is one that TLC explores.

## Inventory

| Component | State it keeps | Operations | What is hard |
|---|---|---|---|
| App-server session (`backend/app_server.rs`) | `pending`, `request_context`, `active_turns`, `output_closed`, the stdin lock | `send_request_for_workspace`, the reader task, `shutdown`, `wait_for_turn_inactive` | each map has its own lock; end of output races every call; timeouts leave late replies; `active_turns` decides whether a process may be ended |
| Thread routing (`backend/app_server.rs`, `thread_workspace_core.rs`) | owner per thread, workspace roots, hidden threads, background callbacks, deferred events | route one line; claim by a request; register and unregister a workspace | events precede the knowledge of their owner; the buffer is bounded; the owners' lock is dropped in the middle of a line |
| Remote client (`remote_backend/`) | the cached client, its `connected` flag and `pending` map, the outbound queue | `call_remote`, `ensure_remote_backend`, reader and writer task | losses noticed by two tasks, timeouts, retry without running twice, replacement of the client |
| Daemon connection (`bin/codex_monitor_daemon/transport.rs`, `rpc.rs`) | authenticated, subscribed, one task per request | handle a client | idle limit, lag of the event channel |
| Task coordination (`task_coordination_core/`, commands in `codex/mod.rs`) | claims per group, in memory | acquire, release | conflict rules over paths; a claim replaces earlier ones |
| Execution bindings (`execution_binding_core.rs`) | for each spawned agent the model that was approved and the one that was seen, in a sidecar file with a backup | register, observe, list | evidence comes in any order, late and again; crashes between two calls of the file system |
| Workspace runtimes (`connect.rs`, `runtime_codex_args.rs`, `session_manager_core/runtime.rs`) | session map, pool of source runtimes, three locks and a gate | connect, remove, switch Provider, start a turn on either kind of runtime, idle closing, replacement | four locks, settings read before a spawn and used after it, a process must not be ended under a turn nor be left without a reference |
| codex core (`shared/codex_core.rs`, `codex/mod.rs`) | login in progress | the RPC surface of threads, turns, reviews | interruption waits for a turn to become inactive |
| Frontend: turns of a thread (`useThreadMessaging.ts`, `useThreadTurnEvents.ts`, `useThreadAutoContinue.ts`) | the reducer's turn and execution record, refs of the hooks, a timer, the interruption in flight | send, steer, stop, the app-server's turn events, automatic continuation | handlers use what the last render showed; a stop races the start it should stop |
| Frontend: queued messages (`useQueuedSend.ts`, `useComposerController.ts`) | a queue, what is in flight and whether it started per thread, retry timers, drafts | submit, steer, edit, delete, clear, flush, restore | three states of three effects; sends that fail after they were cleared |
| Frontend: items of a thread (`useThreadItemEvents.ts`, `useThreadActions.ts`, the reducer) | the list shown, two buffers with a timer each, generations of reads | item events, deltas, resume, refresh | a read crosses events; buffers overtake each other |
| Session manager (`session_manager_core/service.rs`, `ledger.rs`, ...) | transcripts, archive ledger, derivations | scan, archive, delete, derive | a deletion trusts a list of running threads; files replaced by two renames |
| Gemini runtime | a second JSON-RPC child | as the app-server session | as the app-server session |
| Installer migration (`installer_migration_*`) | a journal of phases | forward, roll back, recover | a crash or a reboot between any two phases |
| Provider profiles, gateway, config sync; updates; workflow gates; usage; terminal; dictation; git and files; desktop shell | mostly files, or one child process | | I/O; little state between calls |
| Frontend: thread list, live connection, everything else | reducer state, subscription of the active remote thread | | presentation for the most part |

`PROJECT.json` lists every component with its status, and under `hazards`
what is hard to test, at its line.

What makes the modelled ones correct: every call ends and leaves nothing
behind; `active_turns` tells the truth; events come out once, in order, and for
the right workspace; a lost connection is noticed once and retried without
running a request twice; two threads do not hold what excludes each other;
evidence is neither overwritten nor lost in a crash; a switch ends no work and
leaves no process out of reach; what the user sees of a turn agrees with the
app-server, a stop stops, and a message that was queued is sent once or given
back, up to the two messages that a flush may confuse (below).

## Modules

| Module | Models | Checked by | Proved in |
|---|---|---|---|
| `AppServerSession` | calls, reader and process of one session | `MCAppServerSession` | `AppServerSession_proofs` |
| `ThreadRouting` | the routing half of the same reader | `MCThreadRouting` | `ThreadRouting_proofs` |
| `RemoteBackend` | calls of the desktop over TCP to the daemon | `MCRemoteBackend` | `RemoteBackend_proofs` |
| `TaskCoordination` | the claims of one group | `MCCoordination` | `Coordination_proofs` |
| `ExecutionBindings` | the store of execution bindings | `MCCoordination` | `Coordination_proofs` |
| `SidecarFile` | the file it is kept in, read and written step by step | `MCCoordination` | `Coordination_proofs` |
| `AtomicFile` | what such a file promises: `SidecarFile` implements it | `MCCoordination` | `Coordination_proofs` |
| `WorkspaceRuntimes` | all sessions together: map, pool, switch, turns | `MCWorkspaceRuntimes`, `MCRuntimesEnd` | `WorkspaceRuntimes_proofs` |
| `ThreadTurns` | the turns of one thread as the frontend knows them | `MCThreadTurns` | `ThreadTurns_proofs` |
| `QueuedSend` | composer, queue and sends of every thread | `MCQueuedSend` | `Conversation_proofs` |
| `Outbox` | what the queue promises of a message: `QueuedSend` implements it | `MCQueuedSend` | `Conversation_proofs` |
| `ThreadItems` | what is shown of a thread while a turn runs | `MCThreadItems` | `Conversation_proofs` |

The modules meet in the code as follows. The composer hands a message to
`QueuedSend`, which sends it through the send of `ThreadTurns`; `QueuedSend`
abstracts that send to its outcomes (sent, blocked, an exception) and the turn
to the processing flag of the thread, whose truth `ThreadTurns` checks
(`Agrees`). `ThreadTurns` abstracts the app-server to the turn it works on and a
FIFO of notifications, which is what `ThreadRouting` delivers in order
(`DeliveredInOrder`) and once (`NothingVanishes`); `ThreadItems`
reads the other notifications of the same FIFO. A call of the desktop goes either to
the local cores or through `RemoteBackend` to the daemon, which runs the same
cores; that a retried call has not run (`RunAtMostOnce`) is what lets
`ThreadTurns` count a start once. The cores pick a session (`WorkspaceRuntimes`)
and send their request on it (`AppServerSession`); the reader of that session
answers calls (`AppServerSession`) and routes everything else (`ThreadRouting`).
The entry of `active_turns` that `AppServerSession` maintains is what the switch
of `WorkspaceRuntimes` reads: `WorkspaceRuntimes` abstracts a session to the set
of turns it has marked, which `MarkerHasOwner` and `LiveTurnTracked` of the other
module justify and delimit. `ExecutionBindings` is fed by the frontend for the
`spawn_agent` items of a thread, and by the retries of `RemoteBackend`.
`PROJECT.json` maps each definition to the lines it translates.

### AppServerSession

`pc[r]` is where call `r` is in `send_request_for_workspace`; each map insertion
and each of the two looks at `output_closed` is a step. `reader` walks through
the loop and, at the end of output, through `mark_output_closed`, the three
drains and the two ways of reporting. A `oneshot` is a field `rx[r]`; a reply to
a call that timed out is dropped, as in the code. The process is external: it
answers, accepts turns, announces them, ends them with `turn/completed` or
`error`, may send retryable errors, and exits at any time. `Serial` says that
callers keep one turn per thread, as the frontend does by queueing messages; it
is a parameter since nothing in the backend enforces it.
Left out: the content of messages, the
`canceled` outcome of the oneshot (its sender is never dropped unsent),
`wait_for_turn_inactive`.

### ThreadRouting

One line of stdout goes through `Route`, `Flush`, `EmitReady` and `Dispatch`,
the places where the reader takes and drops the lock on the owners. Threads get
owners by a caller's request (`Claim`), a reply, a list, their directory
(`Resolve`) or their parent. The limit of the buffer in bytes is counted as
events. `account/*` broadcasts and `codex/backgroundThread` on stdout are left
out, and the reader runs for ever: that deferred events are dropped at the end
of output is not modelled. `overtaken`, history, names the threads that a caller
claimed between the flush for a line of theirs and its dispatch: that line goes
before those that wait for the next flush.

### RemoteBackend

`at[k]` is where call `k` is: `ensure_remote_backend` with its lock across
connecting, the check of the flag, registration, the queue, the wait, the
classification of the failure, the retry. Each connection has its reader and
its writer task; both go through `mark_disconnected`, a swap and then a drain.
The daemon executes each request in a task of its own and answers in any order.
`auth` is folded into one step. Events are left out but for the gap event.

### TaskCoordination

One step per command, since the ledger's lock is held throughout. A resource is
a kind and a path, a sequence of names. `again` marks a claim granted in the
self-ownership branch, `declared` what a thread was granted and has not given
back; both are history.

### ExecutionBindings, SidecarFile and AtomicFile

A command holds the lock of the store, reads the file, changes one record and
writes the file back. `SidecarFile` is `read_document`, `restore_backup` and
`write_atomically` with each call of the file system as a step that may fail and
after which the process may end; `path`, `temp` and `backup` are the three files,
`at` is the place in `write_atomically`. `AtomicFile` has one document that is
replaced in one step. The refinement maps the three files to the document the
next read would return, and a write to its three stages. The file system keeps
the renames it was asked for (a power cut that undoes a rename is out of the
model), and one process uses the file: a daemon on the same data directory as a
desktop in local mode would be a second one, with a lock of its own.
`ExecutionBindings` puts the records of one parent thread in that file. Requests
carry the time stamp of their sender; `heard` is history, the requests that made
the record on disk, forgotten when the record is pruned. `Verified` stands for
the catalogue check of `audit_binding`. Left out: validation of identifiers, the
receivers, the revision counter, the limit over all parents.

### WorkspaceRuntimes

`pc` and `local` follow each connection, removal, switch, turn and review;
`spawnLock`, `gateWriter`/`gateReaders`, `poolLock` and `settingsLock` are the
locks they hold across awaits. `proc[r].state` tells how a process ended, so
that a property can speak of who ended it. Processes are spawned in a fixed
order of identities. `settings` are the binary, the fingerprint of the Provider and
the args; a switch makes what it has read of them (`want`), with other args if its
caller asks for some (`Overrides`). What the args become when they are merged with a
Provider's is told by the two together. `TransactionMatches`, the second look at the
settings, compares the binary and the Provider only, as the code does; the identity of
the CODEX_HOME and the flag for settings synchronisation, which it also compares, are
left out and do not change. The switch's look at the runtimes and its check of their
quiescence are single steps; `register_workspace` of the new session is one; the
entry the pool keeps for a source's history is left out; settings
synchronisation is on, as by default. A late `turn/started` after a timeout and
the retryable error are left to `AppServerSession`.

### ThreadTurns

One thread. `turn` is what the reducer holds after every dispatch, `shown` what
the last render saw; `Commit` is React's render. `refs` are the hooks' own
copies, which handlers write at once: the active turn they believe in (`known`,
`adopted`, `ahead` are the three refs of `useThreadTurnEvents.ts`), a stop that
waits for a turn (`pendingStop`), the execution that is recorded. `record` is the
execution summary, `auto` the automatic continuation with its timer, `fence` and
`barred` what a manual stop leaves behind against it. `call[k]` follows a send
through preflight, resume, `turn/start` or `turn/steer` and the answer; `stop` is
the interruption in flight. The app-server accepts, declines, steers, ends, fails
and interrupts turns, and its notifications and replies come over `wire` in
order. A turn has the name of the call that asks for it. `calm`, history, says that
the user has waited so far: each turn was asked for with everything rendered, nothing
on the wire and no send under way, and the app-server has said the thread's status
after each error. `halted` and `doomed`, history too, remember a stop and the sends
it met. Left out: images, reviews, the goal commands, the texts.

### QueuedSend and Outbox

`Type`, `Submit`, `EditQueued`, `DeleteQueued`, `SteerQueued`, `ClearQueued` and
`SwitchTo` are the user's. `Commit` is a render: from then on handlers and effects
work on `seen`, their closure, while their updates go to the latest state. `Effects`
runs the two passive effects of that commit, the flush among them, in a step of its
own; `due` says whether they are still to be run, and that React renders what the
user did before the user acts again. Between a commit and its effects the user may
delete, edit or stop what is queued and a steer may fail: the flush then sends the
head of `seen.queue` and takes another message off the queue (`Sliced`). `astray`,
history, collects those two messages. The user acts on what is rendered (`Shown`),
which may have been flushed since; a deletion then finds nothing to delete.
`Begin`, `Sent`, `Blocked`, `SteerFails` and `Throws` are the awaited send and its
outcomes; `TimerFires` the retry. `call[m].fresh`
says that the queue has not been cleared since the send began, `call[m].index`
where a steered message was taken from. `stopped` and `deleted`, history, are what
the user took away since it was submitted, by the stop button and by deleting or
editing.

`Outbox` gives each message one fate: new, draft, asked for directly, kept by the
queue, sent, gone, or astray. The refinement
mapping `whereabouts` computes it from the queues, drafts and sends, and yields a
value `Outbox` does not know when a message that is not astray is in two places; so
the refinement says that the queue neither loses nor doubles a message other than
those. What was discarded is what was stopped or deleted and is not astray. A text is
a new message each time it is submitted, and of a message that has gone astray one
copy is submitted, flushed or put back at a time (three guards, marked as bounds; no
other message meets them). `queueMessage` is called by tests only and left out.

### ThreadItems

One thread, one turn. The app-server says deltas and completes items; the wire
is in order. `UpsertItem`, `AppendDelta` and the flushes are the two buffers of
`useThreadItemEvents.ts`, `armed` the order of their timers; `MergeStreamingText`
is the reducer's merge of overlapping texts. A read asks (`Ask`), is answered with
a snapshot of that moment (`Answer`), and is applied or ignored by generation
(`Apply`, `Ignore`), merged into the list or in its place. A text is a sequence of
letters, none of which occurs twice, for a reason given below. Left out: the
matching of equivalent items under different ids, the eviction of threads that
are not looked at, token usage.

## Runs

Several MC modules hold more than one instance, or several parts of one: the
first state picks one, by the variable `instance` or `part`, and a property that
is not about all of them names those it is about. A part keeps to some of the
calls and values of the module, so its properties are the module's own, the ones
the theorems are about.

| Run | Question | Instances and bounds |
|---|---|---|
| `session_overlap` | is anything stranded or left behind when calls of every method overlap with timeouts and the end of output? | 2 calls, 1 thread, 2 turns, 2 unread lines |
| `session_fair` | with callers that keep one turn per thread, is `active_turns` right, is a dead turn reported, does every call return once the process is gone? | 2 calls, 2 turns; fair, no timeout |
| `session_retry_error` | does the entry of a running turn survive a retryable error? **No** | 1 turn |
| `routing` | order, loss and duplication, hidden threads, a thread's proven workspace (all); are deferred events released after a claim (*release*)? | a buffer of 2, claims at any moment; *family*: parent and child, 2 workspaces, 1 notification, 1 claim; *order*: 1 thread, 4 notifications and claims together; *release*: 1 thread, 2 notifications, 2 claims, fair |
| `remote` | does no request run twice and is each loss handled once (both); is the connection single (*lost*); does every call end (*timeouts*)? | *timeouts*: 2 calls, one of which may be retried, 2 connections of which the first is lost, a queue of 1, fair; *lost*: both may be retried, 3 connections, 1 change of settings |
| `coordination` | when can claims clash (*claims*); does the order of evidence matter, is a match deserved, is the file atomic (*bindings*)? | *claims*: 2 threads, a file, its two ancestors, a logical resource, 3 claims; *bindings*: 2 spawned agents, 3 registrations, 4 observations of the first, any of them again at any time, 1 record kept, a clock of 4 with a lifetime of 2, every call of the file system failing or the last one |
| `runtimes_switch` | one process per binary, none out of reach? Does a switch spare turns, publish the binary and Provider that are asked for, leave one making? | 2 workspaces, 3 processes, 2 binaries; parts *shared*: 2 connections, a removal, a turn, an edit, exits; *switch*: 1 connection, a switch, a turn, 2 profiles, 2 edits; *removal*: the same with a removal and no turn; *args*: as *switch* with 2 args, which may be edited or asked for, and 1 profile |
| `runtimes_ends` | does every call end? | *turns*: a connection, a switch, a turn, a review, idle closing, 2 processes; *exits*: 2 connections, 2 workspaces, exits; both fair |
| `turns` | does the user see what the app-server does and is the record right (*calm*); does a stop hold against the continuation (*hasty*); does it end its turn, and is a retry that is due sent (*live*)? | all with 1 stop; *calm*: the user waits (`calm`), two of 2 sends and 1 continuation, steering; *hasty*: nobody waits, silence after an error, 1 send, 1 continuation; *live*: the same calls, `calm`, fair |
| `queue` | does the queue implement `Outbox`, does what was stopped stay out of it? | a message and a slash command, a send fails once before it waits for a timer; one thread, with steering, deletions, edits and failed steers between a commit and its effects, and flushes that go astray; or 2 threads the user switches between, with no steer under way and no flush astray (the action constraint `Within`: a state of either kind) |
| `queue_fair` | one flush at a time, order kept, does the queue drain? | 1 thread, 2 messages, no steering, `Orderly`; fair |
| `items` | is anything shown taken back, does a refresh show what the server has, does a completed item come to be shown? | a tool with output and a message of two deltas, 2 events on their way, 2 reads; fair |

Why the bounds are enough. The races are between one call and the reader, or
between two calls and one reader or lock: two calls, one thread and two turns
reach every pair of steps, and a third call adds another pair of the same kind.
A buffer of two sees one event pass another; three notifications overflow it, and
a claim drains it. Two connections and their client suffice for a stale failure, three
for one after a change of settings. Two workspaces on one process and one pooled
runtime are what sharing needs; the third process is the one the switch spawns.
A clash of claims is between two threads. A record is made of a registration and
an observation; a second one of each contradicts, one that keeps no room for the
second agent makes the store forget, and a clock of twice the lifetime lets a
record expire before, between and after them. A thread has one turn at a time: a
send and what comes after it (a second send, a continuation) reach each pair of
handlers. A message moves alone through the queue; two are enough to be in each
other's way, and the proofs below do not depend on the number. Two kinds of items
are the two buffers; two events on their way are one that is handled while a
timer is due and one behind it, two reads an older and a newer one.

The bounds that are not sizes: `calm` (above: a condition of `Agrees` and
`RecordFollows`, and what the parts *calm* and *live* of `turns` keep to), `Orderly` (a turn is rendered and its start answered before it is over, and
nothing is sent beside a message on its way), `crossed` (a read has crossed events:
what is shown afterwards is not promised, as told below).

`CHECK_DEADLOCK FALSE` stands where all calls of a run can be over and the system
stops. Symmetry is used in runs without liveness only.

### Fairness

- `AppServerSession!FairSpec`: weak fairness of each caller's steps and of the
  reader, tasks that tokio polls whenever they can run, and of the end of file
  once the process is gone. Nothing about the process, the timeout, or the
  decision to call. The stdin lock is fair in tokio and is held by steps that end.
- `ThreadRouting!FairSpec`: weak fairness of the reader within a line, strong
  fairness of reading a reply: the process answers each request and stdout is
  FIFO, so other lines cannot overtake the reply for ever.
- `RemoteBackend`: strong fairness of each call's steps (tokio's mutex
  is FIFO; the request and the dispatch timers fire; connecting ends by the
  system's own timeout), weak fairness of the writer and of the reader's drain.
  The daemon owes nothing.
- `WorkspaceRuntimes`: strong fairness of each call in progress, since
  tokio's mutexes and its `RwLock` serve waiters in order and a request is
  answered or times out; a running turn need not end, the user need not act.
- `ThreadTurns` (part *live*): weak fairness of renders, of the handling of
  events, of sends in progress and their answers (the app-server answers each
  request), of the continuation's timer and of interruptions. A turn need not
  end by itself, the user need not act.
- `QueuedSend!FairSpec`: weak fairness of renders, of timers, of the end of turns
  and of sends; strong fairness of `Begin` and `Sent`: the app-server accepts
  what it is asked again and again. Without that a blocked message goes back to
  the draft for ever, which the code allows.
- `ThreadItems`: events on their way are handled and armed timers fire.

## What the runs show

Every passing property holds in full for its instance. The ones with the widest
reach: no caller is stranded by the end of output although three maps are
drained under three locks; a marker never outlives its `turn/start`; a retried
remote call has never run; the gate keeps a turn and a switch apart although the
switch spawns between its two looks; a switch never publishes a Provider the
settings have moved away from; a sidecar is one document wherever the process
ends, though for a moment only its backup exists; what is known of an agent does
not depend on the order it became known in; a stop that comes before the
app-server has accepted the turn still ends it; through flushes, steers, failures,
clears and switches of the thread a queued message is sent at most once and never
lost, but for the two that a flush confuses when the queue changed since its commit;
what the stop button took is never queued again.

### Where the code does less than its documents say

`session_retry_error`: `track_active_turn_event` removes the turn's entry on
every `error`, with `willRetry` too, while `docs/app-server-events.md:300` keeps
it until `turn/completed`.

The modules also state what TLC refutes and no run checks, each under "Not
promised by the code". To see a counterexample, give the property to a copy of
the named configuration, under `Spec` and without the symmetry.

| Property | Behaviour | Configuration |
|---|---|---|
| `AppServerSession!StartFailureOwnedByReply` | a `turn/start` caught between marker and registration is failed by its reply and reported by an event (`app_server.rs:515`) | `Session_retry_error`, `RetryErrors = FALSE` |
| `AppServerSession!LiveTurnTracked` without `Serial` | a second `turn/start` takes the entry of the running turn (`app_server.rs:785`) | `Session_retry_error`, two turns, `Serial = FALSE` |
| `ThreadRouting!DeliveredInOrder` without its exception `overtaken` (what it exempts no property covers) | a claim between flush and dispatch (`app_server.rs:1390`) | `Routing`, part *order* |
| `RemoteBackend!NobodyAbandoned` | registration after the drain waits for its timeout (`remote_backend/mod.rs:121`) | `Remote` |
| `RemoteBackend!CallsShareTransport` | a timed out request drops a healthy client (`remote_backend/mod.rs:212`) | `Remote`, three calls that may be retried |
| `TaskCoordination!NoClash` | a second declaration is granted unseen (`service.rs:82`) | `Coordination` |
| `TaskCoordination!DeclaredAreHeld` | a grant drops the owner's other claims (`codex/mod.rs:1854`) | `Coordination` |
| `TaskCoordination!HeldAreDeclared` | a release finds the older record (`codex/mod.rs:1888`) | `Coordination` |
| `ExecutionBindings!RetryChangesNothing` | an observation made after the registration expired but stored before it leaves the record matched, its retry makes it stale; the retry of a foreign sender's turns a stale record into a conflict. `docs/app-server-events.md:304` calls exact retries idempotent | `Coordination` |
| `WorkspaceRuntimes!SwitchSparesTurns` with a review | `review/start` takes no gate (`codex_core.rs:2284`) | `Runtimes_ends` |
| `WorkspaceRuntimes!ReplacementSparesTurns` | a turn starts between the last look and the end (`runtime.rs:419`) | `Runtimes_ends`, two turns |
| `WorkspaceRuntimes!IdleSparesTurns` | idle closing does not look at turns (`runtime.rs:269`) | `Runtimes_ends`, two turns |
| `WorkspaceRuntimes!PublishedHasArgs` | the args are edited while the switch spawns: `provider_transaction_matches` does not compare them (`runtime_codex_args.rs:144`), and the old ones are published | `Runtimes_switch` with `Overrides = {}`, part *args* |
| `WorkspaceRuntimes!NoStrays` without its exception `unclaimed` | the switch publishes to an empty map (`runtime_codex_args.rs:456`) | `Runtimes_switch`, part *removal* |

### What the frontend does where a property has a condition

The properties, and the instances above, state the conditions under which the
frontend's properties hold. Outside them the models behave as the code does:

- *Turns* (`Agrees` and `RecordFollows` need a user who waits, `calm`). Of
  two starts on their way a stop interrupts one, and the refused second clears
  the state of the first. A stop before a start that fails leaves
  `pendingInterrupts` behind, which interrupts the next turn. A refused steer
  that is answered late clears a newer turn. A stop is ignored while an earlier
  interruption is in flight. A stop while the continuation waits leaves the
  execution record active. When the app-server ends with automatic continuation
  on, only `error` is said (`useThreadTurnEvents.ts:832`,
  `useThreadAutoContinue.ts:109`), and the thread shows as processing for good
  unless a continuation is sent.
- *Queue*. The flush effect sends the head of the queue its commit saw
  (`useQueuedSend.ts:641`) and takes `slice(1)` of the latest one (`:649`). If the
  user deletes or edits that head in between, it is sent all the same and the next
  message is lost; if a failed steer is put back before it in between, the steered
  one is lost and the head is sent and still queued, so that it is sent twice. These
  messages are `astray` and `KeepsPromise` makes no claim about them. A deletion of a
  message that has just been flushed deletes nothing, and no deletion counts as a
  cancellation (`:227`), so that a send which fails puts the message back.
  `OneAtATime`, `LineKeepsOrder` and `QueueDrains` need `Orderly` and no
  steering, and hold with such deletions; `QueueDrains` is checked for one thread, so nothing is claimed of the
  queue of a thread the user has left, which is flushed only when it is active
  again. A queued slash command that starts no turn (`/status`, `/mcp`,
  `/fork`, ...), and a turn that starts and ends between two renders or while
  another thread is looked at, leave `inFlight` set and the queue waits. A late
  idle status clears `inFlight` while the start is unanswered, and two flushes
  overlap. A message sent directly does not pass through the queue. A place to
  restore to is stale after a flush, and the order is inverted. With steering, a
  clear during a direct steer can let two flushes go. Blocked messages go back to
  the draft one after the other, each over the previous one
  (`useComposerController.ts:160`; `useQueuedSend.test.tsx:441` expects it), which is
  why `Outbox!GiveBack` may overwrite. A direct send that throws is left in the
  composer's history only (`Outbox!Fail`).
- *Items* (`ShownGrows` and `CompletedIsShown` need that no read crossed events).
  A resume is merged into the list of the render that asked for it
  (`useThreadActions.ts:546`): what arrived during the read is lost until the
  next one, and text that is still on its way is then said twice; the token usage
  is protected by a revision, items are not. A refresh in the middle of a turn
  takes back the running message. The merge of overlapping texts swallows a letter
  that ends one delta and begins the next ("hel" and "lo" give "helo") until the
  completed item repairs it: the model's texts therefore say no letter twice. A
  tool's update that waits in its buffer is overtaken by a message whose deltas
  were flushed first, so the order of the list is not a property.

## Proofs

TLAPS proves, for all values of the constants and from their assumptions alone
unless said otherwise:

`AppServerSession_proofs`, for any calls, threads, turns, methods and caller
discipline:

- `TypeCorrect`: the types, and that a response is delivered from the head of
  stdout. Everything below rests on it.
- `NoRequestStranded`: `Spec => []NoStrandedRequest`. The property is not
  inductive: it speaks of the state after the drain only. `EndInv` adds three
  facts. `ClosedFirst`: the flag is up from the moment the drain starts.
  `EntryKept`: a call that is registered and unanswered is in `pending` or in
  what the reader has drained and not yet answered. `LateNotWritten`: after the
  drain of `pending` no call that is still in it has passed the second look at
  the flag. The last one is the heart of it: a call that registers late has yet
  to look at the flag under the stdin lock, and will see it up.
- `NothingLeftOver`: `Spec => []NoLeftovers`. `LeftInv` adds three facts
  to `EndInv`. `WrittenFirst`: nothing answers a call that has not been written.
  `EntriesGone`: at which of its steps a call has no entry in `pending`, or in
  `request_context`; one that has its reply has none. `ContextFirst`: the context of
  a response is taken before it is delivered, and none enters after the drain.
- `OneErrorEach`: `Spec => []OneErrorPerThread`. `ErrorInv`: nothing is emitted
  before the reader is done, and the lemma `TargetsOnce` shows that the three sources
  of the errors name each thread once.
- `MarkersOwned`: `Spec => []MarkerHasOwner`. `MarkerInv`: a marker
  has an owner, which is a call in flight that the process has not accepted, or a
  turn it has accepted whose announcement is still to be read (`Owned`); and the
  process announces a turn before it says anything else of it (`TurnsInOrder`).

The rest of the module holds under the discipline `Disciplined`: callers keep one turn
per thread, no turn reports an error it will retry, no request times out, and
there is no `review/start`. Each of the four is needed: a second start takes the
entry of the running turn, an error that is retried removes it
(`session_retry_error`), a timeout clears the marker of a turn that may yet start,
and a review leaves no marker.

- `LiveTurnsTracked`: `Spec => []LiveTurnTracked`, and `DeadTurnsReported`:
  `Spec => []DeadTurnReported`. `TurnInv` has seven parts beside
  `MarkerInv`. The heart is `Tracked`: a thread has one start under way or one open
  turn, never both; `active_turns` holds the marker until the turn is announced and
  the turn until its end is read. It needs that a call is answered once (`Placed`)
  and before any line of its turn (`AnswerFirst`), and that a turn is announced
  once. `HeldRight`: what the reader drained names every turn the frontend knows.

`ThreadRouting_proofs`, for any finite set of threads, any workspaces, directories,
number of notifications and claims, and any limit of the buffer:

- `RoutingTypes`: `Spec => []TypeOK`.
- `NoneVanishes`: `Spec => []NothingVanishes`, from the types and that the reader emits
  exactly while something is released (`Emitting`). What a flush releases and what
  it leaves are as long together as the buffer was (`OnlyCounts`).
- `EvidenceKept`: `Spec => []EvidenceWins`, which is inductive as it stands.
- `FlushesComplete`: `Spec => FlushComplete`. The passes end, at the latest when every
  thread has an owner (`SettledLast`), and the last one, which brings no owner,
  shows that no line that waits has one to tell (`PassComplete`). No run lets enough
  lines wait at once for a second pass to matter.
- `HiddenKept`: `Spec => HiddenStaysHidden`. `HandHidden`: a notification in hand of a
  hidden thread says that it was archived.
- `OrderKept`: `Spec => DeliveredInOrder`. `OrderInv` has six parts. `Numbered` and
  `InLine`: the one in hand is the latest, the buffers are in order. `Parted`: a flush
  releases all that waits of a thread, or nothing. `Ahead`: what waits of a thread
  came after what was delivered of it. `LineClear`, the heart: once the buffer was
  flushed nothing waits of the thread of the line in hand if that has an owner,
  unless the owner came later, which is what `overtaken` records.

The induction these need (`RecursionLemmas`: `NatInd`, and `Recursion`, what a function
defined by recursion up to a number computes at each step) is over sets of numbers, by
the least element of a set, and so is in reach although the library's theorems on
induction are not.

`Coordination_proofs`, for any threads and resources and a ledger of any length:

- `ClaimsTyped`: `Spec => []TypeOK`, and `ClashesAreRedeclared`: `Spec =>
  []ClashOnlyByRedeclaring`, which is inductive with the types. It rests on the
  permission matrix being symmetric (`ClashIsMutual`): `acquire_claim` compares an old
  claim with a new one in that order only. What is left of the ledger when a thread's
  own claims give way are claims of the ledger (`OwnGivesWay`, by `RecursionLemmas`).

Of the file of the bindings, for any set of documents:

- `SidecarTyped`: only the temporary file is ever half written.
- `SidecarIsAtomic`: `FileSpec => FileIsAtomic`, the refinement of `AtomicFile`.
  `FileInv` says what the files hold at each step of the write: the temporary one
  is complete before the first rename, the last backup has been put back before a
  write begins, and the file itself is missing only when the new one is about to
  take its place. Each step is shown to be a step of `AtomicFile` or none.

Of the store, for any calls, fields, requests, lifetime and number of records kept, where
the documents of the file are those made of the store's records (`KeepsBindings`; the run
gives `Documents` exactly this value):

- `BindingsTyped`: `BindingsSpec => []BindingsTypeOK`, and `StoreIsAtomic`:
  `BindingsSpec => FileIsAtomic`.
- `EvidenceNeverLost`: `BindingsSpec => []EvidenceIsOrderless`, and `MatchesDeserved`:
  `BindingsSpec => []MatchedIsDeserved`. One notion carries both: a record is `Sound`
  for the requests it heard. It knows what they said (`Knows`), a contradiction has
  closed it (`Closed`: in conflict, or out of date for good, since a late registration
  turns a conflict into stale), and what is matched has been compared as it stands
  (`Compared`). One lemma for `register`, one for `observe`, one for the recomputation
  shows that each keeps this with the request added. `BindingsInv` carries it through the
  file: the stored records are sound for what was heard (`StoredSound`), those being
  written for that and the request they are written for (`WrittenSound`), and of a call
  without a record nothing was said.

`ThreadTurns_proofs`, for any messages and continuations, any number of stops, with
steering or without:

- `TurnsTyped`: `Spec => []Typed`, the types and what each line on its way names.
- `StopsHold`: `Spec => StopHolds`, whether the user waits or not. `Barrier`: while a stop
  holds the fence is up and no timer runs. A send that was under way when the user
  stopped was made, so a refusal of it that comes late is stopped by the fence.
- `TurnsAgree`: `Spec => []Agrees`. The property speaks of the moments when nothing is on
  its way; `CalmInv` says what holds in between, as long as the user waits. `Kept` is
  about the stream: a line about a turn that runs no more is followed by the status that
  clears it, what clears the view while a turn runs is followed by its announcement, and
  a refusal is on its way only while no turn runs that is to go on (`Told`); one call is
  under way and is answered once (`OneCall`); a turn is asked for only while none runs
  that is to go on (`Waits`). `View` is about the thread: a turn that runs is seen by the
  reducer and by the refs, now and after the next render (`Sees`), or about to be
  announced, or about to be interrupted; when none runs none is seen, or its end is
  still to be heard. The lemmas on `LookUp` carry the refs through each handler; the rest
  is one lemma for each kind of line that is heard and each kind of step that says one.
- `RecordIsKept`: `Spec => []RecordFollows`. `RecordInv` adds seven parts to `CalmInv`. A
  turn is known to the frontend only once it was asked for and not refused (`AllBorn`), so
  the announcement of a turn is the first the hook hears of it, but for the reply that
  accepts it (`Starts`, `Accepts`). The record is of the turn whose announcement was heard
  last, and open only while that is not finalized (`Recorded`); while it is open no
  other turn is steered (`Steers`) or seen (`Follows`), which is why the status, whose
  handler has to guess its turn, closes that one. `Written` is to the record what `View`
  is to the view.

`Conversation_proofs`, of the queue, for any threads, messages and commands:

- `QueueTypes`: `Spec => []TypeOK`.
- `StoppedForGood`: `Spec => []StoppedStaysStopped`, with steering or without.
  `HomeInv` is the invariant behind it and behind the refinement. `Queues`: a queue
  holds no message twice. `Rendered`: what a commit has shown is still queued until
  the user acts or it is flushed. `Sound(m)`, of every message: it belongs to one
  thread; one that was stopped is in no queue, and a send of it under way will not put
  it back. `Home(m)`, of one that has not gone astray: it is in one place at most (the
  queue of one thread, one draft, under way, sent), and what effects that are due may
  flush is in none of the others. It rests on lemmas about the sequences the hook
  builds (`Appended`, `Inserted`, `Removed`, `Shortened`, `Prepended`,
  `PutBackInPlace`), each stated for a queue without repetitions.
- `OneFlush`: `Spec => []OneAtATime`, assuming `Orderly` and `~Steering`.
  `OneInv`: nothing is flushed beside a send (`Apart`), since its thread works,
  or has nothing queued, or has the message in flight with its turn unseen
  (`Unrivalled`); and what effects that are due may flush is the head of its queue,
  unless it was deleted since the commit (`HeadStays`).
- `LineKept`: `Spec => LineKeepsOrder`, on the same terms. By `OneInv` a line is the one
  message on its way before the queue (`LineSays`), so the order can be told without
  positions (`Before`), and of two messages one is first (`OneFirst`). After each step
  what was in the line is in its old order, with new messages at the end (`InOrder`): a
  flush moves the head, a failed send puts it back, deleting, editing and clearing take
  messages out, and so does a flush that goes astray.
- `OutboxImplemented`: `Spec => KeepsPromise`, with steering or without,
  `Orderly` or not. `Fate(m)` reads the fate of a message off the one place
  `Home(m)` leaves for it, or finds it astray (`OnePlace`: it agrees with
  `whereabouts`), and one lemma per action shows which step of `Outbox` it is.

Of the items of a thread, for any items, deltas, reads and events on their way:

- `DeltaLengthens`, of the merge of a delta into a text, for any two: the text that was
  there is a prefix of the outcome, whichever overlap is found.
- `RefreshRepairs`: `ItemsSpec => []RefreshIsExact`. `Kept` is the invariant, of three
  parts. `ServerInv`: an item begins once, so what a read says is a list without
  repetitions (`SnapshotIs`), and merging it with itself gives it back
  (`MergedWithItself`). `ReadsInv`: reads have distinct generations, none of them the one
  applied last, and a read that was asked for at rest is a refresh which has heard nothing
  but the state of that rest. `ExactInv`: after such a refresh was applied the server is at
  rest, what is shown is what it has, and the reads that may still be applied were asked
  for since. An older answer is stale, a younger one replaces the list by itself or is
  merged with itself. That a rest lasts is `RestStays`: the server takes no step, and a
  timer that fires finds empty buffers (`NoDeltas`, `NoUpserts`).

`RemoteBackend_proofs`, for any calls, connections, methods, retries and changes of
settings:

- `RemoteTypes`: `Spec => []TypeInv`.
- `LossHandled`: `Spec => []LossHandledOnce`. `TasksInv`: the task whose swap finds the
  flag up announces the loss, and which of the two it is shows in where they are.
  `FailedInv`: a call that registered while its connection was up (`timely`, history)
  does not register with it again, and no drain overlooks it.
- `OneTransportAtATime`: `Spec => []OneTransport`, and `DeadClientsCleared`:
  `Spec => OnlyDeadCleared`. `CacheInv`: a live connection that the daemon sends its
  events to is the cached one, and a call that comes to retry has seen its
  connection lost. Both hold until a call or an authentication gives up a live
  connection (`late`, history): that client may live on beside its successor.
- `CallsRunOnce`: `Spec => []RunAtMostOnce`. `SentInv`: a request is in the queue of one
  connection, in the daemon's inbox of one, or executed, and never two of these
  (`InOnePlace`); before a call sends it, and before it tries again, it is in none.

`WorkspaceRuntimes_proofs`, for any workspaces, sources, settings and calls, and any
number of edits and exits:

- `RuntimeTypes`: `Spec => []TypeOK`. `Sound` adds what a call has chosen at each of
  its steps (`Chosen`), and which lock it holds (`LocksHeld`): the spawn
  lock, the gate and the pool's lock have one holder, or readers and no writer.
- `SwitchPublishesTarget`: `Spec => PublishedIsTarget`. `SwitchSettled`: from the commit
  to publication a switch holds the lock on the settings, so their binary and Provider
  are what it has compared with what it read, and what it has spawned was made with
  that. The args it has read may no longer be the settings' (`PublishedHasArgs` above).
- `WorkspacesShare`: `Spec => []OneProcessPerBin`. `Unshared`: a connection
  has not passed over a running process of the binary it wants, and none with that
  binary enters the map while it spawns.
- `TurnsAreSpared` and `OneMakingIsLeft`, without reviews: `Spec => SwitchSparesTurns` and
  `Spec => SwitchLeavesOneMaking`. `TurnsMarked`: a turn
  under way is marked at its runtime, so the look at the markers sees it.
  `SwitchQuiet`: from the look at the runtimes to their end, under the closed gate,
  none of what the switch is about to end has a turn or is about to get one.
  `SwitchMade`: what the switch leaves in the map was made with what it publishes. A
  review takes no gate, so its marker may appear in between.
- `NothingStrays`: `Spec => []NoStrays`. `StrayInv`: a process that runs is in the map,
  in the pool, or owned by a call (`Reachable`); the place a connection or a start
  will put it in is free until then (`PlacesFree`, `PlacesKept`), and what a switch
  has spawned is in no place yet (`AllFresh`). The processes that a switch published
  to an empty map are set aside in `unclaimed`, history.

Only model-checked: liveness and fairness, which are out of the prover's reach, and
`ShownGrows` of `ThreadItems`. One delta takes nothing back (`DeltaLengthens`); the
property is about what folds over two buffers of them make of a text, step after step,
and about reads merged in between (induction over data). The modules' type invariants
are definitions a reader may check; where a theorem or a run does not name them,
they served while the modules were written.

## Not modelled

- *Interruption in the backend* (`wait_for_turn_inactive`) and a process that
  stops reading its stdin: a loop of polls with a timeout around calls that
  `AppServerSession` already has.
- *Events from the daemon*: the broadcast channel and its lag, and the live
  connection of the frontend that reads the gap event.
- *Session manager*: scans and rewrites of transcript files. Its ledger is
  replaced by the same two renames as `SidecarFile`; the deletion against running
  threads is not modelled.
- *Installer migration*: a journal with recovery after each phase, most of whose
  steps are services of Windows; it shares no state with the rest.
- *Gemini runtime*: a second JSON-RPC client of the shape of `AppServerSession`.
- *Advice of the router, workflow gates, subagent policy, computer control*:
  functions of documents, without state between calls.
- *Provider profiles, gateway, configuration sync, updates, storage, dictation,
  terminal, git, prompts, rules, files, usage, desktop shell, the RPC tables of
  the daemon*: I/O, formats, generated tables or one child process each.
- *The rest of the frontend* (views, settings, strings, the thread list): the
  larger part of the source by lines. It is presentation, of which TLA+ has
  little to say; the mapped lines are a small share of the repository for this
  reason.
