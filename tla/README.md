# Verification of tddy-coder's core

TLA+ models of the parts of tddy-coder whose correctness depends on the order
in which things happen: the privileged supervisor that owns every process, the
registry of background tasks with its live list, the registry that holds an
agent's permission question until somebody answers, the credentials that
daemons offer one another, and the RPC host of the desktop's page. TLC checks
them on small instances; TLAPS proves every safety property that the passing
runs check, and the refinement, for every instance.

## The system

| Component | State | Operations | Hard because |
|---|---|---|---|
| Supervisor: children (`reaper.rs`, `lib.rs`, `fork_broker.rs`) | kernel processes, `spawn_gate` | fork, exit, SIGCHLD, drain | signals coalesce, pids are reused, a reap can race a fork |
| Supervisor: services (`supervisor.rs`, `services.rs`, `service_restart.rs`, `restart.rs`) | one `ServiceRuntime` per slot, timers, `shutting_down` | boot, start, exit, backoff, operator start/stop, shutdown | starts, timers and requests are separate tasks that nothing ties together |
| Supervisor: sessions (`session_table.rs`) | records by pid, generations, exited queue, scopes | spawn, exit, status, wait, stop and delayed kill, scope reclaim | callers name a session by a pid that is reissued |
| Task registry (`tddy-task`) and list stream (`task_service.rs`, `useTaskListStream.ts`) | task map, statuses, bounded broadcast, browser map | spawn, body, exit monitor, eviction, TTL, subscribe, forward, reconnect | list and events are not read atomically; a receiver can lag or break |
| Permission answers (`tddy-session-activity`) | held hooks, answers, answered memory, `pending-question.json` | report, await, answer, clear | a deadline races an answer; the file has no lock |
| Credential sync (`tddy-credential-sync`, `credential_sync.rs`, the vault) | vault, memory of acknowledgements, journal, roster | watch, publish, receive, local writes, removals and reset | clocks disagree, calls fail with their payload on the way, nothing but the vault survives a crash, and a vault can be reset |
| RPC host (`multi_host.rs`, `server_engine.rs`) | connections by epoch, sessions, collected calls, forwards, response queues | connect, frame, disconnect, reap, drain | a frame can wait with a lock held; three parties release a connection |
| Workflow engine, control lease, task channels, other RPC transports | see the plan | | not modelled yet |
| Backends, sandboxes, UIs, integrations, code tools | | | I/O, presentation and sequential tools; not modelled |

The supervisor forks services (the daemon among them) and, at the daemon's
request, sessions; both kinds of children go through one gate and one reaper.
The daemon runs tasks in its registry and streams their list to browsers. An
agent in a session reports questions to the daemon through hooks and is held
there until the session's orchestrator answers. Daemons that share a room copy
credentials to one another, and the desktop application's page talks to its
services through the RPC host.

What makes each part correct:

* children: a reaped pid is always attributed to the owner that forked it;
* services: no service is lost between exits, timers and requests, the restart
  budget is exact, shutdown returns;
* sessions: the table agrees with the kernel about who runs, reports the right
  exit of the right incarnation, forgets only what it may, wakes every waiter,
  and never acts on a later session for an earlier one;
* tasks: only ended tasks leave, the cap holds, a watcher's list converges;
* answers: an accepted answer is the one the hook gets, a request is answered
  once, no hook is held for ever;
* credentials: one never leaves its group, and a daemon that stops sending a
  slot to a peer does so only because the peer holds it or something later, or
  had it until its vault was reset;
* RPC: releasing a connection leaves nothing of it behind and nothing of another
  connection touched, and no frame or release waits for ever.

## Modules

| Module | Models |
|---|---|
| `Children` | processes, SIGCHLD, the gate, the drain: operators that the owners conjoin with their own steps |
| `Services` | EXTENDS `Children`: boot, starts, restarts, requests, shutdown |
| `SessionTable` | EXTENDS `Children`: sessions, stops, waits, scopes |
| `SessionLedger` | abstract specification: what a caller is promised about a session by pid |
| `TaskRegistry` | the registry, the exit monitors, the broadcast channel, the stream and the browser's map |
| `PendingAnswers` | status reports, held hooks, answers, the file |
| `CredentialSync` | the vaults, the room, the watch, publish, receive |
| `WebviewHost` | the page, the host's map, an engine per connection, forwards and handlers, the drain, the three ways a connection is released |
| `MCServices`, `MCSessions`, `MCTasks`, `MCAnswers`, `MCCredentials`, `MCWebview` | instances for TLC |
| `ServicesProofs`, `SessionProofs`, `LedgerProofs`, `SyncProofs`, `AnswersProofs`, `TasksProofs`, `WebviewProofs` | theorems |

A definition named after a method (`record_exit`, `stop_session`,
`evict_over_cap`, `answer_with_message`) is that method. A method that can be
overtaken, because it awaits, unlocks, or is a task of its own, is one action
per uninterrupted piece; the comment on each action says which piece. Some
choices deserve a note.

*The gate.* `spawn_gate` is held from the fork to the recording of the pid, and
by a reap from the drain to the last attribution. `gate` names the holder;
`reaped` is the drained batch. An exit, a pid's reuse and every request can
happen while it is held.

*Ghost state.* `SessionTable` carries `inc` (the incarnation that holds a pid)
and `fate` (what became of each): the truth that the table is compared with.
`PendingAnswers` carries `accepted` (which answerers were told "delivered") and
`TaskRegistry` `gaps`. `CredentialSync` carries `stamps` and `orderly` (whether
the writes of a slot bear different seconds and each is later than what it
replaced) and `lost` (the latest stamp that resets took from a slot),
`PendingAnswers` `uncleared` (answered requests whose clean-up failed),
`WebviewHost` `overlapped` (the frames that were inside `on_request` when their
connection was being released). No guard reads them.

*Clocks.* A write in `CredentialSync` is stamped with any second: the machines'
clocks need not agree, nor go forward. The comment on `_acknowledged`
(`engine.rs:105-106`) takes it for granted that a new write has a new, later
`written_at`; `AckedIsHeld` and `AgreeWhenNothingToSend` state it as their
premise (`orderly`), because a second write in the same second, or after the
clock was set back, is taken for acknowledged and not sent until the next one.

*A vault's reset.* When its passphrase is forgotten, a vault's file is set aside
and a new one begun with the records of the logins that wait for it
(`vault.rs:223-242`, `sessions.rs:320-337`). `reset` may happen to any daemon at
any time, with any logins waiting: the conditions under which the code refuses
it (the vault is open, no fresh login, too many files set aside) are the
environment's. The peers are not told. They keep `_acknowledged`
(`engine.rs:97-109`), so that they do not send again what the reset daemon has
lost, until the slot is written anew or they restart. `AckedIsHeld`,
`AgreeWhenNothingToSend` and `JournalIsTrue` except exactly that (`lost`,
`LostSince`); none of them holds without the exception. No line of the
repository says what a reset means for the peers.

*Clean-up that fails.* The answer to a question is delivered before the file is
looked at. A read that fails and a removal that fails are logged, and the
question stays until a later status report (`answers.rs:14-17`, `:324-338`):
`ClearReads` and `ClearRemoves` have those branches, which set `uncleared`. A
notification may fail to write the file as well.

*A release from lock to lock.* `on_peer_disconnected` locks three maps one after
the other, and `abort_all` unlocks the registry before it aborts and awaits the
handles it took: `DropsSessions`, `DropsPending`, `TakesForwards`, one
`AbortsForward` per handle, `ReleaseReturns`. A forward goes on until its turn
comes and may end on its own first. The drain and a disconnect or reap of the
same connection can be at different stages of it.

*What the ledger forgets.* `SessionLedger` says which exits a status is kept
through: a session is forgotten exactly when `Retained` later ones have ended
while nobody reissued its pid (`Outlived`), which the table does with a queue
(`session_table.rs:131-136`).

*One engine per connection.* `lock[c]` is `active_bidi_sessions`, the one lock of
`ServerEngine` that is held across an await. The other maps are locked within
one action. A forward and the handler it runs bear the name of the frame that
spawned them.

### What the modules leave out

Log lines, error texts, formats and durations. A timer fires at any later
moment. `Services` treats the uptime that restores a retry budget as a free
choice. A scope's removal may succeed, fail or find the scope populated; its
path is not modelled. In `Services` all children are services and in
`SessionTable` all are sessions. In `TaskRegistry` a task's creation time is a
number from a set, which the run gives one element (see Bounds). In
`PendingAnswers` one session's file and requests are modelled (sessions share
only the map, under distinct ids), checks on credentials and options are
refusals that change nothing, a report or a read of the file by an answer that
fails is one too, and the activity log, notifications and the
elicitation flag are left out. A notification that finds a question on file
changes nothing: a permission's question always has a text
(`pending_question_record.rs:56-62`), so the branch that rewrites an empty one
belongs to the AskUserQuestion kind. (A notification that finds none and writes
its bare message may overwrite a question recorded in between; the model has
that, and nothing promises otherwise.) In `CredentialSync` encryption and
signatures are left out: a daemon's signature verifies, and a directory that
does not have a peer's key is `Refuses`' free choice. The service that receives
is not mounted by the daemon yet; that its caller retains what `receive` returns
is external to the source. A room that is lost without a crash and payloads
that do not parse are left out. In `WebviewHost` the contents of messages are
left out, a request id is not reused after its last frame, and a page that is
gone is one that refuses a response.

## Runs

| Run | Result | Shows |
|---|---|---|
| `services` | holds | `TypeOK`, `NeverForgotten`, `PidAbsentWhileDown`, `SlotPidIsLive`, `RestartsNeverOverlap`, `GivesUpAtTheCeiling`; under fairness `ExitIsNoticed`, `BackoffEnds`, `ShutdownReturns` |
| `services_stop` | violated | `StopSuppressesRestart` |
| `services_twin` | violated | `EveryChildIsClaimed` |
| `sessions` | holds | `TypeOK`, `TableMatchesKernel`, `ReportedIsTrue`, `QueueIsExact`, `NoLostWakeup`, `ScopesAreOfTheRunning`, refinement of `SessionLedger`; under fairness `StoppedSessionEnds` |
| `sessions_kill` | violated | `KillHitsItsSession` |
| `tasks` | holds | `TypeOK`, `CapIsKept`, `WatcherMissesNothing`, `OnlyTheEndedLeave`; under fairness `EndedTasksLeave`, `GhostsVanish` |
| `tasks_reopened` | violated | `ReopenedListIsLive` |
| `answers` | holds | `TypeOK`, `AcceptedIsReceived`, `FirstAnswerWins`, `EndedWaitIsClosed`, `MemoryIsExact`; under fairness `HoldEnds`, `AnsweredIsCleared` |
| `answers_clear` | violated | `ClearSparesTheNext` |
| `credentials` | holds | `TypeOK`, `StaysInTheGroup`, `AckedIsHeld`, `AgreeWhenNothingToSend`, `JournalIsTrue` |
| `rpc` | holds | `TypeOK`, `SuccessorKeepsServing`, `NothingOutlivesRelease`; under fairness `FrameReturns`, `ReleaseCompletes` |
| `rpc_reap` | violated | `ReapCompletes` |

All runs say `CHECK_DEADLOCK FALSE`: a supervisor that has shut down, a registry
whose tasks are gone, a daemon with no requests left and a page that sends
nothing more really stop.

### Disagreements between the code and what it says

* `services_stop`: a stop of a service in Backoff sets a flag that its restart
  timer does not read; the service is started although its restart policy is
  said to be suppressed (`services.rs:98`). The flag then suppresses the restart
  after that process's exit instead.
* `services_twin`: `StartService` while a restart is pending or in flight starts
  a second process; the slot keeps the later pid, and the earlier process is in
  nobody's account, shutdown's included (`session_table.rs:213-215`).
* `sessions_kill`: the SIGKILL after the grace period is sent after the lock
  under which the generation was compared (`session_table.rs:165-166`).
* `tasks_reopened`: the browser's map survives a reconnect and is never pruned.
* `answers_clear`: the pending question is compared and removed in two unlocked
  steps (`answers.rs:319-321`).
* `rpc_reap`: `route_bidi_continuation` awaits room in a handler's input with the
  map of sessions locked. If the page refuses a response meanwhile, the drain
  waits for that lock and drains nothing; once the response queue is full the
  handler's forward is parked and its input stays full. Frame, handler, drain and
  the reap then wait for one another, and the reap is what the main thread is in
  (`tddy-desktop/src-tauri/src/lib.rs:185-186` says that it completes). It takes a
  handler that stops reading while its output is not taken.

More show in the statement of a property that holds:

* the stamps above, and what a reset takes;
* the doc of `on_peer_disconnected` (`server_engine.rs:224-225`) does not except
  the frames inside `on_request` meanwhile, which `NothingOutlivesRelease` does;
* "once this returns no forward of that peer can publish anything further"
  (`server_engine.rs:86-87`, and `:224-225`) holds of the release that took the
  handles only. If the page refuses a response while it disconnects, the drain
  (`multi_host.rs:319`) and the disconnect (`:255`) both release the connection;
  the one that comes second to `abort_all` finds no handles and returns while the
  first still has forwards to abort. `NothingOutlivesRelease` says that a forward
  which outlives a release so is in the hand of another that will abort it before
  it returns itself;
* a continuation that overtakes its opening frame is collected as a call of its
  own.

### Bounds

Constants that bound a model and not the code: `MaxStartReqs`, `MaxSpawns`,
`MaxRequests`, `MaxReconnects`, `MaxTime`, `MaxWrites`, `MaxCrashes`, `MaxConns`,
`MaxFrames`, `MaxCalls`, and the sizes of the sets.

* `services` (57 019 states): one retry separates the first exit, the last
  restart and the give-up; two pids are enough for one to be reused while another
  child lives. The proofs cover any number of services.
* `sessions` (182 908): three pids, three incarnations and a retention of 2 (256
  in the code), so that a pid is reissued while its exit is retained, in front of
  another exit or behind it, and that a third exit evicts the oldest of two; two
  exit statuses tell incarnations apart. One stop, kill or wait is under way at a
  time (`MaxRequests`), two of the spawns come with a scope (`Scoped`), and of the
  pids that were never used a spawn gets the lowest (`MCNext`), which differ in
  nothing but their names. The proofs, the refinement included, are free of all
  of this.
* `tasks` (432 578): two tasks with a cap of 1 (200) make evictions by one's own
  and by the other's monitor happen; a backlog of 1 (256) lags at once. `Time` has
  one element: the two tasks tie, which leaves the victim open.
* `answers` (568 144): two requests with a memory of 1 (1024) make the registry
  forget an answer while a second answerer still holds the request; two calls
  allow both one call per request and a re-open. With a memory of 1 the queue
  cannot repeat an entry: that part of `MemoryIsExact` is the theorem's, which
  holds for any limit.
* `credentials` (3 214 752, up to the symmetry of daemons and secrets): two
  daemons, a slot of a linked account and one of a login; three writes or resets
  are needed for a conflict, for a write that overtakes its own acknowledgement,
  and for a reset between a write that was acknowledged and another; two seconds
  for equal, earlier and later stamps; one crash at any point. All its properties
  are proved for any sizes.
* `rpc` (305 043): two epochs, two connections and two frames, of which the page
  uses three in all (`MaxCalls`): a connection and its successor with one frame,
  or a connection with two. Queues of one are full at once (64 and 256 in the code); a
  bidirectional call with two frames waits for room, which is all a third frame
  could do.

Symmetry is used only in runs without liveness.

### Fairness

Weak fairness on the pieces of tasks the runtime has spawned: it polls every
ready task. Strong fairness where a task waits for `spawn_gate`, a tokio mutex,
which is granted in the order it is asked for. A process that was sent SIGKILL
dies; one that was sent SIGTERM may ignore it. A wait's deadline passes
(`tokio::time::timeout`). A stream is drained and reopened, because the hook
loops. In `WebviewHost` every task of the runtime that can go on does; that a
handler reads its input again and again (strong fairness on `HandlerReads`) is
an assumption on the services behind the engine, without which a frame would
wait for ever for room. Nothing forces an operator to ask, a body to end, an
orchestrator to answer, a page to send, a handler to produce or to end, or a
shutdown to begin. `CredentialSync` has no liveness property: the watch
publishes on arrivals only, so that a publish that failed is not tried again
until somebody joins, and the code promises nothing else.

## Proofs

The proof modules show, for all values of the constants under the named
`ASSUME`s (sentinels are not members of the sets they stand beside, bounds are
naturals, there is at least one service, at least one exit and one answer are retained, exit
codes are not the names of other states):

| Theorem | Property |
|---|---|
| `ServicesProofs!TypeCorrect` | `TypeOK` |
| `ServicesProofs!SlotPidsAreLive` | `SlotPidIsLive` |
| `ServicesProofs!ServicesAreNeverForgotten` | `NeverForgotten` |
| `ServicesProofs!RestartsDoNotOverlap` | `RestartsNeverOverlap` |
| `ServicesProofs!DownServicesHaveNoPid` | `PidAbsentWhileDown` |
| `ServicesProofs!GiveUpIsAtTheCeiling` | `GivesUpAtTheCeiling`, an action property |
| `SessionProofs!TypeCorrect` | `TypeOK` |
| `SessionProofs!TableTracksKernel` | `TableMatchesKernel` |
| `SessionProofs!ReportsAreTrue` | `ReportedIsTrue` |
| `SessionProofs!QueueStaysExact` | `QueueIsExact` |
| `SessionProofs!WakeupsAreNotLost` | `NoLostWakeup` |
| `LedgerProofs!TableImplementsLedger` | `LedgerSpec`, the refinement |
| `LedgerProofs!ScopesFollowSessions` | `ScopesAreOfTheRunning` |
| `SyncProofs!TypeCorrect` | `TypeOK` |
| `SyncProofs!CredentialsStayInTheGroup` | `StaysInTheGroup` |
| `SyncProofs!AcknowledgedIsHeld` | `AckedIsHeld` |
| `SyncProofs!QuietPeersAgree` | `AgreeWhenNothingToSend` |
| `SyncProofs!JournalStaysTrue` | `JournalIsTrue` |
| `AnswersProofs!TypeCorrect` | `TypeOK` |
| `AnswersProofs!AcceptedAnswersArrive` | `AcceptedIsReceived` |
| `AnswersProofs!OneAnswerWins` | `FirstAnswerWins` |
| `AnswersProofs!EndedWaitsAreClosed` | `EndedWaitIsClosed` |
| `AnswersProofs!MemoryStaysExact` | `MemoryIsExact` |
| `TasksProofs!TypeCorrect` | `TypeOK` |
| `TasksProofs!RunningTasksStay` | `OnlyTheEndedLeave`, an action property |
| `TasksProofs!CapHolds` | `CapIsKept` |
| `TasksProofs!WatchersMissNothing` | `WatcherMissesNothing` |
| `WebviewProofs!TypeCorrect` | `TypeOK` |
| `WebviewProofs!SuccessorsAreSpared` | `SuccessorKeepsServing` |
| `WebviewProofs!ReleaseIsComplete` | `NothingOutlivesRelease` |

Hardly any of these invariants is inductive alone. For the services, that a slot's
pid is live needs that the gate's holder is known: a start has forked only
while it holds the gate, only the holder has a batch, and a forked pid is a
child. That restarts do not overlap needs `AttributeExit` to find a pid in at
most one slot. The ceiling (`BudgetInv`) is looked up in `record_exit` alone; the
other actions leave the count alone or put it back to zero. For the sessions, `TableMatchesKernel` needs the same facts about
the gate, that generations are handed out in step with the incarnations, and
that a batch's pids still have running records; `QueueIsExact` needs that
`Retain` removes exactly one occurrence and that an eviction never meets a
running pid, which in turn is `TableMatchesKernel`. `NoLostWakeup` rests on the
order in which a wait registers and reads. Every action has one step per
conjunct it can disturb; facts about sequences and the drain are lemmas.

The refinement (`LedgerProofs`) maps the table's answers to the ledger's, and the
sessions behind a pid in the queue of exited ones (`Behind`) to the ones that
ended later. Its hard step is `SessionExitRecorded`: the head of a full queue is
the one session with `Retained` - 1 others behind it, because by `QueueIsExact`
the queue holds each exited session once; so what the table evicts is exactly
what the ledger forgets, and the rest move up. A spawn that takes a pid out of
the middle of the queue has to keep the order of those around it.

For the sync, what holds of a vault has to hold of its copies on the way: the
snapshot of a publish, the payload of a call and of a call its sender gave up.
`GroupInv` says so of the group, `StampInv` that each copy stems from a write
and that orderly stamps tell the writes apart, `AnswerInv` that an answer not
yet recorded is about what the peer holds by now, or lost in a reset. The lemmas `VaultStep`,
`EntriesStep`, `CallStep`, `LateStep`, `AckedStep` and `JournalStep` say what any
step may do to one part of the state; the invariants follow from them without a
further look at the actions. `VaultGrows` says that what a slot held it holds, or
something later, or it counts as lost: a reset is the only step by which a slot's
stamp goes down while the stamps are orderly. `QuietPeersAgree` combines
`AckedIsHeld` in both directions, which makes the stamps equal where nothing was
lost since, with `StampInv`.

For the answers, `RequestInv` says where a request's entry is at each stage of
the one call about it: settled before the open and after the wait; open, or
already answered with the answer left for the wait (`OpenOrLeft`); held with its
wake-up registered, or taken with the answer in the channel (`HeldOrTaken`, which
the deadline and a hook that goes away do not disturb). It follows the answer
itself on its way, from `answer_with_message` to what the wait returns. The three invariants
about a request are read off it. They hold of a request with one call (`Alone`):
a call never ceases to be about its request, so that a request with one call
after a step had at most one before it. `MemoryIsExact` is about the registry alone and
holds for any calls; the lemma `Remembers` follows the queue through an eviction.

For the tasks, `LifeInv` ties a task's status, body and monitor together: a
monitor that is past its loop has seen an end, and an end is final. So a task
that the TTL removes has ended, and one that an eviction removes was picked among
the ended. `CapInv` counts the ended tasks whose monitor has evicted
(`Settled`): an eviction leaves at most `Cap` ended tasks of any kind,
and a task becomes settled only by evicting. It also says that the registry is
finite, so that the cardinalities mean something for an infinite set of tasks
too. `WatcherMissesNothing` needs two more. `GoneInv`: whatever is, or will be,
announced as removed is gone for good, so that a late `Removed` never hides a
task. `CoverInv` extends the property to a stream that still replays its
snapshot. A monitor at the top of its loop counts as news only if it is certain
to announce (it will find the end, or has yet to be woken for this status):
counting every monitor at the top would not be inductive, since one that finds
nothing new goes to sleep in silence.

For the RPC host, `FrameInv` says that a sent frame has a connection that was
opened, and that the session a blocked frame waits on is still there, which
holds because the blocked frame keeps the map of sessions locked. `MapInv`: a
connection in the map is there under its own epoch, drains, and nobody releases
it. With it `SuccessorKeepsServing` is inductive. `ForwardInv`: a forward that
runs is registered under its frame's connection or its handle was taken, only a frame that has returned
has one, and the frames in `overlapped` keep their connection and call.
`ReleaseInv` has a clause for each stage of `on_peer_disconnected`, whoever runs
it: after the sessions were dropped, the frames inside `on_request` and the
sessions left are of `overlapped` frames; after the collected calls were dropped,
so are those; after the handles were taken, so are the registered forwards.
`TakenInv`: a handle that was taken is in the hand of a release of its frame's
connection that is still aborting, which stays so because a release returns only
with no handle left. The clauses stay true because by `MapInv` no further frame is routed
to a connection that is being released, and what an overlapped frame adds is its
own (`AddsOverlapped`). The
drain's own end needs a release that is done.

Only model-checked: liveness under fairness, which is out of the prover's reach
(`ExitIsNoticed`, `BackoffEnds`, `ShutdownReturns`, `StoppedSessionEnds`,
`EndedTasksLeave`, `GhostsVanish`, `HoldEnds`, `AnsweredIsCleared`,
`FrameReturns`, `ReleaseCompletes`), and the properties that are violated.

## Plan

Done: `Children`, `Services`, `SessionTable`, `SessionLedger`, `TaskRegistry`,
`PendingAnswers`, `CredentialSync`, `WebviewHost` and the proofs above. Next, in
this order:

1. Proofs: abstract specifications for the permission registry (a request as a
   cell that is answered once) and for the page's host (a connection that serves
   and then does not), and that the models implement them.
2. `TaskEscalation`: `cancel_task`, the grace period, the child pids.
3. A `Supervisor` that composes services and sessions under one gate, with
   shutdown over both and the cgroup scopes by name.
4. The AskUserQuestion registry, and two waits on one request id.
5. `FlowRunner`, the control lease, the acknowledged offsets of a task channel,
   the client engine.

## Not modelled

The repository has some 460 000 lines of implementation; most of it is terminal
and web presentation, prompts and recipes, sandboxes and launchers that set up
processes and namespaces in sequence, parsers of the streams of external
programs, clients of external services, and tools over source text. Their state
does not depend on an order of events that a model checker could vary, or the
order is an external program's. The models are of the parts where processes,
tasks, messages and failures meet, which are small. Of those, `FlowRunner`, the
control lease, task channels, the escalation of a cancelled task and the LiveKit
and stdio transports are left (see the plan).
