# A TLA+ model of sublinkPro

sublinkPro is a self-hosted server for proxy subscriptions: it imports nodes
from subscriptions ("airports"), checks them on schedules and on demand, groups
and rewrites them for clients, and runs SOCKS5 and HTTP listeners that send
traffic out through them. Most of the program is sequential: database records
behind HTTP handlers, parsers and renderers of share links. What is hard about
it is the small concurrent core: goroutines that share an outbound pool, a map
of listeners, a task table, a concurrency limit and the "who is checking what"
maps, with locks that are given up between a look and the act that depends on
it; and, at the other end of the wire, the pages of the web client, which ask
again while older answers are on their way.

This directory models those two. Each module is written from the Go or
JavaScript code it names; `PROJECT.json` maps every definition to the lines it stands for.

## Inventory

| Component | State | Operations | Hard part | What makes it correct |
|---|---|---|---|---|
| Outbound adapter pool (`services/socks5/adapter_pool.go`) | map from node and link version to entry; LRU list; per entry a reference count, `retired`, `closed` | acquire, release, Close of a pooled connection, pool close | adapters are closed after the unlock, releases come from any goroutine, entries leave the map while in use | never closed in use, never twice, never forgotten; bounded |
| Task manager (`services/task_manager.go`, `models/task.go`) | running table, database row and cache entry of each task | create, report, end (three ways), delayed removal, zombie scan, clean-up of old rows with the cache reload it starts, recovery at start | three copies, removal half a second after the end, failing writes, a reload without a lock, crashes | no task runs for ever on the task page; a status is final once the task has left memory |
| Concurrency controller (`services/adaptive_concurrency.go`) | limit, active count, condition variable | AcquireDynamic, ReleaseDynamic, MaybeAdjust | a release without the mutex of the condition; the limit moves while tests run | admissions respect the limit; the dispatcher wakes up |
| Speed-test run (`services/scheduler/speedtest_task.go`) | flags, counts, results, slots, a wait group | two phases of one goroutine per node, final check, save, complete | cancellation at any point; a dispatcher that can miss its wake-up | all or nothing is saved; slots come back; the run ends, unless the last wake-up was missed |
| Node check jobs (`services/scheduler/node_check_jobs.go`) | slot per job with the events that wait | StartNodeCheckJob, the runner's loop, save and delete of the job | triggers meet the end of a run, panics, edits | runs do not overlap; accepted events are checked; the slot is released |
| Smart group checks (`services/scheduler/smart_group_task.go`) | reserved groups with the updates that wait | start of one group, start after an update, batches by profile | reservations of several goroutines, follow-up goroutines, batches that release one by one | the same, for many groups in one goroutine |
| SOCKS5 listeners and sessions (`services/socks5/socks5.go`, `session_registry.go`, `listeners.go`, `api/socks5.go`) | session registry, count of connections, map of listeners, stored settings | Serve, registration, Close, Apply with eviction, restore and rollback, Stop | a connection accepted while the server closes; the map swapped without the lock; binds that fail half-way | an open listener can be found and closed; a closed server has no session; the map is what the settings say |
| Node health and routing (`router.go`, `health_monitor.go`, `sticky_sessions.go`) | per node failures, cooldown, probe in flight; bindings | record result, probe, sweep, rank, bind | probe and traffic report the same node | one probe at a time; cooldowns are kept |
| Cron scheduler (`services/scheduler/manager.go`) | cron entries per airport, group, job | add, update, remove, reload | database read and entry map update are not atomic | entries agree with the database |
| Progress broker (`services/sse/sse.go`, `api/sse.go`) | bounded channel, clients | register, broadcast, forward, drop | blocking senders that hold other locks; full client channels | nobody waits for ever |
| Entity caches (`cache/`, `models/`) | map with secondary indexes next to the database | get, set, delete, load all | write-through without a common lock | the cache agrees with the row |
| Template edit sessions (`services/ai/template_edit_session_store.go`, `api/template.go`) | sessions with status and expiry | create, update, apply, discard, expire | a stream, accepts, discards and expiry update one session | an end is final |
| Cloudflare tunnel (`services/cloudflared`) | child process, persisted enabled flag | start, stop, wait | flag and process are changed apart | one child; the flag tells the truth |
| Web client: session and stream (`webs/src/contexts/AuthContext.jsx`, `api/request.js`) | token shared between tabs, login state, event source, two timers | login with its second factor, logout, refusal, reconnection | events of an old stream or timer after a logout; a token removed by another tab | signed out is quiet, signed in listens |
| Web client: task panel (`contexts/TaskProgressContext.jsx`, `components/TaskProgressPanel.jsx`, `settings/components/BackupSettings.jsx`) | entries, cleanup timers, the task a restore waits for | handle an event, stop, restore | dropped final events; an answer after the event it announces | what outlives its task has a known cause |
| Web client: node list, check centre, smart groups (`views/nodes`, `views/node-check`, `views/smart-groups`) | rows, filters, requests under way, timers, dialogs | debounced filters, paging, batch edits, polling, member dialogs | answers out of order | the page shows what it was last asked for |
| Web client: template editor (`views/templates/index.jsx`) | form, candidate, requests under way | edit, generate, compare, accept, discard, convert, save, close | late answers meet a newer text or another template | a candidate replaces its base |
| Everything else | database records | HTTP handlers, import, parsers, renderers, bots, backup, migration, other pages | I/O and formatting | listed in `PROJECT.json` with the reason it is left out |

How they interact. A cron entry, a click or a finished import starts a node
check job or a smart group check; either runs `RunSpeedTestWithConfig`, which
creates a task in the task manager, admits its tests through the concurrency
controller and reports progress to the task manager, which broadcasts it
through the SSE broker. The user cancels through the task manager, which
cancels the context the run watches. A tab of the web client listens to the
broker and sends its stops back. The settings handlers replace the SOCKS5
listeners, whose sessions dial, like the health monitor's probes, through the
adapter pool. Nothing else is shared: the
components meet at calls, so each is modelled with its callers' steps as
nondeterministic actions, and what one component relies on is asked of the
other. The weak point is the end of a run: `NodeCheckJobs` and
`SmartGroupChecks` assume that a run they have started ends, and
`SpeedTest!EndsOrOversleeps` shows that it does unless the dispatcher of an
adaptive phase misses the last wake-up. Then the slot or the groups stay taken
until the process ends.

## Modules

| Module | Models | State | Notes |
|---|---|---|---|
| `AdapterLeases` | abstract: what users of the pool rely on | life of each adapter, adapter of each user | an adapter is handed out live, and closed only when nobody uses it |
| `AdapterPool` | adapter pool, `dialWithPool`, the probe's use of it | as in the code; the LRU list is `lastUsed`, adapters on their way to `closeAdapters` are `pending` | implements `AdapterLeases` |
| `Listeners` | `Manager` with its servers and sessions, the settings handlers that call it | the map objects the code's variables point to, runtimes, how far each `Server.Close` and `serveRuntime` is, connections, a program counter for each handler | a Go map is shared by whoever has read it, so a map is an index into `maps`; a runtime that the map it read has lost since counts as new and is served once more (`more`) |
| `TaskManager` | task manager, task rows, task cache | `mem`, `db`, `cache`, worker, timers as `removers`, `zombies`; `caching` (the row is written, the cache not yet), `reload` (a goroutine in `InitTaskCache` with the rows it has read) | `Crash` and the two start-up calls in main.go's order; `ClearTaskHistory` with any date; `overtaken` records that a task was cached by a reload that missed a later write |
| `ConcurrencyController` | the controller with the dispatcher and the tests it admits | `current`, `active`, program counter of the dispatcher | a `sync.Cond` with the window between test and Wait |
| `SpeedTest` | one run | flags, counters, per node the state of its goroutine | a phase has fixed or adaptive slots; with adaptive ones `limit` moves as the controller's may, and the dispatcher can be on its way into `Wait` (`adding`) when a released slot is broadcast |
| `CoalescedRuns` | abstract: runs per target that never overlap, events that are kept for a later run | `takes`, `runners`, `owed` | |
| `NodeCheckJobs` | one owner per job with a loop | slot, runner, pending events | implements `CoalescedRuns` |
| `SmartGroupChecks` | batches of reserved groups | reserved, pending, goroutines | implements `CoalescedRuns` |
| `SessionStream` | a tab's login state and event stream, the broker and the SSE handler | token, timers, event source, the two buffers | one tab; other tabs change the token |
| `TaskPanel` | the task panel and the restore form | entries, timers, the two requests | composed by `LiveTasks` |
| `LiveTasks` | tab and server together | the above and each task's life on the server | `missed`, `cleaned` and `early` record why an entry may outlive its task |
| `NodesPage`, `NodeCheckPage`, `SmartGroupsPage` | one page each | controls, rows, requests under way, timers | |
| `TemplateSessions` | the server's edit sessions | status and stream of each | extended by `TemplateEditor` |
| `TemplateEditor` | the editor dialog with the assistant | form, candidate, requests, server handlers still running | |
| `WebPages` | the router | the mounted page | mounts one page; pages share no state |
| `...Proofs` | theorems about the module of that name | | TLAPS |

An action is what the code does under one lock or between two points at which
another goroutine can act; its comment names the function. Where the code
unlocks and then acts, the act is another action: `CloseAdapter` after
`Retire`, `Broadcast` after `ReleaseSlot`, `StartCall` after `PassChecks`,
`DeleteJob` after `BeginDelete`, `Publish` after `ReadOld`, `LoadAll` after
`ReadRows`, and `SetCache` after the row is written, since a reload of the cache
takes no lock of the task manager; `ReleaseConn` of
several goroutines that reach `sync.Once` together. In the web client an action
is one turn of the event loop: a click, a timer, an answer, an event of the
stream, with the state updates and effects that follow it. Operators that a comment calls a mutant belong to
no specification: they are plausible errors of the action they follow, which
show that the properties would notice.

Node contents, link texts, messages and timestamps are abstracted: a link is a
version, a message is left out, time is the nondeterministic firing of a timer.

## Runs

Passing runs:

| Run | States | Question |
|---|---|---|
| `adapter_pool` | 291 946 | Can an adapter be closed in use, twice, or never? `PoolBounded` is the pool's size and the replacement of old versions, `ImplementsLeases` the refinement, `AllClosedAfterShutdown` shutdown |
| `task_manager` | 483 386 | For which reasons may a task's copies disagree (`CacheStaleHasACause`), is its end final, does it leave memory? |
| `concurrency` | 385 045 | Does the number of tests keep to what a limit that moves can reach, and is the dispatcher woken? `LowLimitStays` records a consequence of integer rounding: a limit of three or less never rises again |
| `speed_test` | 75 782 | What is saved, counted and reported under cancellation; does the run return its slots, and what can keep it from ending (`EndsOrOversleeps`)? |
| `node_check_jobs` | 50 517 | One owner per job, slot released after panics and edits, runs do not overlap, events of an undisturbed job are checked |
| `smart_groups` | 150 438 | The same for groups that share batches, with an edit and a database error |
| `socks_listeners` | 976 377 | Which listeners can the manager lose with their port still bound (`ForgottenHasACause`), can a session outlive its server (`ClosedServerHasNoSession`), do requests one at a time leave the map as stored (`SettledIsStored`)? |
| `live_tasks` | 305 955 | Is a signed-out tab quiet, does a signed-in one get its stream back, can a slow one hold up the server, and what is behind a panel entry or a restore form that never ends? |
| `web_pages` | 1 119 869 | Do the pages end up showing what they were last asked for, in whatever order answers come? Is the end of an edit session final? |

Runs that show a disagreement between the code and its own text:

| Run | What happens |
|---|---|
| `task_restart` | the cache is loaded before the running rows are marked as failed, so `GetByID` goes on saying "running" |
| `concurrency_wakeup` | `ReleaseDynamic` decrements and broadcasts without the mutex; both can fall between the waiter's test and its `Wait` |
| `node_check_edited` | an event merged into a run that is about to leave because its job was just edited is lost |

What still holds in spite of them is checked in the passing runs:
`CacheStaleHasACause` bounds the damage of the first. For the second,
`BusyWaiterIsWoken` says that a waiter only sleeps on if no test is active when
it parks: as long as one is, its end wakes the waiter. `EndsOrOversleeps` says
what comes of it: that sleep is the only thing that keeps a run from ending, and
a cancellation does not help, since it does not wake the dispatcher.

Some passing properties name their exceptions, and the exceptions are the
weak places of the code:

* `FinalOnceRemoved`: `CancelTask` answers that an ended task cannot be
  cancelled, but for half a second after its end the entry is still in the
  running table and is ended again, completed after cancelled or the reverse.
  Only from then on is the end final, and only while no stale cache, of a
  restart or of an overtaken reload, says that the task still runs.
* `CacheStaleHasACause`: apart from a call that has written the row and is about
  to write the cache, a cached task differs from its row after a restart that
  marked it as interrupted; after a clean-up whose date lies more than seven
  days back, so that the cache is not reloaded, or whose reload is still to come
  or has failed; and after a reload that read the table before the task's last write
  and replaced the cache after it. The last one can leave an ended task as
  running in the cache, and `CancelTask` then ends it again.
* `EndsOrOversleeps`: the missed wake-up of an adaptive phase.
* `ForgottenHasACause`: two requests that overlap work on the map they read,
  and the later publication drops what the earlier one put there, with the
  port still bound. A failed `Accept` closes the server and forgets the
  runtime, but closes neither the listener nor its context.
* `SettledIsStored`: a change of the shared settings that fails is not rolled
  back, so the stored settings are ahead of the listeners; so is the rollback of
  one listener if its port cannot be bound even then (`behind`). And a request
  that fails leaves closed runtimes in the map until each one's `serveRuntime`
  has taken it out: a rollback that comes sooner, or a request that sets the
  shared settings back, finds spec and settings unchanged, never looks whether
  the runtime is closed, and publishes it as running (`revived`).
* `StaleEntryHasACause` and `StuckRestoreHasACause`: a dropped final event, an
  answer to a stop that comes after the entry was removed, a restore that ends
  before the answer that names its task.
* `NodesListSettles`: after a batch edit the list is loaded with the filters of
  the render in which it was submitted.
* `CandidateReplacesItsBase`: a form that changes while an accept is on its way
  is overwritten by the answer, even if it is another template by then.
* `SignedInTabListens`: a tab whose token another tab removed stays deaf.

### Bounds

* Adapter pool: two nodes, two link versions, three adapters, two connections,
  a pool of one, four acquires, two goroutines that close the same connection.
  Adapters are built in a fixed order, since their names do not matter.
  A pool of one evicts at every change of node; two closers are what
  `sync.Once` has to tell apart; a third adapter is needed to replace one
  version while the other is still leased. A failed close or acquire depends on
  two users at most, and the proofs cover every value.
* Tasks: one, since tasks share no state but the reload, which treats each by
  itself; a total of zero or one, so that progress differs from it; one reload at
  a time, which is enough to be overtaken by any write; three removal
  timers (one per way to end a task), two crashes, so that a restart meets the
  leftovers of a restart. The proofs have any number of each.
* Controller: one and eight CPUs, 22 tasks: the smallest sizes at which every
  clamp (minimum, maximum, number of tasks) and every load class changes the
  limit.
* Speed test: three nodes and at most two slots, so that a third waits for a
  slot; one node can be skipped while another fails and another succeeds. Each
  phase chooses anew whether its slots are fixed or adaptive.
* Node checks: one job, since the slot map has one entry per job; two airports,
  two runner goroutines (an owner that has given up its slot and the next), one
  edit, one panic.
* Smart groups: two groups with a shared or separate profile, one airport, four
  goroutines, three starts: the third meets a group between a check and its
  follow-up.
* Listeners: two listener ids and two ports, so that a listener can want the
  other's; one disabled and two enabled forms of the shared settings, so that a
  listener can change behind its port, and be set back to what a closed runtime
  was made for. A listener's own settings beyond its port take the branches the
  shared ones take, and the proofs have them. Both listeners run at first, with
  two requests, which the symmetry of the run exchanges, as it does the two
  enabled forms; one connection; one failure of `Listen` or `Accept` of the
  environment's own (a port that is taken fails as often as it is tried). Seven
  names for runtimes are as many as these requests can open. A request that
  would store what is stored is left out: it reuses every runtime.
* Live tasks: one task, since tasks meet only in the buffers; buffers of one
  event, which are full as soon as anything waits; one restart; one end: a
  second one within the half second only starts a second cleanup timer, and the
  proofs cover any number.
* Web pages: two filters and two pages, two groups, two templates, two requests
  of a kind under way, which is what it takes for answers to cross; one edit
  session with one accept after another; one typed text; one change of the node
  table and two runs of the job.

`MaxClock`, `MaxClosers`, `MaxRemovers`, `MaxCrashes`, `MaxCalls`, `MaxEdits`,
`MaxPanics`, `MaxStarts`, `MaxErrors`, `MaxRestarts`, `MaxEnds`, `MaxVersion`,
`MaxRequests`, `MaxLoads`, `MaxRuns`, `MaxChecks`, `MaxLists` and `MaxMembers`
bound how often the environment acts
and appear only in guards. When they are used up the system may stop, so
deadlock is not checked.

### Fairness

Fairness is weak and given to steps of started goroutines and timers only,
never to users, edits, errors or crashes:

* a goroutine past a lock goes on, and locks are not starved (`sync.Mutex`
  hands over to a waiter after one millisecond);
* dials, probes and tests end, because each has a timeout; that whole runs end is
  assumed by `NodeCheckJobs` and `SmartGroupChecks`, with the exception above;
* `Server.Close` cancels every session before it closes the pool, so in the
  liveness of `AdapterPool` an open connection is closed only once the pool is;
* a parked dispatcher of `SpeedTest` gets no fairness: only a broadcast, which
  may come before it has parked, lets it go on;
* a call of the task manager that has written a row goes on to write the cache;
  the reload of the cache gets no fairness;
* `time.AfterFunc` timers and the zombie scan, every minute, fire;
* in the web client, timers fire and a request comes back with an answer or an
  error (the client gives it 30 seconds); the broker's loop and the start of a
  restarted server go on; a tab that connects again and again is registered or
  refused at some time, which is strong fairness: errors may come in between.

`Listeners` has no fairness and no liveness property: what it asks is what can
be lost.

## Proofs

Eight modules are proved about, for every value of their constants within the
named assumptions: any sets (of connections and edit sessions: finite ones)
and any bounds. In each, `IInv` is the inductive invariant (`LiveInv` and `WebInv` in
`WebClientProofs`), `InitInv` and one lemma for every action or group of actions
show that it is, and `Invariance` is `Spec => []IInv`; `TypeCorrect`, the safety properties, the action
properties and the refinements follow from it. `PROJECT.json` lists all 48
theorems. Below is why the property alone is not inductive, and what is added.

* `AdapterPoolProofs` (`NoCloseInUse`, `NoDoubleClose`, `NoLeak`, `Bounded`,
  `Refinement`). That an adapter is not closed in use follows from its
  reference count being the number of its users, which a retired adapter keeps
  after it has left the map. The parts are `LeaseCount` (the count is the
  number of holders), `CloseCount` (closed exactly when retired and unused, and
  then handed to `closeAdapters` once), `MapIsUnretired` (the map holds exactly
  the adapters that are not retired, each under one key) and `LeaseKeys` (where
  the adapter of a lease can be found). The counting lemmas rest on the
  library's facts about finite sets. `Bounded` adds `Recency` (the map is finite,
  and the last uses of its adapters are distinct and no later than the clock):
  an eviction takes the idle adapters by rank of last use, so an idle adapter
  that is left had all the evicted ones before it, and there were as many of
  them as the pool was too large by. The refinement has one lemma per abstract
  action: an acquire maps to `Use`, a first release to `Leave`, `CloseAdapter`
  to `Close`, every other step is a stutter.
* `TaskManagerProofs` (`NoOrphan`, `CacheAgrees`, `EndsAreFinal`). A crash
  drops the memory at any moment, so the invariant says what each copy of a
  record tells of the other two (`CopiesInv`): an entry about to be removed has
  ended, a process that is not up has no entries, a cache just loaded agrees
  with the table. `ReloadInv` does so for the rows a reload carries: unless the
  task's row was written since (`missed`), they are the row, or the row was
  deleted after they were read; so what `LoadAll` puts into the cache differs
  from the table only for a reason `CacheStaleHasACause` names.
* `ConcurrencyControllerProofs` (`SlotsBounded`, `AdmissionsRespectLimit`,
  `LowLimitsStay`). `SlotBound` needs the limit itself to stay between `Floor`
  and `Ceiling`, which is arithmetic about the clamps of the constructor and of
  `MaybeAdjust`.
* `SpeedTestProofs` (`NoSlotLost`, `SavedIsComplete`, `CancelledIsNotSaved`,
  `ProgressIsForward`).
  `LoopInv` says where the dispatcher is and which goroutines it has started,
  `ResultsInv` that a node is recorded once, and at the latest when its test has
  been passed by; the two counts are cardinalities of sets of goroutines.
  `ProgressInv` bounds the counter by the nodes the phase has still to count, and
  shows that the total has been raised by the time a speed phase starts: every
  report before it was accepted, since a task that has ended has a done context.
* `NodeCheckJobsProofs` (`OneOwner`, `Refinement`). Ownership becomes inductive
  with the owners' jobs; the refinement maps reading the job to a start of a
  run of `CoalescedRuns`.
* `SmartGroupChecksProofs` (`OneHolder`, `Refinement`). `Standing` says what a
  goroutine has in hand at each of its stages, so that the sets it releases are
  sets it holds.
* `WebClientProofs`, of `LiveTasks` (`QuietAfterLogout`, `StaleEntries`,
  `StuckRestores`) and of `WebPages` (`ListSettles`, `NeverBack`,
  `MembersBelong`, `CandidateFits`, `EndsStay`). `FinalsAccounted` follows every final event: it is under way, or was handled
  so that a timer is set or has fired, or was dropped. `FormInv` and
  `RestoreAccounted` do the same for the task a restore form waits for, from
  before the answer that names it. `NodesInv`: at most one request is current, its
  answer is no older than the rows shown, and what it asks for is what the
  controls say unless a timer will ask again. `GroupsInv`: a request whose
  answer will be shown is for the group of the open dialog. `EditorInv`: an
  accept is sent with the form its session was started with.

* `ListenersProofs` (`NothingForgotten`, `SessionsClosed`, `SettlesAsStored`).
  `HeldInv` says more than `ForgottenHasACause`: an open listener that only a
  preparing request knows is in no map, so the error path, which closes what
  differs from the map, finds it. That needs `NamesInv` (a map has a runtime
  only under its own id) and, for `restoreRuntime`, which overwrites an entry of
  the current map, that the entry's listener is closed: `EvictInv` follows the
  port from the eviction to the restore, also through a second request that read
  the same map and restored first, and `PortsInv` is that two open listeners
  never share a port. For `SettlesAsStored`, `Ordered` is what a request that
  runs alone knows of settings and map, `WorkInv` that what it has prepared, and
  then published, is what the settings ask for, and `ServedInv` that an open
  listener of the map is served except between `Publish` and `ServeNew`.

Only model-checked:

* liveness, since fairness is out of the prover's reach: `AllClosedAfterShutdown`,
  `MemoryDrains`, `BusyWaiterIsWoken`, `EndsOrOversleeps`, `SlotReleased`,
  `UndisturbedUpdateIsChecked`, `GroupReleased`, `AcceptedUpdateIsChecked`,
  `SignedInTabListens`, `SlowTabBlocksNobody`, `ShownRunEnds`.

The type invariants of the proved modules are theorems; no run repeats them.
There is no recursive definition to prove about.

## Plan

Done: the server components above with their abstract specifications, the web
client's session, panel and pages, and the proofs. Next, in order:

1. `NodeHealth`: cooldown, single probe, sticky bindings against traffic.
2. `SchedulerManager`: entry maps against the database under reload.
3. The Cloudflare tunnel's process against its persisted flag.

## Not modelled

Parsers, renderers, import, backup, migration and bots (I/O and formatting with
no shared state of their own), access control, and the parts of modelled files
named in `PROJECT.json`: unlock and IP side probes of a check, smoothing delays,
statistics, legacy migrations. A panic inside a test goroutine is not recovered
by the program: it ends the process, which `TaskManager` models as `Crash`.

Of the task manager: the import of tasks by a database migration; the reload of
the cache that follows it is one of `ReadRows` and `LoadAll`. Of the node check
jobs: a database error while the job is read counts as a deleted job, and the
rollback of a schedule that could not be set is left out.

Of `Listeners`: the fallback of the default listener to another port and an
error between the save of the settings and the apply (`NormalizeConfig`,
`LoadListeners`), the connection limits of a registry, what a session does after
its handshake, the limit of 64 listeners, and database errors, which end a
handler before it changes anything. Unsynchronized access to a Go map, which
`ApplyListeners` reads while `serveRuntime` may delete from it, can also end the
process; the model lets both go on.

Of the web client: most of its 75 000 lines are markup of the component library,
translations, and forms that load a record, edit it and send it back. They keep
no state across requests that a model could get wrong, which is why the mapped
share of the JavaScript is small although its session, its event stream, its
task panel and the four pages with overlapping requests are modelled. The node
list's submit of a node and its batch delete reload with the filters of the
render they were started in, as the batch edit does, and are left to
`SubmitBatch` and `BatchDone`; a change of the page size sets the page at once in
the code and with the debounce in the model; setting the task a restore waits for
and the effect that registers its callback are one step. Left out
of those pages: dialogs that only edit a record, selection, export, options;
new and deleted templates and base templates; a second tab that edits the same
template.
