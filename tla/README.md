# HiveKernel in TLA+

HiveKernel runs LLM agents the way an operating system runs processes. A Go
kernel keeps the process table, launches every agent as an OS process of its
own, supervises, routes messages and logs events. The agents are Python programs
that talk to it over gRPC, and a Python dashboard watches it. The specifications
here are translated from the code under `src/`; paths below are relative to it.

## 1. The parts and how they interact

| part | state | operations that change it | who runs them | module |
|---|---|---|---|---|
| registry, spawn, kill, reaper (`internal/process`, `internal/kernel`) | processes by PID, name index, calls in progress | Register, SetState, Reparent, Remove, SpawnChild, KillChild | one goroutine per call, one ticker | ProcessTree |
| supervisor, runtime manager, shutdown (`supervisor.go`, `internal/runtime/manager.go`, `main.go`) | runtimes, OS processes, restart counts, phase | launch, watch, restart, stop, StopAll, KillAll | watchers, restarts, callers, main | Supervision |
| event log (`eventlog.go`) | counter, ring, file, channels | Emit, SubscribeSince, Unsubscribe, Close | everyone, one stream per client | EventLog |
| mailbox of an agent (`hivekernel_sdk/agent.py`) | pending requests, futures, kept results | send_and_wait, send_fire_and_forget, on_message, drain | asyncio tasks, DeliverMessage | RequestReply, Mailbox |
| Execute stream (`agent.py`, `syscall.py`, `executor.go`) | output queue, syscall futures | reader, writer, runner, kernel loop | three tasks per stream | HiveAgent |
| queen (`queen.py`) | lead pool, history, tasks in progress | assess, run, acquire and release a lead, reap, shut down | one coroutine per task, the reaper | Queen |
| assistant (`assistant.py`) | delegations, turns, mailbox, artifacts | handle_task, handle_message, on_message | overlapping turns | Assistant |
| four leads and their workers (`orchestrator.py`, `power_tools.py`, `architect.py`, `worker.py`, `examples/llm_research_team.py`, `examples/team_manager.py`) | plan, worker PIDs, results | plan, spawn, run, synthesize, kill | the lead, its workers, the kernel | Teams |
| tool agent, loop, memory (`tool_agent.py`, `loop.py`, `memory.py`, `builtin_tools.py`, `llm.py`) | history, summary, long-term memory, counters | load, LLM call, tools, compress, summarize, save | overlapping runs | ToolLoop |
| maid (`maid.py`) | answers of a scan | scan, report, escalate | one loop, requests | Maid |
| dashboard (`dashboard/app.py`) | tree cache, last number, browsers, message log | resync, apply event, compare, broadcast, send a task | two loops, one coroutine per browser or request | Dashboard |

What makes the Go code hard: every map has its own lock and most operations take
several locks one after another; a process is read through a pointer that stays
valid after its removal; a launch holds the manager's lock for the length of an
agent's Init. What makes the Python code hard: every `await` lets everything else
run, so a list is changed under an iteration, a value is read before and used
after, and any coroutine may be cancelled where it waits. `PROJECT.json` lists the
hazards, each at its line.

## 2. Modules

In the Go modules one step is one critical section or one unlocked access to
shared data. In the Python modules one step is the code between two awaits.
Between two steps everything else may run.

**ProcessTree** is the table and all that changes its shape. `registered`,
`ppid`, `attr`, `state`, `byName`, `nextPID` are the registry; fields survive
removal because callers hold pointers. `sp[s]` is a SpawnChild call (lookup,
check, count, register, launch), `kl[k]` a KillChild or handleKill call, `scan`
and `reap` are the reaper's list and its current process. A launch is only its
outcome here. A zombie's minute of waiting is a nondeterministic choice in
`ReapScan`, with one timing assumption: a spawn that has just seen its parent
alive is not held up for a minute between two adjacent statements
(`SpawningUnder`).

**Supervision** is what lies between an OS process and its row. An `Instance` is
one OS process launched for a PID: `os` is the process itself, `pc` the goroutine
that watches it and, for a daemon, goes on to restart it. `runtimes` and `mu` are
the manager's map and lock, `st` the StopRuntime calls in progress, `main` and
`sa` the two goroutines of the shutdown. Timers fire at any time. `stopped` and
`doomed` are history variables.

**EventLog** is the log, the SubscribeEvents stream and a client that resumes
after the last number it has seen. An event is its number. `chan` keeps all that
was ever put into a channel, so what a subscription received can be compared with
what it asked for.

**RequestReply** says what a mailbox promises: a request is answered at most
once, by its own reply, and a reply nobody waits for is kept until collected.
**Mailbox** is the code: the register of requests, their futures, the timer that
cancels a future one step before the caller removes its entry, replies that are
doubled (pushed and flushed), lost, or sent with the SDK's `reply_to` helper,
whose id matches no request. `KeepsPromise` instantiates RequestReply with the
status a caller can observe. **HiveAgent** puts a Mailbox under an Execute stream:
`out` is the queue between runner and writer, `up` and `down` are the two
directions of the stream, `kernel` is the executor's loop.

**Queen**: `pc[t]` is where a task waits, `idle` the pool with the time of each
release, `reaper` and `shut` the iterations over it, each with its position in a
list that tasks may shift. `overlap` records that a task took a lead while one of
them waited for a kill. **Assistant** extends Mailbox by turns (`turn`, `got`,
`told`), delegations (`active`, `old` once their deadline has passed) and the
artifacts in which results are stored. **Teams** is one task of one of four leads:
`groups` is the plan, `crew` how many workers the lead knows, `w` the worker
processes, `stream` the execute_on calls the kernel has not served. **ToolLoop**
is one AgentMemory shared by several runs; `store` is what is in the artifact
store; `shared`, `squeezed`, `split` and `missed` record overlaps, compressions,
cuts inside a tool exchange and failed loads. **Maid** extends ProcessTree by a
scan that asks for one PID after another. One scan stands for the loop's, a task's and a cron message's: they share nothing.
**Dashboard** has the kernel's table and event log, the cache, and the program
counters of the two loops; `rpc` is a resync's question and answer, `cast` a
broadcast over a set that browsers enter and leave, `req` the last task sent.

Composition: Maid and ProcessTree share the table; HiveAgent and Assistant
contain Mailbox, and so does the kernel's routing to it; Dashboard has its own
small kernel that behaves as ProcessTree and EventLog do towards one client
(numbers in order, events dropped, forgotten in a restart). Supervision and
ProcessTree meet at the row of a PID: ProcessTree allows the state changes of
Supervision (exit, restart, give up) at any time.

`MC*` modules add symmetry sets for TLC. An operator whose comment begins with
"Slip:" is a plausible mistake in the operator after it; replacing that operator
by it makes a property fail.

## 3. Runs

| run | shows | bounds and why they are enough |
|---|---|---|
| `tree_shape` | `ParentRules` (`ParentOlder`, `TierMonotone`, `UserMonotone`), `NameIndexSound`: the rules are checked against the first parent only and hold along every edge the reaper makes | 4 PIDs, three generations under the kernel; 2 tiers, 2 users, one name shared by all; launches fail, cron revives PID 3 |
| `maid` | `NoOrphan` for the table, `MissingParentIsNew` for the scan beside it | 3 PIDs, two spawners, a killer, the reaper; launches succeed, no daemons, no cron: where the theorem's condition holds |
| `sup_incarnation` | `TypeOK` (the restart limit), `OneOSProcess`, `WatcherFindsItself`, `StoppedStaysStopped`, `StopAllStopsWhatItFound`, `NothingStray` | 1 daemon, 3 instances (a launch and two restarts, the limit), 2 killers, failing launches, shutdown |
| `sup_liveness` | `DaemonComesBack`, `KillReturns`, `ShutdownEnds` | 1 daemon, 2 instances, a killer; launches succeed |
| `events` | `NoDuplicate`, `NothingMissed`, `RingIsRecent` | 4 events through a ring of 3, so it is cut; 2 emitters, 2 clients, 2 subscriptions with channels of 3 |
| `queen` | `LeadExclusive`, `NoLeadLost`, `ShutdownKillsIdle`, `EveryTaskAnswered` | 2 tasks, 2 idle leads at the start, 4 PIDs, a history of 1: a pop beside each position of an iteration |
| `agent` | `KeepsPromise`, `ResultIsLast`, `SyscallInFlight`, `RequestEnds`, `ResultArrives` | one request that waits, one that does not, each reply up to twice |
| `assistant` | `NoResultLost`, `HonestTimeout` | 3 turns, 2 delegations whose artifacts share a key, one message from a peer |
| `tools` | `TypeOK` (the iteration limit), `ContextWellFormed` (`PromptInContext`, `ToolResultsPaired`), `UsageCovers`, `SessionBounded`, `FailedRunForgotten` | 2 runs, 2 iterations, one tool call each; a session of 0 or 2 messages and a threshold of 4, so that it is crossed |
| `teams` | `EverySubtaskOnce`, `ContextIsOwnGroup`, `OneAtATime`, `NoWorkerLeft`, `TaskEnds` | plans of up to 3 parts of up to 2 items in every shape, 0 to 2 workers: groups are merged, and the manager has a second round |
| `dashboard` | `CacheConverges`, `ListedOnce`, `RightTarget` | 2 PIDs, 3 events, one fault (restart, timeout, broken stream or dropped event), a browser, a message log of 2 |
| `tool_memory` | violated: `MemoryStoreLasts` | one run, two iterations |

`TypeOK` is in a run where it holds a limit that the code has to keep; in the
other modules it says what the variables are. `KingSurvives`, `OneIncarnation`,
`DeadIsDown`, `NoStaleEntry` and `AcceptedReachesCaller` are proved (section 4) and
not in a run. `agent`, `assistant`, `dashboard`, `events`, `queen`, `teams`,
`tool_memory` and `tools` do not check for deadlock: their behaviours end when
the requests, turns, events, tasks or runs are used up.

`tool_memory` is the one disagreement between the code and what it says of itself
that has a run: the tool `memory_store` is described as "Save information to
long-term memory for recall across sessions" (`builtin_tools.py:220`). It writes
the artifact, and `AgentMemory.save` at the end of the same run writes the text
loaded at its start over it.

Conditions in the properties are the code's real limits, and each names its
window. `NoLeadLost` and `ShutdownKillsIdle` exclude a lead taken while an
iteration over the pool awaits a kill; `PromptInContext`, `ToolResultsPaired` and
`SessionBounded` exclude overlapping runs, which do disturb each other's
history; `NoResultLost` names the replies that were not recorded;
`CacheConverges` speaks of which processes there are, because the safety loop
compares nothing else; `RightTarget` excludes a restart of the kernel.

Behaviours of the models that no property singles out:

- two spawns pass the same count of children; a daemon given up is not
  reparented when its parent is reaped; the rollback of a failed launch leaves
  the children the agent has spawned meanwhile;
- a restart whose launch fails is not tried again; a daemon killed during its
  backoff is launched after the kill has answered; an agent launched while StopAll
  works from its snapshot, or in a StopRuntime when KillAll comes, outlives the kernel;
- events are logged out of number order, so a client that resumes by number can
  skip one; Emit may send on a channel closed since its snapshot;
- a reply sent with `reply_to` is never matched; a reply accepted
  in the step between timer and removal reaches nobody;
- groups that the orchestrator sends off together run one at a time; the
  orchestrator, the research lead and the team manager leave their workers
  running when they fail; the team manager's second round races the exit of its
  workers, half a second after their first answer;
- the dashboard's states may stay wrong, and an empty cache is not repaired by
  the safety loop.

**Fairness.** It is weak everywhere, of code that can run and of timers.

- Supervision: a pending launch ends (it has timeouts), watchers proceed,
  StopRuntime's waits end, StopAll goes on, the 15 s timer fires. Nothing obliges
  GracefulStop to return (a stream opened after the log was closed never ends), an
  agent to exit, a caller to call or a user to send a signal.
- Queen: the coroutine of a task goes on; its RPCs return or raise, as each has a deadline.
- HiveAgent: writer, reader, kernel loop and coroutines go on, and a request's
  timer fires. Nothing obliges `handle_task` to end or a peer to reply.
- Teams: the lead goes on, the kernel serves its stream, a worker with a task
  ends it. Nothing obliges a worker to exit.
- Dashboard: both loops go on and an RPC is answered. Faults are bounded
  by `MaxFaults`, so "in the end" means after the last one.

## 4. Proofs

TLAPS proves what follows for every value of the constants that meets the named
assumptions (the `ASSUME` of each module): any number of processes, clients,
tasks, turns or runs, any size of ring, channel, history and list. Every
invariant below was checked by TLC on the run's instance before it was proved. A
proof has one lemma or step per action; a temporal theorem combines them.

| module | about | theorems that state a property of a run |
|---|---|---|
| ProcessTreeProofs | ProcessTree, Maid | `RulesSurviveReaping`, `NameLookupSound`, `TableStaysClosed`, `OrphanVerdictSound` |
| SupervisionProofs | Supervision | `SupervisionTypes`, `OneOSProcessAlways`, `WatcherChecksItsOwnEntry`, `NoRecoveryAfterStop`, `StopAllIsThorough`, `NoProcessForgotten` |
| EventLogProofs | EventLog | `RingKeepsRecent`, `NothingSentTwice`, `NothingIsMissed` |
| AgentProofs | Mailbox, HiveAgent, Assistant | `MailboxKeepsPromise`, `AgentKeepsPromise`, `AssistantKeepsPromise`, `ResultComesLast`, `SyscallsAreInFlight`, `ResultsAreKept`, `TimeoutsAreHonest` |
| QueenProofs | Queen | `LeadsAreExclusive`, `LeadsAreKept`, `ShutdownIsThorough` |
| TeamsProofs | Teams | `SubtasksDoneOnce`, `WorkersTakeTurns`, `WorkersAreKilled`, `ContextsAreOwn` |
| ToolLoopProofs | ToolLoop | `ToolLoopTypes`, `ContextAccepted`, `UsageIsCovered`, `SessionStaysBounded`, `FailedRunsForgotten` |
| DashboardProofs | Dashboard | `MessagesListedOnce`, `TasksMeetTheirTarget` |

**ProcessTreeProofs.** `TypeCorrect`, `RulesSurviveReaping`,
`NameLookupSound`, `KingNeverDies` from the inductive invariant `TreeInv`. The
properties alone are not inductive: a spawn in progress has checked its parent
some steps ago (`SpawnInv` says what is still true: role, user and tier of a
process never change), a kill has a snapshot without PID 1 (`KillInv`), and the
reaper may move a child to its grandparent because nobody else writes PPID
(`ReapInv`). `TableStaysClosed` proves `NoOrphan` under `NoRevival` (no cron
target, no failing launch, no daemon) from `OrphanInv`: a process being reaped
stays a zombie, gains no child, and loses those it has before it is removed.

`OrphanVerdictSound` proves `MissingParentIsNew` of the maid under `NoRevival`.
The invariant `MaidInv` says that a PID below the scan's position and older than
the scan that was neither found nor failed is not registered, and that the parent
of every process found is none, found, failed or newer than the scan. It needs
`NoOrphan` and `ParentOlder`: the parent of what is found next is smaller, so it
has already been asked for, and it was there because a process is removed only
after its children have moved.

**SupervisionProofs.** All from `IndInv`; `OneIncarnationAlways` and
`DeadStaysDown` are proved beside the properties of the run. The run has one PID;
that StopAll goes through several of them is covered by the theorem. Its heart is
`SoleHolder`: at most one instance holds a PID, from its launch until its recovery
launches the next one. A launch comes from the only SpawnChild call of the PID or
from the holder's own recovery, so it passes the PID on and never adds a holder.
This is why the watcher's test for the mere presence of an entry is enough.

**EventLogProofs.** `RingKeepsRecent` from `LogInv`: the ring is a suffix of what
was logged, through any number of cuts, and the file is a prefix. `StreamInv` adds
what the streams need. The atomic counter gives every Emit a number of its own
(`NumberInv`), so an event is appended once; a channel holds logged events only
(`ChanInv`), so an event that is appended now is in no channel yet; and an Emit
that is fanning out has in its list only channels that were open when it
appended, which is why a channel made later gets the event by replay and one made
earlier gets it from the list, never both. `Replay` is defined by ranks of
positions in the ring, for which `ReplayFacts` shows that it lists every newer
event once and in order, up to the capacity of the channel.

**AgentProofs**, the mailbox and the stream. `NothingStale`, `AcceptedIsSeen` from `MailInv`, which ties a
request's entry, its future and its caller together, and `MailboxKeepsPromise`:
every step of the mailbox is a step of RequestReply or a stutter under the mapping
of `Status` and `Kept`. `ResultComesLast` from `StreamInv`, about the order of the
writer's queue and the stream. `AgentUsesMailbox` shows that every step of the
agent is a step of its mailbox, so `AgentKeepsPromise` follows.
`SyscallsAreInFlight` needs `FlightInv`: a request not made yet has no message in
the queue or in either direction of the stream, so the syscall it makes is the
only one; from there its one message moves from place to place.

**AgentProofs**, the assistant. From `AssistantInv`. `NoResultLost` speaks of a result where
it ends; the invariant follows it on the way. Nothing is accepted of a delegation
nobody has replied to (`NetInv`), what was accepted is in the mailbox or was
collected by a turn (`CollectedInv`), and is stored, being stored, or known not to
be (`RecordedInv`). `HonestTimeout` needs `BookInv`: the send is awaited before the
delegation is entered, so a reply that comes first is untracked, and any other is
on the list only as long as no turn has it. `AssistantUsesMailbox` carries what is
proved of Mailbox over to the assistant, so `AssistantKeepsPromise` follows. The
only assumption is that `NoDelegation` is not a delegation.

**QueenProofs.** From `QueenInv`. The reaper writes back a list of its
own making over a list that tasks have changed meanwhile, which looks as if it
could resurrect a lead that was handed out. It cannot: a lead is appended when it
is released, so the pool is ordered by release (`PoolInv`), the leads that have
been idle too long are a prefix, the reaper's list of those to keep is empty until
it reaches the first of the others, and from there it does not wait any more. So
`LeadExclusive` holds without exception. `NoLeadLost` and `ShutdownKillsIdle` hold
as long as `overlap` is false (`LeadInv`, `SweepInv`: an iteration stands behind
the lead it kills, and all it has passed are down).

**TeamsProofs.** Three properties from `TeamInv`, for all four leads at once: their
actions are sorted by what they do to plan, crew and calls. `CallInv`: the calls in
the stream are those of groups that wait, each once, and only the first has a busy
worker. `CrewInv`: the workers already sent a kill are down, and those the lead does
not know of were never up unless a cancellation cut a spawn off. `MemoryInv`: a
worker's memory lists the subtasks of its group that went well, by rank.

`SubtasksDoneOnce` proves `EverySubtaskOnce`, which speaks of the end only: when
the lead goes on, the subtasks given out are those of the planner's answer, each
has one worker, and each has one result. `PlanInv` follows them from the answer on.
`DealInv`: from the moment a plan is made, it holds the answer's subtasks, each
once, in at most as many groups as were asked for. `ParseFacts` shows it of
`_parse_groups`, whichever of its fallbacks applies, and `CapFacts` of
`_cap_groups`: every group beyond the limit goes to exactly one of the others.
`TurnFacts` shows it of the manager's `i % len(worker_pids)`. `ResultInv`: a worker
of the orchestrator that is asked has fewer results than its group has subtasks, and
one that is through has as many; a worker of the manager has one for each of its
turns among the subtasks taken so far (`TurnNext`: taking one more adds a turn
to one worker). `PlanTypes` adds that the gather starts when there is a worker for
every group. The parts that are usable, and groups put together, are sets of pairs
in order (`InOrder`, `Concat`), a pair standing at the number of those up to it.
So what they contain follows from facts about finite sets (`InOrderFacts`,
`ConcatFacts`) for plans of any length, without induction over sequences.

**ToolLoopProofs.** From `ToolLoopInv`. Two runs under way have both noted the
overlap (`OverlapInv`); the shared counter has grown since a run's snapshot by the
run's own calls, and by more only if they overlap (`UsageInv`). For tool results
`PairInv` says of the conversation, of the stored session and of what a summary
keeps that each result follows its request or another result of it. All three are
needed, since a session is stored by one run and loaded by the next.
`FailedRunForgotten` needs `ForgetInv`: a message in the context is the run's own or
from a run in the stored session. The assumption `Earlier \subseteq 0..Threshold`
says that the session found at the start was itself stored by such an agent.

**DashboardProofs.** From `DashboardInv`. `ListedInv`: the message of the kernel's
present run, once listed, is behind both the number the listener resumes with and
the position of its stream, so no replay brings it back; those listed before belong
to earlier runs. `NamesInv`: before a restart every copy of the tree (the cache, the
answers to a resync, the events on the way) has the right name for a PID. The
assumption says that browsers are finite in number and are not loops.

Proved and not in a run are also `TypeCorrect`, `KingNeverDies`,
`OneIncarnationAlways`, `DeadStaysDown`, `NothingStale`, `AcceptedIsSeen`,
`QueenTypes` and `DashboardTypes`.

Only model-checked:

- liveness (`DaemonComesBack`, `KillReturns`, `ShutdownEnds`, `EveryTaskAnswered`,
  `RequestEnds`, `ResultArrives`, `TaskEnds`, `CacheConverges`): fairness and
  ENABLED are beyond the prover;
- `MemoryStoreLasts`, which the code violates.

Every safety property of a passing run is proved.

## 5. Abstractions

- Roles, tiers, users, names and messages are small sets or model values. States
  `blocked` and `sleeping` have no writer outside tests.
- Formatting, logging, tracing, addresses and ports are left out. An await that
  only logs is folded into the step before it: its failure is ignored or is one of
  the failures of the next call.
- In ProcessTree a spawn's budget, cgroup and runtime are one outcome; in
  Supervision the table is a row per PID.
- LLM answers are a free choice among the shapes the code tells apart. Sizes in
  tokens are a free choice where the code compares them with a limit, and
  messages are counted where it counts messages.
- RPCs may fail or time out at any time where the code handles it; clocks are
  free choices, ordered only where the code relies on the order (the pool's
  release times).
- A crash of the kernel is in Dashboard only; nothing of its table survives it.

## 6. Not modelled

- Broker queues (order, aging, limits): agents tell messages apart by identity,
  and Mailbox already lets them come late, twice or never. Pipes have no user and
  nobody subscribes to the event bus. Shared memory is a map under one lock.
- Budgets, cgroups, rate limits, accounting, permission tables: counters and
  tables under one lock each, sequential.
- Lifecycle (WaitChild, Sleep): no agent of the repository uses it. Signals
  have no handlers. Cluster migration changes bookkeeping of one kernel only.
- Cron expressions: sequential matching on wall-clock time. What a due entry does to the
  table is in ProcessTree.
- Calls an agent makes from its Init while the manager's lock is held: a launch
  is a pending outcome that ends by its timeout.
- Workspace and web tools, the coder, the GitHub monitor, dialog logs: files and
  outside services, one coroutine each. DelegateAsync and the other remaining
  tools are single remote calls.
- The dashboard's trace, LLM usage and task histories and its read-only
  endpoints: lists that no decision reads.
- Generated protocol code, startup configuration, logging, trace export, demos.
