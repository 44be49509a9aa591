---------------------------- MODULE Supervision ----------------------------
(***************************************************************************)
(* From an OS process to its entry in the process table and back: the      *)
(* runtime manager (internal/runtime/manager.go), the supervisor's exit    *)
(* handling and restarts (internal/process/supervisor.go), KillChild, and  *)
(* the shutdown sequence of cmd/hivekernel/main.go.                        *)
(*                                                                         *)
(* A PID is a row of the process table, an Instance one OS process started *)
(* for it. The goroutines are: the SpawnChild handler of each PID; for     *)
(* each instance its exit watcher, which turns into the restart goroutine  *)
(* of a daemon; the KillChild handlers; and main. One step is one critical *)
(* section. m.mu is modelled because StartRuntime holds it for as long as  *)
(* a launch takes.                                                         *)
(***************************************************************************)
EXTENDS Naturals

CONSTANTS
    Pids,                \* processes whose spawn request names a runtime image
    Daemons,             \* those with RestartAlways, the others end as zombies
    Instances,           \* bound: OS processes launched in one behaviour
    Killers,             \* goroutines that run KillChild
    Main,                \* the goroutine that runs StopAll
    NoInst,              \* not an instance
    MaxRestartAttempts,  \* SupervisorConfig.MaxRestartAttempts
    LaunchMayFail,       \* may a launch fail
    MayReset             \* may five minutes pass between two crashes

ASSUME ProcessAssumption ==
    /\ Pids # {}
    /\ Daemons \subseteq Pids
    /\ NoInst \notin Instances
    /\ Main \notin Killers

ASSUME ConfigAssumption ==
    /\ MaxRestartAttempts \in Nat
    /\ LaunchMayFail \in BOOLEAN
    /\ MayReset \in BOOLEAN

VARIABLES
    reg,            \* the row of each PID: its Process.State, or not in the table
    spawn,          \* the SpawnChild handler of each PID
    pid,            \* AgentRuntime.PID
    os,             \* the OS process behind the instance
    pc,             \* the watcher, later restart goroutine, of the instance
    seen,           \* local variable count of attemptRestart
    runtimes,       \* Manager.runtimes, NoInst where the key is absent
    mu,             \* the instance whose launch holds Manager.mu
    by,             \* the restart goroutine that launches it, NoInst for SpawnChild
    restartCounts,  \* Supervisor.restartCounts
    st,             \* calls of StopRuntime in progress
    main,           \* phase of main
    sa,             \* phase of the goroutine that runs StopAll and GracefulStop
    todo,           \* PIDs StopAll has still to stop
    stopped,        \* history: instances StopRuntime or KillAll took
    doomed          \* history: instances tracked when StopAll took its list

vars == <<reg, spawn, pid, os, pc, seen, runtimes, mu, by, restartCounts,
          st, main, sa, todo, stopped, doomed>>

Stoppers   == Killers \cup {Main}
InstOrNone == Instances \cup {NoInst}
InTable    == {"idle", "running", "zombie", "dead"}
Alive      == {"up", "dying"}

\* What a watcher does once its own entry was in the map and is out of it.
Recovering == {"handle", "attempt", "record", "backoff", "starting"}

\* The gRPC server takes new calls until GracefulStop or Stop.
Serving == main \in {"up", "signalled"} /\ sa # "draining"

\* The kernel has exited, after StopAll or after KillAll.
Finished == main \in {"exited", "aborted"}

StopIdle == [pc |-> "idle", pid |-> CHOOSE p \in Pids : TRUE, inst |-> NoInst]

Goroutines == <<spawn, pid, pc, seen, by, restartCounts>>
History    == <<stopped, doomed>>

\* Registry.SetState: an error when the PID is gone, no other guard.
SetState(p, s) == reg' = IF reg[p] \in InTable THEN [reg EXCEPT ![p] = s] ELSE reg

\* Registry.Remove. A PID is never given out again.
Remove(p) == reg' = [reg EXCEPT ![p] = "removed"]

-----------------------------------------------------------------------------
(* SpawnChild, StartRuntime and launchAndConnect *)

Spawn(p) ==
    /\ Serving
    /\ spawn[p] = "none"
    /\ reg' = [reg EXCEPT ![p] = "idle"]
    /\ spawn' = [spawn EXCEPT ![p] = "registered"]
    /\ UNCHANGED <<pid, os, pc, seen, runtimes, mu, by, restartCounts,
                   st, main, sa, todo, History>>

\* With m.mu held and no entry for p, StartRuntime starts the OS process j.
Launch(p, j, starter) ==
    /\ pc[j] = "none"
    /\ mu' = j
    /\ by' = starter
    /\ pid' = [pid EXCEPT ![j] = p]
    /\ os' = [os EXCEPT ![j] = "up"]

SpawnStart(p) ==
    /\ ~Finished
    /\ spawn[p] = "registered"
    /\ mu = NoInst
    /\ IF runtimes[p] = NoInst
       THEN /\ \E j \in Instances :
                  /\ Launch(p, j, NoInst)
                  /\ pc' = [pc EXCEPT ![j] = "launching"]
            /\ spawn' = [spawn EXCEPT ![p] = "starting"]
            /\ UNCHANGED reg
       ELSE /\ Remove(p)
            /\ spawn' = [spawn EXCEPT ![p] = "done"]
            /\ UNCHANGED <<mu, by, pid, os, pc>>
    /\ UNCHANGED <<seen, runtimes, restartCounts, st, main, sa, todo, History>>

\* Slip: the restart goroutine tries again although the launch went well.
LaunchOKTriesAgain ==
    /\ ~Finished
    /\ mu # NoInst
    /\ os[mu] = "up"
    /\ runtimes' = [runtimes EXCEPT ![pid[mu]] = mu]
    /\ IF by = NoInst
       THEN /\ spawn' = [spawn EXCEPT ![pid[mu]] = "done"]
            /\ pc' = [pc EXCEPT ![mu] = "watch"]
       ELSE /\ pc' = [pc EXCEPT ![mu] = "watch", ![by] = "backoff"]
            /\ UNCHANGED spawn
    /\ mu' = NoInst
    /\ UNCHANGED <<reg, pid, os, seen, by, restartCounts, st, main, sa, todo, History>>

\* Slip: m.mu is not released.
LaunchOKKeepsLock ==
    /\ ~Finished
    /\ mu # NoInst
    /\ os[mu] = "up"
    /\ runtimes[pid[mu]] # mu
    /\ runtimes' = [runtimes EXCEPT ![pid[mu]] = mu]
    /\ UNCHANGED <<reg, Goroutines, os, mu, st, main, sa, todo, History>>

\* The agent answered READY and Init: it is entered, the watcher starts and
\* m.mu is released.
LaunchOK ==
    /\ ~Finished
    /\ mu # NoInst
    /\ os[mu] = "up"
    /\ runtimes' = [runtimes EXCEPT ![pid[mu]] = mu]
    /\ IF by = NoInst
       THEN /\ spawn' = [spawn EXCEPT ![pid[mu]] = "done"]
            /\ pc' = [pc EXCEPT ![mu] = "watch"]
       ELSE /\ pc' = [pc EXCEPT ![mu] = "watch", ![by] = "setrunning"]
            /\ UNCHANGED spawn
    /\ mu' = NoInst
    /\ UNCHANGED <<reg, pid, os, seen, by, restartCounts, st, main, sa, todo, History>>

\* Slip: a failed restart goes back to its backoff.
LaunchFailsRetries ==
    /\ ~Finished
    /\ LaunchMayFail
    /\ mu # NoInst
    /\ os' = [os EXCEPT ![mu] = IF @ = "up" THEN "dying" ELSE @]
    /\ IF by = NoInst
       THEN /\ Remove(pid[mu])
            /\ spawn' = [spawn EXCEPT ![pid[mu]] = "done"]
            /\ pc' = [pc EXCEPT ![mu] = "done"]
       ELSE /\ pc' = [pc EXCEPT ![mu] = "done", ![by] = "backoff"]
            /\ UNCHANGED <<reg, spawn>>
    /\ mu' = NoInst
    /\ UNCHANGED <<pid, seen, runtimes, by, restartCounts, st, main, sa, todo, History>>

\* No READY, no Init answer, or Init not ready: the OS process is killed and
\* never waited for. SpawnChild removes the row, a restart goroutine returns.
LaunchFails ==
    /\ ~Finished
    /\ LaunchMayFail
    /\ mu # NoInst
    /\ os' = [os EXCEPT ![mu] = IF @ = "up" THEN "dying" ELSE @]
    /\ IF by = NoInst
       THEN /\ Remove(pid[mu])
            /\ spawn' = [spawn EXCEPT ![pid[mu]] = "done"]
            /\ pc' = [pc EXCEPT ![mu] = "done"]
       ELSE /\ pc' = [pc EXCEPT ![mu] = "done", ![by] = "done"]
            /\ UNCHANGED <<reg, spawn>>
    /\ mu' = NoInst
    /\ UNCHANGED <<pid, seen, runtimes, by, restartCounts, st, main, sa, todo, History>>

-----------------------------------------------------------------------------
(* The OS process ends, of itself or as told; watchProcessExit *)

\* With LaunchMayFail FALSE the launches are also spared a crash.
Exit(i) ==
    /\ os[i] \in Alive
    /\ LaunchMayFail \/ pc[i] # "launching"
    /\ os' = [os EXCEPT ![i] = "down"]
    /\ UNCHANGED <<reg, Goroutines, runtimes, mu, st, main, sa, todo, History>>

\* Cmd.Wait returns and exitCh is closed.
WaitReturns(i) ==
    /\ ~Finished
    /\ pc[i] = "watch"
    /\ os[i] = "down"
    /\ pc' = [pc EXCEPT ![i] = "exited"]
    /\ UNCHANGED <<reg, spawn, pid, os, seen, runtimes, mu, by, restartCounts,
                   st, main, sa, todo, History>>

\* The watcher takes out whatever entry its PID has. An entry means that the
\* process died on its own; no entry, that somebody stops it.
Untrack(i) ==
    /\ ~Finished
    /\ pc[i] = "exited"
    /\ mu = NoInst
    /\ runtimes' = [runtimes EXCEPT ![pid[i]] = NoInst]
    /\ pc' = [pc EXCEPT ![i] = IF runtimes[pid[i]] = NoInst THEN "done" ELSE "handle"]
    /\ UNCHANGED <<reg, spawn, pid, os, seen, mu, by, restartCounts,
                   st, main, sa, todo, History>>

-----------------------------------------------------------------------------
(* Supervisor: HandleChildExit and attemptRestart *)

HandleChildExit(i) ==
    /\ ~Finished
    /\ pc[i] = "handle"
    /\ IF reg[pid[i]] \in InTable /\ pid[i] \in Daemons
       THEN /\ pc' = [pc EXCEPT ![i] = "attempt"]
            /\ UNCHANGED reg
       ELSE /\ pc' = [pc EXCEPT ![i] = "done"]
            /\ SetState(pid[i], "zombie")
    /\ UNCHANGED <<spawn, pid, os, seen, runtimes, mu, by, restartCounts,
                   st, main, sa, todo, History>>

\* Slip: > for >=.
ReadCountOffByOne(i) ==
    /\ ~Finished
    /\ pc[i] = "attempt"
    /\ IF restartCounts[pid[i]] > MaxRestartAttempts
       THEN /\ SetState(pid[i], "dead")
            /\ pc' = [pc EXCEPT ![i] = "done"]
            /\ UNCHANGED seen
       ELSE /\ seen' = [seen EXCEPT ![i] = restartCounts[pid[i]]]
            /\ pc' = [pc EXCEPT ![i] = "record"]
            /\ UNCHANGED reg
    /\ UNCHANGED <<spawn, pid, os, runtimes, mu, by, restartCounts,
                   st, main, sa, todo, History>>

\* Read the counter, taken as 0 five minutes after the last restart.
ReadCount(i) ==
    /\ ~Finished
    /\ pc[i] = "attempt"
    /\ \E count \in {restartCounts[pid[i]]} \cup (IF MayReset THEN {0} ELSE {}) :
          IF count >= MaxRestartAttempts
          THEN /\ SetState(pid[i], "dead")
               /\ pc' = [pc EXCEPT ![i] = "done"]
               /\ UNCHANGED seen
          ELSE /\ seen' = [seen EXCEPT ![i] = count]
               /\ pc' = [pc EXCEPT ![i] = "record"]
               /\ UNCHANGED reg
    /\ UNCHANGED <<spawn, pid, os, runtimes, mu, by, restartCounts,
                   st, main, sa, todo, History>>

\* Slip: the restart goroutine is not started.
RecordOnly(i) ==
    /\ ~Finished
    /\ pc[i] = "record"
    /\ restartCounts' = [restartCounts EXCEPT ![pid[i]] = seen[i] + 1]
    /\ pc' = [pc EXCEPT ![i] = "done"]
    /\ UNCHANGED <<reg, spawn, pid, os, seen, runtimes, mu, by,
                   st, main, sa, todo, History>>

RecordRestart(i) ==
    /\ ~Finished
    /\ pc[i] = "record"
    /\ restartCounts' = [restartCounts EXCEPT ![pid[i]] = seen[i] + 1]
    /\ pc' = [pc EXCEPT ![i] = "backoff"]
    /\ UNCHANGED <<reg, spawn, pid, os, seen, runtimes, mu, by,
                   st, main, sa, todo, History>>

\* The backoff is over: onRestart calls StartRuntime, asking nothing of the
\* row. "Already running" ends the goroutine.
Restart(i) ==
    /\ ~Finished
    /\ pc[i] = "backoff"
    /\ mu = NoInst
    /\ IF runtimes[pid[i]] = NoInst
       THEN \E j \in Instances :
               /\ Launch(pid[i], j, i)
               /\ pc' = [pc EXCEPT ![i] = "starting", ![j] = "launching"]
       ELSE /\ pc' = [pc EXCEPT ![i] = "done"]
            /\ UNCHANGED <<mu, by, pid, os>>
    /\ UNCHANGED <<reg, spawn, seen, runtimes, restartCounts, st, main, sa, todo, History>>

SetRunning(i) ==
    /\ ~Finished
    /\ pc[i] = "setrunning"
    /\ SetState(pid[i], "running")
    /\ pc' = [pc EXCEPT ![i] = "done"]
    /\ UNCHANGED <<spawn, pid, os, seen, runtimes, mu, by, restartCounts,
                   st, main, sa, todo, History>>

\* reapZombies, for one zombie past its timeout.
Reap(p) ==
    /\ ~Finished
    /\ reg[p] = "zombie"
    /\ Remove(p)
    /\ UNCHANGED <<Goroutines, os, runtimes, mu, st, main, sa, todo, History>>

-----------------------------------------------------------------------------
(* KillChild, and StopRuntime as KillChild and StopAll call it *)

KillChild(k) ==
    /\ Serving
    /\ st[k].pc = "idle"
    /\ \E p \in Pids :
          /\ reg[p] \in InTable
          /\ st' = [st EXCEPT ![k] = [pc |-> "stop", pid |-> p, inst |-> NoInst]]
    /\ UNCHANGED <<reg, Goroutines, os, runtimes, mu, main, sa, todo, History>>

\* Slip: the entry stays in the map while the process is stopped.
StopRuntimeKeepsEntry(t) ==
    /\ ~Finished
    /\ st[t].pc = "stop"
    /\ mu = NoInst
    /\ LET i == runtimes[st[t].pid]
       IN  IF i = NoInst
           THEN /\ st' = [st EXCEPT ![t].pc = "answer"]
                /\ UNCHANGED stopped
           ELSE /\ st' = [st EXCEPT ![t].pc = "grace", ![t].inst = i]
                /\ stopped' = stopped \cup {i}
    /\ UNCHANGED <<reg, Goroutines, os, runtimes, mu, main, sa, todo, doomed>>

\* Take the entry out of the map before anything else; no entry is an error.
StopRuntime(t) ==
    /\ ~Finished
    /\ st[t].pc = "stop"
    /\ mu = NoInst
    /\ LET i == runtimes[st[t].pid]
       IN  IF i = NoInst
           THEN /\ st' = [st EXCEPT ![t].pc = "answer"]
                /\ UNCHANGED <<runtimes, stopped>>
           ELSE /\ st' = [st EXCEPT ![t].pc = "grace", ![t].inst = i]
                /\ runtimes' = [runtimes EXCEPT ![st[t].pid] = NoInst]
                /\ stopped' = stopped \cup {i}
    /\ UNCHANGED <<reg, Goroutines, os, mu, main, sa, todo, doomed>>

ExitChClosed(i) == pc[i] \notin {"none", "launching", "watch"}

StopExited(t) ==
    /\ ~Finished
    /\ st[t].pc \in {"grace", "killing"}
    /\ ExitChClosed(st[t].inst)
    /\ st' = [st EXCEPT ![t].pc = "answer"]
    /\ UNCHANGED <<reg, Goroutines, os, runtimes, mu, main, sa, todo, History>>

\* Slip: no deadline on the Shutdown call.
StopKillsTheDead(t) ==
    /\ ~Finished
    /\ st[t].pc = "grace"
    /\ os[st[t].inst] = "down"
    /\ st' = [st EXCEPT ![t].pc = "killing"]
    /\ UNCHANGED <<reg, Goroutines, os, runtimes, mu, main, sa, todo, History>>

\* Five seconds after the Shutdown call the OS process is killed.
StopKills(t) ==
    /\ ~Finished
    /\ st[t].pc = "grace"
    /\ os' = [os EXCEPT ![st[t].inst] = IF @ = "up" THEN "dying" ELSE @]
    /\ st' = [st EXCEPT ![t].pc = "killing"]
    /\ UNCHANGED <<reg, Goroutines, runtimes, mu, main, sa, todo, History>>

\* Slip: the deadline ends the wait and kills nothing.
StopGivesUpEarly(t) ==
    /\ ~Finished
    /\ st[t].pc \in {"grace", "killing"}
    /\ st' = [st EXCEPT ![t].pc = "answer"]
    /\ UNCHANGED <<reg, Goroutines, os, runtimes, mu, main, sa, todo, History>>

\* Two seconds later it is abandoned.
StopGivesUp(t) ==
    /\ ~Finished
    /\ st[t].pc = "killing"
    /\ st' = [st EXCEPT ![t].pc = "answer"]
    /\ UNCHANGED <<reg, Goroutines, os, runtimes, mu, main, sa, todo, History>>

KillAnswers(k) ==
    /\ ~Finished
    /\ st[k].pc = "answer"
    /\ SetState(st[k].pid, "zombie")
    /\ st' = [st EXCEPT ![k] = StopIdle]
    /\ UNCHANGED <<Goroutines, os, runtimes, mu, main, sa, todo, stopped, doomed>>

-----------------------------------------------------------------------------
(* Shutdown: main, and the goroutine that runs StopAll and GracefulStop *)

Signal ==
    /\ main = "up"
    /\ main' = "signalled"
    /\ sa' = "list"
    /\ UNCHANGED <<reg, Goroutines, os, runtimes, mu, st, todo, History>>

Tracked == {i \in Instances : runtimes[pid[i]] = i}

StopAll ==
    /\ ~Finished
    /\ sa = "list"
    /\ mu = NoInst
    /\ sa' = "stopping"
    /\ todo' = {p \in Pids : runtimes[p] # NoInst}
    /\ doomed' = Tracked
    /\ UNCHANGED <<reg, Goroutines, os, runtimes, mu, st, main, stopped>>

\* Slip: StopAll does not wait for the StopRuntime it started.
StopAllNextAsync ==
    /\ ~Finished
    /\ sa = "stopping"
    /\ IF todo = {}
       THEN /\ sa' = "draining"
            /\ st' = [st EXCEPT ![Main] = StopIdle]
            /\ UNCHANGED todo
       ELSE \E p \in todo :
               /\ st' = [st EXCEPT ![Main] = [pc |-> "stop", pid |-> p, inst |-> NoInst]]
               /\ todo' = todo \ {p}
               /\ UNCHANGED sa
    /\ UNCHANGED <<reg, Goroutines, os, runtimes, mu, main, History>>

\* The next PID of the list; after the last, GracefulStop.
StopAllNext ==
    /\ ~Finished
    /\ sa = "stopping"
    /\ st[Main].pc \in {"idle", "answer"}
    /\ IF todo = {}
       THEN /\ sa' = "draining"
            /\ st' = [st EXCEPT ![Main] = StopIdle]
            /\ UNCHANGED todo
       ELSE \E p \in todo :
               /\ st' = [st EXCEPT ![Main] = [pc |-> "stop", pid |-> p, inst |-> NoInst]]
               /\ todo' = todo \ {p}
               /\ UNCHANGED sa
    /\ UNCHANGED <<reg, Goroutines, os, runtimes, mu, main, History>>

\* GracefulStop has waited for the SpawnChild calls. A KillChild may be the
\* syscall of a task the cron poller runs, which nobody waits for.
Leave ==
    /\ main = "signalled"
    /\ sa = "draining"
    /\ \A p \in Pids : spawn[p] \in {"none", "done"}
    /\ main' = "exited"
    /\ UNCHANGED <<reg, Goroutines, os, runtimes, mu, st, sa, todo, History>>

\* A second signal, or fifteen seconds.
KillAll ==
    /\ main = "signalled"
    /\ mu = NoInst
    /\ os' = [i \in Instances |-> IF i \in Tracked /\ os[i] = "up" THEN "dying" ELSE os[i]]
    /\ stopped' = stopped \cup Tracked
    /\ runtimes' = [p \in Pids |-> NoInst]
    /\ main' = "forced"
    /\ UNCHANGED <<reg, Goroutines, mu, st, sa, todo, doomed>>

\* main returns; the other goroutines ran on until here.
Abort ==
    /\ main = "forced"
    /\ main' = "aborted"
    /\ UNCHANGED <<reg, Goroutines, os, runtimes, mu, st, sa, todo, History>>

-----------------------------------------------------------------------------
Init ==
    /\ reg = [p \in Pids |-> "new"]
    /\ spawn = [p \in Pids |-> "none"]
    /\ pid = [i \in Instances |-> CHOOSE p \in Pids : TRUE]
    /\ os = [i \in Instances |-> "none"]
    /\ pc = [i \in Instances |-> "none"]
    /\ seen = [i \in Instances |-> 0]
    /\ runtimes = [p \in Pids |-> NoInst]
    /\ mu = NoInst
    /\ by = NoInst
    /\ restartCounts = [p \in Pids |-> 0]
    /\ st = [t \in Stoppers |-> StopIdle]
    /\ main = "up"
    /\ sa = "none"
    /\ todo = {}
    /\ stopped = {}
    /\ doomed = {}

\* The kernel has exited; nothing but OS processes is left.
Over == Finished /\ UNCHANGED vars

SpawnStep(p) == Spawn(p) \/ SpawnStart(p) \/ Reap(p)

WatcherStep(i) ==
    \/ WaitReturns(i) \/ Untrack(i) \/ HandleChildExit(i)
    \/ ReadCount(i) \/ RecordRestart(i) \/ Restart(i) \/ SetRunning(i)

StopStep(t) == StopRuntime(t) \/ StopExited(t) \/ StopKills(t) \/ StopGivesUp(t)

MainStep == Signal \/ StopAll \/ StopAllNext \/ Leave \/ KillAll \/ Abort

Next ==
    \/ \E p \in Pids : SpawnStep(p)
    \/ LaunchOK \/ LaunchFails
    \/ \E i \in Instances : Exit(i) \/ WatcherStep(i)
    \/ \E t \in Stoppers : StopStep(t)
    \/ \E k \in Killers : KillChild(k) \/ KillAnswers(k)
    \/ MainStep
    \/ Over

Spec == Init /\ [][Next]_vars

\* Goroutines run and timers fire. Nothing makes an agent crash, a caller
\* call, or a user press a key; nor does GracefulStop return, as a stream that
\* was opened after the event log was closed never ends.
Fairness ==
    /\ \A p \in Pids : WF_vars(SpawnStart(p))
    /\ WF_vars(LaunchOK \/ LaunchFails)
    /\ \A i \in Instances : WF_vars(WatcherStep(i))
    /\ \A t \in Stoppers : WF_vars(StopStep(t))
    /\ \A k \in Killers : WF_vars(KillAnswers(k))
    /\ WF_vars(StopAll \/ StopAllNext)
    /\ WF_vars(KillAll \/ Abort)

FairSpec == Spec /\ Fairness

-----------------------------------------------------------------------------
(* Properties *)

WatcherPC == {"none", "launching", "watch", "exited", "setrunning", "done"} \cup Recovering

TypeOK ==
    /\ reg \in [Pids -> InTable \cup {"new", "removed"}]
    /\ spawn \in [Pids -> {"none", "registered", "starting", "done"}]
    /\ pid \in [Instances -> Pids]
    /\ os \in [Instances -> Alive \cup {"none", "down"}]
    /\ pc \in [Instances -> WatcherPC]
    /\ seen \in [Instances -> Nat]
    /\ runtimes \in [Pids -> InstOrNone]
    /\ mu \in InstOrNone
    /\ by \in InstOrNone
    /\ restartCounts \in [Pids -> 0..MaxRestartAttempts]
    /\ st \in [Stoppers -> [pc : {"idle", "stop", "grace", "killing", "answer"},
                            pid : Pids, inst : InstOrNone]]
    /\ main \in {"up", "signalled", "forced", "exited", "aborted"}
    /\ sa \in {"none", "list", "stopping", "draining"}
    /\ todo \subseteq Pids
    /\ stopped \subseteq Instances
    /\ doomed \subseteq Instances

\* The instance stands for its PID: it is being launched, is in the map, or
\* its crash is being dealt with.
Current(i) ==
    \/ pc[i] \in {"launching", "handle", "attempt", "record", "backoff"}
    \/ runtimes[pid[i]] = i

\* However spawns, crashes, restarts, kills and shutdown interleave, a PID is
\* never launched while another instance of it stands for it: no second
\* recovery of one crash, no restart that meets "already running".
OneIncarnation ==
    \A i, j \in Instances : pid[i] = pid[j] /\ Current(i) /\ Current(j) => i = j

\* A PID never has two OS processes at once, an abandoned or half-launched
\* one that still has to die included.
OneOSProcess ==
    \A i, j \in Instances : pid[i] = pid[j] /\ os[i] \in Alive /\ os[j] \in Alive => i = j

\* watchProcessExit only asks whether its PID has an entry. The entry it
\* finds, and deletes, is its own.
WatcherFindsItself ==
    \A i \in Instances : pc[i] = "exited" => runtimes[pid[i]] \in {i, NoInst}

\* onProcessExit is "NOT [called] when StopRuntime() kills it explicitly": no
\* recovery is begun for an instance StopRuntime or KillAll took.
StoppedStaysStopped == \A i \in stopped : pc[i] \notin Recovering

\* When the supervisor has given a daemon up, nothing runs, launches or is
\* about to launch under its PID.
DeadIsDown ==
    \A i \in Instances : reg[pid[i]] = "dead" => os[i] \notin Alive /\ ~Current(i)

\* Once StopAll is through, every runtime it found at the start is down,
\* killed, or in the hands of a KillChild that ran at the same time, crashes
\* and restarts in between notwithstanding.
StopAllStopsWhatItFound ==
    sa = "draining" =>
        \A i \in doomed :
            os[i] = "up" => \E k \in Killers : st[k].pc = "grace" /\ st[k].inst = i

\* Every OS process that runs is being launched, is in the map, or is waited
\* for by a StopRuntime: none is forgotten while it runs. This is all that
\* KillAll can miss when it "forcefully terminates all running agent runtimes".
NothingStray ==
    \A i \in Instances :
        os[i] = "up" => \/ mu = i
                       \/ runtimes[pid[i]] = i
                       \/ \E t \in Stoppers : st[t].pc = "grace" /\ st[t].inst = i

\* A daemon that crashes is launched again, or its row says that it is gone,
\* unless the kernel shuts down ("Always restart (daemons)").
DaemonComesBack ==
    \A i \in Instances :
        pc[i] = "attempt" ~> \/ runtimes[pid[i]] # NoInst
                             \/ reg[pid[i]] \notin {"idle", "running"}
                             \/ main # "up"

\* A KillChild answers, whatever launches it has to wait for at m.mu.
KillReturns ==
    \A k \in Killers : st[k].pc # "idle" ~> st[k].pc = "idle" \/ Finished

\* After the first signal the kernel exits.
ShutdownEnds == main = "signalled" ~> Finished
=============================================================================
