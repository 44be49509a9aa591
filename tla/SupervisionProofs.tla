------------------------- MODULE SupervisionProofs -------------------------
(***************************************************************************)
(* Proofs of the invariants of Supervision for every set of PIDs,          *)
(* instances and killers and every restart limit.                          *)
(*                                                                         *)
(* The heart is SoleHolder: at most one instance of a PID holds it, where  *)
(* an instance that was stopped keeps holding the PID until its watcher    *)
(* has seen that. A launch needs either a SpawnChild call that has not     *)
(* launched yet (no instance exists, SpawnInv) or a recovery in its backoff *)
(* (which is the holder), so a launch only ever passes the PID on.         *)
(***************************************************************************)
EXTENDS Supervision, TLAPS

\* A step is first-order unless it names SMT, for arithmetic and sequences.
USE Zenon

Holds(i) ==
    \/ pc[i] \in {"launching", "watch", "exited", "handle", "attempt", "record", "backoff"}
    \/ os[i] \in Alive

SoleHolder ==
    \A i, j \in Instances : pid[i] = pid[j] /\ Holds(i) /\ Holds(j) => i = j

\* The launch that holds m.mu, and who waits for it.
LockInv ==
    /\ \A i \in Instances : pc[i] = "launching" <=> mu = i
    /\ \A i \in Instances : pc[i] = "starting" <=> mu # NoInst /\ by = i
    /\ mu # NoInst /\ by # NoInst => pid[by] = pid[mu]
    /\ mu # NoInst /\ by = NoInst => spawn[pid[mu]] = "starting"
    /\ \A p \in Pids : spawn[p] = "starting" => mu # NoInst /\ by = NoInst /\ pid[mu] = p

\* Before its SpawnChild launches, a PID has no instance.
SpawnInv ==
    \A i \in Instances :
        pc[i] # "none" => spawn[pid[i]] \in {"starting", "done"}

\* Entries of the map, and what is behind an instance at each point of its life.
MapInv ==
    \A p \in Pids :
        runtimes[p] # NoInst =>
            /\ pid[runtimes[p]] = p
            /\ pc[runtimes[p]] \in {"watch", "exited"}
            /\ runtimes[p] \notin stopped

OSInv ==
    \A i \in Instances :
        /\ pc[i] = "none" <=> os[i] = "none"
        /\ os[i] = "up" => pc[i] \in {"launching", "watch"}
        /\ os[i] = "dying" => pc[i] \in {"watch", "done"}

\* A StopRuntime that waits has an instance it took out of the map.
WaitInv ==
    \A t \in Stoppers : st[t].pc \in {"grace", "killing"} => st[t].inst \in stopped

\* Nothing recovers what was stopped, and StopAll found launched instances.
StoppedInv ==
    /\ \A i \in stopped : pc[i] \in {"watch", "exited", "done"}
    /\ \A i \in doomed : pc[i] # "none"

SeenInv == \A i \in Instances : pc[i] = "record" => seen[i] < MaxRestartAttempts

DeadInv ==
    \A p \in Pids :
        reg[p] = "dead" =>
            /\ spawn[p] = "done"
            /\ \A i \in Instances : pid[i] = p => ~Holds(i)

\* A runtime StopAll found and that is still up: StopAll will come to it, or
\* some StopRuntime has it.
DoomedInv ==
    \A i \in doomed :
        os[i] = "up" =>
            \/ /\ sa = "stopping"
               /\ runtimes[pid[i]] = i
               /\ pid[i] \in todo \/ (st[Main].pc = "stop" /\ st[Main].pid = pid[i])
            \/ \E t \in Stoppers :
                  /\ st[t].pc = "grace"
                  /\ st[t].inst = i
                  /\ t = Main => sa = "stopping"

\* StopAll has not begun before the first signal.
PhaseInv == main = "up" => sa = "none"

IndInv ==
    /\ TypeOK
    /\ SoleHolder
    /\ LockInv
    /\ SpawnInv
    /\ MapInv
    /\ OSInv
    /\ WaitInv
    /\ StoppedInv
    /\ SeenInv
    /\ DeadInv
    /\ DoomedInv
    /\ PhaseInv

USE ProcessAssumption, ConfigAssumption

\* The inductive invariant survives the step Spawn of the code.
LEMMA SpawnPreserves ==
    ASSUME IndInv, NEW p \in Pids, Spawn(p)
    PROVE  IndInv'
<1>1. TypeOK'
  BY DEF IndInv, TypeOK, InstOrNone, Stoppers, InTable, Alive, Recovering,
         WatcherPC, Spawn, Serving, Goroutines, History
<1>2. LockInv'
  BY DEF IndInv, TypeOK, InstOrNone, Stoppers, LockInv, Spawn, Serving,
         Goroutines, History
<1>3. SpawnInv'
  BY DEF IndInv, TypeOK, SpawnInv, Spawn, Serving, Goroutines, History
<1>4. DeadInv'
  BY DEF IndInv, TypeOK, DeadInv, Holds, Alive, Spawn, Serving, Goroutines,
         History
<1>5. SoleHolder' /\ MapInv' /\ OSInv' /\ WaitInv' /\ StoppedInv' /\ SeenInv' /\ DoomedInv' /\ PhaseInv'
  BY SMT DEF IndInv, SoleHolder, Holds, Alive, MapInv, OSInv, WaitInv, Stoppers,
         StoppedInv, SeenInv, DoomedInv, PhaseInv, Spawn, Serving, Goroutines,
         History
<1>. QED  BY <1>1, <1>2, <1>3, <1>4, <1>5 DEF IndInv

\* The inductive invariant survives the step SpawnStart of the code.
LEMMA SpawnStartPreserves ==
    ASSUME IndInv, NEW p \in Pids, SpawnStart(p)
    PROVE  IndInv'
<1>1. TypeOK'
  BY SMTT(20) DEF IndInv, TypeOK, InstOrNone, Stoppers, InTable, Alive, Recovering,
         WatcherPC, SpawnStart, Launch, Remove, Goroutines, History
<1>2. SoleHolder'
  BY SMT DEF IndInv, TypeOK, SoleHolder, Holds, Alive, SpawnInv, OSInv,
         SpawnStart, Launch, Remove, Goroutines, History
<1>3. LockInv'
  BY SMT DEF IndInv, TypeOK, InstOrNone, Stoppers, LockInv, SpawnStart, Launch,
         Remove, Goroutines, History
<1>4. SpawnInv'
  BY SMT DEF IndInv, TypeOK, SpawnInv, SpawnStart, Launch, Remove, Goroutines,
         History
<1>5. MapInv'
  BY SMT DEF IndInv, TypeOK, InstOrNone, Stoppers, MapInv, SpawnStart, Launch,
         Remove, Goroutines, History
<1>6. OSInv'
  BY SMT DEF IndInv, TypeOK, OSInv, Alive, SpawnStart, Launch, Remove, Goroutines,
         History
<1>7. StoppedInv'
  BY SMT DEF IndInv, TypeOK, StoppedInv, SpawnStart, Launch, Remove, Goroutines,
         History
<1>8. SeenInv'
  BY SMT DEF IndInv, TypeOK, SeenInv, SpawnStart, Launch, Remove, Goroutines,
         History
<1>9. DeadInv'
  BY SMT DEF IndInv, TypeOK, DeadInv, Holds, Alive, SpawnStart, Launch, Remove,
         Goroutines, History
<1>10. DoomedInv'
  BY SMT DEF IndInv, TypeOK, InstOrNone, Stoppers, DoomedInv, MapInv, OSInv,
         StoppedInv, SpawnStart, Launch, Remove, Goroutines, History
<1>11. WaitInv' /\ PhaseInv'
  BY DEF IndInv, WaitInv, Stoppers, PhaseInv, SpawnStart, Launch, Remove,
         Goroutines, History
<1>. QED  BY <1>1, <1>2, <1>3, <1>4, <1>5, <1>6, <1>7, <1>8, <1>9, <1>10, <1>11 DEF IndInv

\* The inductive invariant survives the step LaunchOK of the code.
LEMMA LaunchOKPreserves ==
    ASSUME IndInv, LaunchOK
    PROVE  IndInv'
<1>1. TypeOK'
  BY DEF IndInv, TypeOK, InstOrNone, Stoppers, InTable, Alive, Recovering,
         WatcherPC, LaunchOK, Goroutines, History
<1>2. SoleHolder'
  BY SMT DEF IndInv, TypeOK, SoleHolder, Holds, Alive, LaunchOK, Goroutines,
         History
<1>3. LockInv'
  BY SMT DEF IndInv, TypeOK, InstOrNone, Stoppers, LockInv, LaunchOK, Goroutines,
         History
<1>4. SpawnInv'
  BY SMT DEF IndInv, TypeOK, SpawnInv, LockInv, LaunchOK, Goroutines, History
<1>5. MapInv'
  BY SMT DEF IndInv, TypeOK, InstOrNone, Stoppers, MapInv, LockInv, StoppedInv,
         SoleHolder, Holds, LaunchOK, Goroutines, History
<1>6. OSInv'
  BY SMT DEF IndInv, TypeOK, OSInv, Alive, LockInv, LaunchOK, Goroutines, History
<1>7. StoppedInv'
  BY SMT DEF IndInv, TypeOK, InstOrNone, StoppedInv, LockInv, LaunchOK, Goroutines,
         History
<1>8. SeenInv'
  BY DEF IndInv, TypeOK, SeenInv, LaunchOK, Goroutines, History
<1>9. DeadInv'
  BY SMT DEF IndInv, TypeOK, DeadInv, Holds, Alive, LaunchOK, Goroutines, History
<1>10. DoomedInv'
  BY SMT DEF IndInv, TypeOK, InstOrNone, Stoppers, DoomedInv, LockInv, MapInv,
         SoleHolder, Holds, OSInv, LaunchOK, Goroutines, History
<1>11. WaitInv' /\ PhaseInv'
  BY DEF IndInv, WaitInv, Stoppers, PhaseInv, LaunchOK, Goroutines, History
<1>. QED  BY <1>1, <1>2, <1>3, <1>4, <1>5, <1>6, <1>7, <1>8, <1>9, <1>10, <1>11 DEF IndInv

\* The inductive invariant survives the step LaunchFails of the code.
LEMMA LaunchFailsPreserves ==
    ASSUME IndInv, LaunchFails
    PROVE  IndInv'
<1>1. TypeOK'
  BY SMT DEF IndInv, TypeOK, InstOrNone, Stoppers, InTable, Alive, Recovering,
         WatcherPC, LaunchFails, Remove, Goroutines, History
<1>2. SoleHolder'
  BY SMT DEF IndInv, TypeOK, SoleHolder, Holds, Alive, LaunchFails, Remove,
         Goroutines, History
<1>3. LockInv'
  BY SMT DEF IndInv, TypeOK, InstOrNone, Stoppers, LockInv, LaunchFails, Remove,
         Goroutines, History
<1>4. SpawnInv'
  BY SMT DEF IndInv, TypeOK, SpawnInv, LockInv, LaunchFails, Remove, Goroutines,
         History
<1>5. MapInv'
  BY SMT DEF IndInv, TypeOK, InstOrNone, Stoppers, MapInv, LockInv, LaunchFails,
         Remove, Goroutines, History
<1>6. OSInv'
  BY SMT DEF IndInv, TypeOK, OSInv, Alive, LockInv, LaunchFails, Remove,
         Goroutines, History
<1>7. StoppedInv'
  BY SMT DEF IndInv, TypeOK, StoppedInv, LaunchFails, Remove, Goroutines, History
<1>8. SeenInv'
  BY DEF IndInv, TypeOK, SeenInv, LaunchFails, Remove, Goroutines, History
<1>9. DeadInv'
  BY SMT DEF IndInv, TypeOK, DeadInv, Holds, Alive, LaunchFails, Remove,
         Goroutines, History
<1>10. DoomedInv'
  BY SMT DEF IndInv, TypeOK, InstOrNone, Stoppers, DoomedInv, LaunchFails, Remove,
         Goroutines, History
<1>11. WaitInv' /\ PhaseInv'
  BY DEF IndInv, WaitInv, Stoppers, PhaseInv, LaunchFails, Remove, Goroutines,
         History
<1>. QED  BY <1>1, <1>2, <1>3, <1>4, <1>5, <1>6, <1>7, <1>8, <1>9, <1>10, <1>11 DEF IndInv

\* The inductive invariant survives the step Exit of the code.
LEMMA ExitPreserves ==
    ASSUME IndInv, NEW i \in Instances, Exit(i)
    PROVE  IndInv'
<1>1. TypeOK'
  BY DEF IndInv, TypeOK, InstOrNone, Stoppers, InTable, Alive, Recovering,
         WatcherPC, Exit, Goroutines, History
<1>2. SoleHolder'
  BY SMT DEF IndInv, TypeOK, SoleHolder, Holds, Alive, Exit, Goroutines, History
<1>3. OSInv'
  BY DEF IndInv, TypeOK, OSInv, Alive, Exit, Goroutines, History
<1>4. DeadInv'
  BY DEF IndInv, TypeOK, DeadInv, Holds, Alive, Exit, Goroutines, History
<1>5. DoomedInv'
  BY SMT DEF IndInv, TypeOK, InstOrNone, Stoppers, DoomedInv, Exit, Goroutines,
         History
<1>6. LockInv' /\ SpawnInv' /\ MapInv' /\ WaitInv' /\ StoppedInv' /\ SeenInv' /\ PhaseInv'
  BY DEF IndInv, LockInv, SpawnInv, MapInv, WaitInv, Stoppers, StoppedInv,
         SeenInv, PhaseInv, Exit, Goroutines, History
<1>. QED  BY <1>1, <1>2, <1>3, <1>4, <1>5, <1>6 DEF IndInv

\* The inductive invariant survives the step WaitReturns of the code.
LEMMA WaitReturnsPreserves ==
    ASSUME IndInv, NEW i \in Instances, WaitReturns(i)
    PROVE  IndInv'
<1>1. TypeOK'
  BY DEF IndInv, TypeOK, InstOrNone, Stoppers, InTable, Alive, Recovering,
         WatcherPC, WaitReturns, Goroutines, History
<1>2. SoleHolder'
  BY SMT DEF IndInv, TypeOK, SoleHolder, Holds, Alive, WaitReturns, Goroutines,
         History
<1>3. LockInv'
  BY DEF IndInv, TypeOK, InstOrNone, Stoppers, LockInv, WaitReturns,
         Goroutines, History
<1>4. SpawnInv'
  BY DEF IndInv, TypeOK, SpawnInv, WaitReturns, Goroutines, History
<1>5. MapInv'
  BY SMT DEF IndInv, TypeOK, InstOrNone, Stoppers, MapInv, WaitReturns,
         Goroutines, History
<1>6. OSInv'
  BY DEF IndInv, TypeOK, OSInv, Alive, WaitReturns, Goroutines, History
<1>7. StoppedInv'
  BY DEF IndInv, TypeOK, StoppedInv, WaitReturns, Goroutines, History
<1>8. SeenInv'
  BY DEF IndInv, TypeOK, SeenInv, WaitReturns, Goroutines, History
<1>9. DeadInv'
  BY SMT DEF IndInv, TypeOK, DeadInv, Holds, Alive, WaitReturns, Goroutines,
         History
<1>10. WaitInv' /\ DoomedInv' /\ PhaseInv'
  BY SMT DEF IndInv, WaitInv, Stoppers, DoomedInv, PhaseInv, WaitReturns,
         Goroutines, History
<1>. QED  BY <1>1, <1>2, <1>3, <1>4, <1>5, <1>6, <1>7, <1>8, <1>9, <1>10 DEF IndInv

\* The inductive invariant survives the step Untrack of the code.
LEMMA UntrackPreserves ==
    ASSUME IndInv, NEW i \in Instances, Untrack(i)
    PROVE  IndInv'
<1>1. TypeOK'
  BY DEF IndInv, TypeOK, InstOrNone, Stoppers, InTable, Alive, Recovering,
         WatcherPC, Untrack, Goroutines, History
<1>2. SoleHolder'
  BY SMT DEF IndInv, TypeOK, SoleHolder, Holds, Alive, Untrack, Goroutines,
         History
<1>3. LockInv'
  BY DEF IndInv, TypeOK, InstOrNone, Stoppers, LockInv, Untrack, Goroutines,
         History
<1>4. SpawnInv'
  BY DEF IndInv, TypeOK, SpawnInv, Untrack, Goroutines, History
<1>5. MapInv'
  BY SMT DEF IndInv, TypeOK, InstOrNone, Stoppers, MapInv, Untrack, Goroutines,
         History
<1>6. OSInv'
  BY DEF IndInv, TypeOK, OSInv, Alive, Untrack, Goroutines, History
<1>7. StoppedInv'
  BY SMT DEF IndInv, TypeOK, InstOrNone, StoppedInv, MapInv, SoleHolder, Holds, Untrack,
         Goroutines, History
<1>8. SeenInv'
  BY DEF IndInv, TypeOK, SeenInv, Untrack, Goroutines, History
<1>9. DeadInv'
  BY SMT DEF IndInv, TypeOK, DeadInv, Holds, Alive, Untrack, Goroutines, History
<1>10. DoomedInv'
  BY SMT DEF IndInv, TypeOK, InstOrNone, Stoppers, DoomedInv, MapInv, SoleHolder,
         Holds, OSInv, Untrack, Goroutines, History
<1>11. WaitInv' /\ PhaseInv'
  BY DEF IndInv, WaitInv, Stoppers, PhaseInv, Untrack, Goroutines, History
<1>. QED  BY <1>1, <1>2, <1>3, <1>4, <1>5, <1>6, <1>7, <1>8, <1>9, <1>10, <1>11 DEF IndInv

\* The inductive invariant survives the step HandleChildExit of the code.
LEMMA HandleChildExitPreserves ==
    ASSUME IndInv, NEW i \in Instances, HandleChildExit(i)
    PROVE  IndInv'
<1>1. TypeOK'
  BY SMT DEF IndInv, TypeOK, InstOrNone, Stoppers, InTable, Alive, Recovering,
         WatcherPC, HandleChildExit, SetState, Goroutines, History
<1>2. SoleHolder'
  BY SMT DEF IndInv, TypeOK, SoleHolder, Holds, Alive, HandleChildExit, SetState,
         Goroutines, History
<1>3. LockInv'
  BY SMT DEF IndInv, TypeOK, InstOrNone, Stoppers, LockInv, HandleChildExit,
         SetState, Goroutines, History
<1>4. SpawnInv'
  BY DEF IndInv, TypeOK, SpawnInv, HandleChildExit, SetState, Goroutines,
         History
<1>5. MapInv'
  BY SMT DEF IndInv, TypeOK, InstOrNone, Stoppers, MapInv, HandleChildExit,
         SetState, Goroutines, History
<1>6. OSInv'
  BY SMT DEF IndInv, TypeOK, OSInv, Alive, HandleChildExit, SetState, Goroutines,
         History
<1>7. StoppedInv'
  BY SMT DEF IndInv, TypeOK, StoppedInv, HandleChildExit, SetState, Goroutines,
         History
<1>8. SeenInv'
  BY DEF IndInv, TypeOK, SeenInv, HandleChildExit, SetState, Goroutines,
         History
<1>9. DeadInv'
  BY SMT DEF IndInv, TypeOK, DeadInv, Holds, Alive, HandleChildExit, SetState,
         Goroutines, History
<1>10. WaitInv' /\ DoomedInv' /\ PhaseInv'
  BY SMT DEF IndInv, WaitInv, Stoppers, DoomedInv, PhaseInv, HandleChildExit,
         SetState, Goroutines, History
<1>. QED  BY <1>1, <1>2, <1>3, <1>4, <1>5, <1>6, <1>7, <1>8, <1>9, <1>10 DEF IndInv

\* The inductive invariant survives the step ReadCount of the code.
LEMMA ReadCountPreserves ==
    ASSUME IndInv, NEW i \in Instances, ReadCount(i)
    PROVE  IndInv'
<1>1. TypeOK'
  BY SMT DEF IndInv, TypeOK, InstOrNone, Stoppers, InTable, Alive, Recovering,
         WatcherPC, ReadCount, SetState, Goroutines, History
<1>2. SoleHolder'
  BY SMT DEF IndInv, TypeOK, SoleHolder, Holds, Alive, ReadCount, SetState,
         Goroutines, History
<1>3. LockInv'
  BY SMT DEF IndInv, TypeOK, InstOrNone, Stoppers, LockInv, ReadCount, SetState,
         Goroutines, History
<1>4. SpawnInv'
  BY SMT DEF IndInv, TypeOK, SpawnInv, ReadCount, SetState, Goroutines, History
<1>5. MapInv'
  BY SMT DEF IndInv, TypeOK, InstOrNone, Stoppers, MapInv, ReadCount, SetState,
         Goroutines, History
<1>6. OSInv'
  BY SMT DEF IndInv, TypeOK, OSInv, Alive, ReadCount, SetState, Goroutines,
         History
<1>7. StoppedInv'
  BY SMT DEF IndInv, TypeOK, StoppedInv, ReadCount, SetState, Goroutines, History
<1>8. SeenInv'
  BY SMT DEF IndInv, TypeOK, SeenInv, ReadCount, SetState, Goroutines, History
<1>9. DeadInv'
  BY SMT DEF IndInv, TypeOK, InstOrNone, DeadInv, Holds, Alive, SpawnInv, LockInv,
         SoleHolder, OSInv, ReadCount, SetState, Goroutines, History
<1>10. WaitInv' /\ DoomedInv' /\ PhaseInv'
  BY SMT DEF IndInv, WaitInv, Stoppers, DoomedInv, PhaseInv, ReadCount, SetState,
         Goroutines, History
<1>. QED  BY <1>1, <1>2, <1>3, <1>4, <1>5, <1>6, <1>7, <1>8, <1>9, <1>10 DEF IndInv

\* The inductive invariant survives the step RecordRestart of the code.
LEMMA RecordRestartPreserves ==
    ASSUME IndInv, NEW i \in Instances, RecordRestart(i)
    PROVE  IndInv'
<1>1. TypeOK'
  BY SMT DEF IndInv, TypeOK, InstOrNone, Stoppers, InTable, Alive, Recovering,
         WatcherPC, SeenInv, RecordRestart, Goroutines, History
<1>2. SoleHolder'
  BY SMT DEF IndInv, TypeOK, SoleHolder, Holds, Alive, RecordRestart, Goroutines,
         History
<1>3. LockInv'
  BY DEF IndInv, TypeOK, InstOrNone, Stoppers, LockInv, RecordRestart,
         Goroutines, History
<1>4. SpawnInv'
  BY DEF IndInv, TypeOK, SpawnInv, RecordRestart, Goroutines, History
<1>5. MapInv'
  BY SMT DEF IndInv, TypeOK, InstOrNone, Stoppers, MapInv, RecordRestart,
         Goroutines, History
<1>6. OSInv'
  BY DEF IndInv, TypeOK, OSInv, Alive, RecordRestart, Goroutines, History
<1>7. StoppedInv'
  BY DEF IndInv, TypeOK, StoppedInv, RecordRestart, Goroutines, History
<1>8. SeenInv'
  BY DEF IndInv, TypeOK, SeenInv, RecordRestart, Goroutines, History
<1>9. DeadInv'
  BY SMT DEF IndInv, TypeOK, DeadInv, Holds, Alive, RecordRestart, Goroutines,
         History
<1>10. WaitInv' /\ DoomedInv' /\ PhaseInv'
  BY SMT DEF IndInv, WaitInv, Stoppers, DoomedInv, PhaseInv, RecordRestart,
         Goroutines, History
<1>. QED  BY <1>1, <1>2, <1>3, <1>4, <1>5, <1>6, <1>7, <1>8, <1>9, <1>10 DEF IndInv

\* The inductive invariant survives the step Restart of the code.
LEMMA RestartPreserves ==
    ASSUME IndInv, NEW i \in Instances, Restart(i)
    PROVE  IndInv'
<1>1. TypeOK'
  BY SMTT(20) DEF IndInv, TypeOK, InstOrNone, Stoppers, InTable, Alive, Recovering,
         WatcherPC, Restart, Launch, Goroutines, History
<1>2. SoleHolder'
  BY SMT DEF IndInv, TypeOK, SoleHolder, Holds, Alive, OSInv, Restart, Launch,
         Goroutines, History
<1>3. LockInv'
  BY SMT DEF IndInv, TypeOK, InstOrNone, Stoppers, LockInv, Restart, Launch,
         Goroutines, History
<1>4. SpawnInv'
  BY SMT DEF IndInv, TypeOK, SpawnInv, Restart, Launch, Goroutines, History
<1>5. MapInv'
  BY SMT DEF IndInv, TypeOK, InstOrNone, Stoppers, MapInv, Restart, Launch,
         Goroutines, History
<1>6. OSInv'
  BY SMT DEF IndInv, TypeOK, OSInv, Alive, Restart, Launch, Goroutines, History
<1>7. StoppedInv'
  BY SMT DEF IndInv, TypeOK, StoppedInv, Restart, Launch, Goroutines, History
<1>8. SeenInv'
  BY SMT DEF IndInv, TypeOK, SeenInv, Restart, Launch, Goroutines, History
<1>9. DeadInv'
  BY SMTT(20) DEF IndInv, TypeOK, DeadInv, Holds, Alive, Restart, Launch, Goroutines,
         History
<1>10. DoomedInv'
  BY SMT DEF IndInv, TypeOK, InstOrNone, Stoppers, DoomedInv, MapInv, OSInv,
         StoppedInv, Restart, Launch, Goroutines, History
<1>11. WaitInv' /\ PhaseInv'
  BY DEF IndInv, WaitInv, Stoppers, PhaseInv, Restart, Launch, Goroutines,
         History
<1>. QED  BY <1>1, <1>2, <1>3, <1>4, <1>5, <1>6, <1>7, <1>8, <1>9, <1>10, <1>11 DEF IndInv

\* The inductive invariant survives the step SetRunning of the code.
LEMMA SetRunningPreserves ==
    ASSUME IndInv, NEW i \in Instances, SetRunning(i)
    PROVE  IndInv'
<1>1. TypeOK'
  BY DEF IndInv, TypeOK, InstOrNone, Stoppers, InTable, Alive, Recovering,
         WatcherPC, SetRunning, SetState, Goroutines, History
<1>2. SoleHolder'
  BY SMT DEF IndInv, TypeOK, SoleHolder, Holds, Alive, SetRunning, SetState,
         Goroutines, History
<1>3. LockInv'
  BY DEF IndInv, TypeOK, InstOrNone, Stoppers, LockInv, SetRunning, SetState,
         Goroutines, History
<1>4. SpawnInv'
  BY DEF IndInv, TypeOK, SpawnInv, SetRunning, SetState, Goroutines, History
<1>5. MapInv'
  BY SMT DEF IndInv, TypeOK, InstOrNone, Stoppers, MapInv, SetRunning, SetState,
         Goroutines, History
<1>6. OSInv'
  BY DEF IndInv, TypeOK, OSInv, Alive, SetRunning, SetState, Goroutines,
         History
<1>7. StoppedInv'
  BY DEF IndInv, TypeOK, StoppedInv, SetRunning, SetState, Goroutines, History
<1>8. SeenInv'
  BY DEF IndInv, TypeOK, SeenInv, SetRunning, SetState, Goroutines, History
<1>9. DeadInv'
  BY DEF IndInv, TypeOK, DeadInv, Holds, Alive, SetRunning, SetState,
         Goroutines, History
<1>10. WaitInv' /\ DoomedInv' /\ PhaseInv'
  BY SMT DEF IndInv, WaitInv, Stoppers, DoomedInv, PhaseInv, SetRunning, SetState,
         Goroutines, History
<1>. QED  BY <1>1, <1>2, <1>3, <1>4, <1>5, <1>6, <1>7, <1>8, <1>9, <1>10 DEF IndInv

\* The inductive invariant survives the step Reap of the code.
LEMMA ReapPreserves ==
    ASSUME IndInv, NEW p \in Pids, Reap(p)
    PROVE  IndInv'
<1>1. TypeOK'
  BY DEF IndInv, TypeOK, InstOrNone, Stoppers, InTable, Alive, Recovering,
         WatcherPC, Reap, Remove, Goroutines, History
<1>2. DeadInv'
  BY ZenonT(30) DEF IndInv, TypeOK, DeadInv, Holds, Alive, Reap, Remove, Goroutines,
         History
<1>3. SoleHolder' /\ LockInv' /\ SpawnInv' /\ MapInv' /\ OSInv' /\ WaitInv' /\ StoppedInv' /\ SeenInv' /\ DoomedInv' /\ PhaseInv'
  BY SMT DEF IndInv, SoleHolder, Holds, Alive, LockInv, SpawnInv, MapInv, OSInv,
         WaitInv, Stoppers, StoppedInv, SeenInv, DoomedInv, PhaseInv, Reap,
         Remove, Goroutines, History
<1>. QED  BY <1>1, <1>2, <1>3 DEF IndInv

\* The inductive invariant survives the step KillChild of the code.
LEMMA KillChildPreserves ==
    ASSUME IndInv, NEW k \in Killers, KillChild(k)
    PROVE  IndInv'
<1>1. TypeOK'
  BY SMT DEF IndInv, TypeOK, InstOrNone, Stoppers, InTable, Alive, Recovering,
         WatcherPC, KillChild, Serving, Goroutines, History
<1>2. WaitInv'
  BY SMTT(20) DEF IndInv, TypeOK, InstOrNone, Stoppers, WaitInv, KillChild, Serving,
         Goroutines, History
<1>3. DoomedInv'
  BY SMTT(20) DEF IndInv, TypeOK, InstOrNone, Stoppers, DoomedInv, KillChild, Serving,
         Goroutines, History
<1>4. SoleHolder' /\ LockInv' /\ SpawnInv' /\ MapInv' /\ OSInv' /\ StoppedInv' /\ SeenInv' /\ DeadInv' /\ PhaseInv'
  BY SMT DEF IndInv, SoleHolder, Holds, Alive, LockInv, SpawnInv, MapInv, OSInv,
         StoppedInv, SeenInv, DeadInv, PhaseInv, KillChild, Serving,
         Goroutines, History
<1>. QED  BY <1>1, <1>2, <1>3, <1>4 DEF IndInv

\* The inductive invariant survives the step StopRuntime of the code.
LEMMA StopRuntimePreserves ==
    ASSUME IndInv, NEW t \in Stoppers, StopRuntime(t)
    PROVE  IndInv'
<1>1. TypeOK'
  BY SMTT(20) DEF IndInv, TypeOK, InstOrNone, Stoppers, InTable, Alive, Recovering,
         WatcherPC, StopRuntime, Goroutines, History
<1>2. MapInv'
  BY SMT DEF IndInv, TypeOK, InstOrNone, Stoppers, MapInv, StopRuntime,
         Goroutines, History
<1>3. WaitInv'
  BY SMT DEF IndInv, TypeOK, InstOrNone, Stoppers, WaitInv, StopRuntime,
         Goroutines, History
<1>4. StoppedInv'
  BY SMT DEF IndInv, TypeOK, StoppedInv, MapInv, StopRuntime, Goroutines, History
<1>5. DoomedInv'
  <2>1. /\ st \in [Stoppers -> [pc : {"idle", "stop", "grace", "killing", "answer"},
                               pid : Pids, inst : InstOrNone]]
        /\ runtimes \in [Pids -> InstOrNone] /\ pid \in [Instances -> Pids]
        /\ doomed \subseteq Instances /\ Main \in Stoppers /\ NoInst \notin Instances
    BY DEF IndInv, TypeOK, Stoppers
  <2>2. st[t].pc = "stop" /\ UNCHANGED <<os, pid, sa, todo, doomed>>
    BY DEF StopRuntime, Goroutines
  <2>3. \A u \in Stoppers \ {t} : st'[u] = st[u]
    BY <2>1 DEF StopRuntime
  <2>4. CASE runtimes[st[t].pid] = NoInst
    <3>1. runtimes' = runtimes
      BY <2>4 DEF StopRuntime
    <3> QED
      BY <2>1, <2>2, <2>3, <2>4, <3>1, SMT DEF IndInv, DoomedInv
  <2>5. CASE runtimes[st[t].pid] # NoInst
    <3>1. /\ runtimes' = [runtimes EXCEPT ![st[t].pid] = NoInst]
          /\ st'[t].pc = "grace" /\ st'[t].inst = runtimes[st[t].pid]
      BY <2>1, <2>5, SMT DEF StopRuntime
    <3>2. ASSUME NEW i \in doomed, os[i] = "up", st[t].pid = pid[i], runtimes[pid[i]] = i
          PROVE  \E u \in Stoppers : /\ st'[u].pc = "grace"
                                     /\ st'[u].inst = i
                                     /\ u = Main => sa = "stopping"
      <4>1. t = Main => sa = "stopping"
        BY <2>1, <2>2, <2>3, <3>2, SMT DEF IndInv, DoomedInv, WaitInv, MapInv
      <4> QED
        BY <3>1, <3>2, <4>1
    <3>3. ASSUME NEW i \in doomed, os[i] = "up", st[t].pid # pid[i]
          PROVE  runtimes'[pid[i]] = runtimes[pid[i]]
      BY <2>1, <3>1, <3>3
    <3> QED
      BY <2>1, <2>2, <2>3, <3>1, <3>2, <3>3, SMT DEF IndInv, DoomedInv
  <2> QED
    BY <2>4, <2>5
<1>6. SoleHolder' /\ LockInv' /\ SpawnInv' /\ OSInv' /\ SeenInv' /\ DeadInv' /\ PhaseInv'
  BY SMT DEF IndInv, SoleHolder, Holds, Alive, LockInv, SpawnInv, OSInv, SeenInv,
         DeadInv, PhaseInv, StopRuntime, Goroutines, History
<1>. QED  BY <1>1, <1>2, <1>3, <1>4, <1>5, <1>6 DEF IndInv

\* The inductive invariant survives the step StopExited of the code.
LEMMA StopExitedPreserves ==
    ASSUME IndInv, NEW t \in Stoppers, StopExited(t)
    PROVE  IndInv'
<1>1. TypeOK'
  BY SMT DEF IndInv, TypeOK, InstOrNone, Stoppers, InTable, Alive, Recovering,
         WatcherPC, StopExited, ExitChClosed, Goroutines, History
<1>2. WaitInv'
  BY SMT DEF IndInv, TypeOK, InstOrNone, Stoppers, WaitInv, StopExited,
         ExitChClosed, Goroutines, History
<1>3. DoomedInv'
  BY SMT DEF IndInv, TypeOK, InstOrNone, Stoppers, DoomedInv, OSInv, StopExited,
         ExitChClosed, Goroutines, History
<1>4. SoleHolder' /\ LockInv' /\ SpawnInv' /\ MapInv' /\ OSInv' /\ StoppedInv' /\ SeenInv' /\ DeadInv' /\ PhaseInv'
  BY SMT DEF IndInv, SoleHolder, Holds, Alive, LockInv, SpawnInv, MapInv, OSInv,
         StoppedInv, SeenInv, DeadInv, PhaseInv, StopExited, ExitChClosed,
         Goroutines, History
<1>. QED  BY <1>1, <1>2, <1>3, <1>4 DEF IndInv

\* The inductive invariant survives the step StopKills of the code.
LEMMA StopKillsPreserves ==
    ASSUME IndInv, NEW t \in Stoppers, StopKills(t)
    PROVE  IndInv'
<1>1. TypeOK'
  <2>1. os' \in [Instances -> Alive \cup {"none", "down"}]
    BY DEF IndInv, TypeOK, Alive, StopKills
  <2>2. st' \in [Stoppers -> [pc : {"idle", "stop", "grace", "killing", "answer"},
                             pid : Pids, inst : InstOrNone]]
    BY SMT DEF IndInv, TypeOK, StopKills
  <2>. QED  BY <2>1, <2>2 DEF IndInv, TypeOK, StopKills, Goroutines, History
<1>2. SoleHolder'
  BY SMT DEF IndInv, TypeOK, SoleHolder, Holds, Alive, StopKills, Goroutines,
         History
<1>3. OSInv'
  BY DEF IndInv, TypeOK, OSInv, Alive, WaitInv, StoppedInv, StopKills,
         Goroutines, History
<1>4. WaitInv'
  BY SMT DEF IndInv, TypeOK, InstOrNone, Stoppers, WaitInv, StopKills, Goroutines,
         History
<1>5. DeadInv'
  BY SMT DEF IndInv, TypeOK, DeadInv, Holds, Alive, StopKills, Goroutines, History
<1>6. DoomedInv'
  BY SMT DEF IndInv, TypeOK, InstOrNone, Stoppers, DoomedInv, StopKills,
         Goroutines, History
<1>7. LockInv' /\ SpawnInv' /\ MapInv' /\ StoppedInv' /\ SeenInv' /\ PhaseInv'
  BY SMT DEF IndInv, LockInv, SpawnInv, MapInv, StoppedInv, SeenInv, PhaseInv,
         StopKills, Goroutines, History
<1>. QED  BY <1>1, <1>2, <1>3, <1>4, <1>5, <1>6, <1>7 DEF IndInv

\* The inductive invariant survives the step StopGivesUp of the code.
LEMMA StopGivesUpPreserves ==
    ASSUME IndInv, NEW t \in Stoppers, StopGivesUp(t)
    PROVE  IndInv'
<1>1. TypeOK'
  BY SMT DEF IndInv, TypeOK, InstOrNone, Stoppers, InTable, Alive, Recovering,
         WatcherPC, StopGivesUp, Goroutines, History
<1>2. WaitInv'
  BY SMT DEF IndInv, TypeOK, InstOrNone, Stoppers, WaitInv, StopGivesUp,
         Goroutines, History
<1>3. DoomedInv'
  BY SMT DEF IndInv, TypeOK, InstOrNone, Stoppers, DoomedInv, StopGivesUp,
         Goroutines, History
<1>4. SoleHolder' /\ LockInv' /\ SpawnInv' /\ MapInv' /\ OSInv' /\ StoppedInv' /\ SeenInv' /\ DeadInv' /\ PhaseInv'
  BY SMT DEF IndInv, SoleHolder, Holds, Alive, LockInv, SpawnInv, MapInv, OSInv,
         StoppedInv, SeenInv, DeadInv, PhaseInv, StopGivesUp, Goroutines,
         History
<1>. QED  BY <1>1, <1>2, <1>3, <1>4 DEF IndInv

\* The inductive invariant survives the step KillAnswers of the code.
LEMMA KillAnswersPreserves ==
    ASSUME IndInv, NEW k \in Killers, KillAnswers(k)
    PROVE  IndInv'
<1>1. TypeOK'
  BY DEF IndInv, TypeOK, InstOrNone, Stoppers, InTable, Alive, Recovering,
         WatcherPC, KillAnswers, SetState, StopIdle, Goroutines, History
<1>2. WaitInv'
  BY DEF IndInv, TypeOK, InstOrNone, Stoppers, WaitInv, KillAnswers, SetState,
         StopIdle, Goroutines, History
<1>3. DeadInv'
  BY ZenonT(30) DEF IndInv, TypeOK, DeadInv, Holds, Alive, KillAnswers, SetState,
         StopIdle, Goroutines, History
<1>4. DoomedInv'
  BY SMTT(20) DEF IndInv, TypeOK, InstOrNone, Stoppers, DoomedInv, KillAnswers,
         SetState, StopIdle, Goroutines, History
<1>5. SoleHolder' /\ LockInv' /\ SpawnInv' /\ MapInv' /\ OSInv' /\ StoppedInv' /\ SeenInv' /\ PhaseInv'
  BY SMT DEF IndInv, SoleHolder, Holds, Alive, LockInv, SpawnInv, MapInv, OSInv,
         StoppedInv, SeenInv, PhaseInv, KillAnswers, SetState, StopIdle,
         Goroutines, History
<1>. QED  BY <1>1, <1>2, <1>3, <1>4, <1>5 DEF IndInv

\* The inductive invariant survives the step Signal of the code.
LEMMA SignalPreserves ==
    ASSUME IndInv, Signal
    PROVE  IndInv'
<1>1. TypeOK'
  BY DEF IndInv, TypeOK, InstOrNone, Stoppers, InTable, Alive, Recovering,
         WatcherPC, Signal, Goroutines, History
<1>2. DoomedInv'
  BY SMT DEF IndInv, TypeOK, InstOrNone, Stoppers, DoomedInv, PhaseInv, Signal,
         Goroutines, History
<1>3. PhaseInv'
  BY DEF IndInv, TypeOK, PhaseInv, Signal, Goroutines, History
<1>4. SoleHolder' /\ LockInv' /\ SpawnInv' /\ MapInv' /\ OSInv' /\ WaitInv' /\ StoppedInv' /\ SeenInv' /\ DeadInv'
  BY SMT DEF IndInv, SoleHolder, Holds, Alive, LockInv, SpawnInv, MapInv, OSInv,
         WaitInv, Stoppers, StoppedInv, SeenInv, DeadInv, Signal, Goroutines,
         History
<1>. QED  BY <1>1, <1>2, <1>3, <1>4 DEF IndInv

\* The inductive invariant survives the step StopAll of the code.
LEMMA StopAllPreserves ==
    ASSUME IndInv, StopAll
    PROVE  IndInv'
<1>1. TypeOK'
  BY DEF IndInv, TypeOK, InstOrNone, Stoppers, InTable, Alive, Recovering,
         WatcherPC, StopAll, Tracked, Goroutines, History
<1>2. DoomedInv'
  BY SMT DEF IndInv, TypeOK, InstOrNone, Stoppers, DoomedInv, StopAll, Tracked,
         Goroutines, History
<1>3. PhaseInv'
  BY DEF IndInv, TypeOK, PhaseInv, StopAll, Tracked, Goroutines, History
<1>4. StoppedInv'
  BY SMTT(20) DEF IndInv, TypeOK, InstOrNone, StoppedInv, MapInv, StopAll, Tracked,
         Goroutines, History
<1>5. SoleHolder' /\ LockInv' /\ SpawnInv' /\ MapInv' /\ OSInv' /\ WaitInv' /\ SeenInv' /\ DeadInv'
  BY SMT DEF IndInv, SoleHolder, Holds, Alive, LockInv, SpawnInv, MapInv, OSInv,
         WaitInv, Stoppers, SeenInv, DeadInv, StopAll, Tracked, Goroutines,
         History
<1>. QED  BY <1>1, <1>2, <1>3, <1>4, <1>5 DEF IndInv

\* What only speaks of processes, watchers and the lock survives a step that
\* leaves them alone.
LEMMA ProcessesUntouched ==
    ASSUME IndInv,
           reg' = reg, spawn' = spawn, pid' = pid, pc' = pc, seen' = seen, by' = by,
           os' = os, runtimes' = runtimes, mu' = mu, stopped' = stopped, doomed' = doomed
    PROVE  /\ SoleHolder' /\ LockInv' /\ SpawnInv' /\ MapInv'
           /\ OSInv' /\ StoppedInv' /\ SeenInv' /\ DeadInv'
<1>1. \A i \in Instances : Holds(i)' <=> Holds(i)
  BY DEF Holds, Alive
<1>2. SoleHolder'
  BY <1>1 DEF IndInv, SoleHolder
<1>3. LockInv'
  BY DEF IndInv, LockInv
<1>4. SpawnInv' /\ SeenInv'
  BY DEF IndInv, SpawnInv, SeenInv
<1>5. MapInv'
  BY DEF IndInv, MapInv
<1>6. OSInv'
  BY DEF IndInv, OSInv
<1>7. StoppedInv'
  BY DEF IndInv, StoppedInv
<1>8. DeadInv'
  BY <1>1 DEF IndInv, DeadInv
<1>. QED  BY <1>2, <1>3, <1>4, <1>5, <1>6, <1>7, <1>8

\* The inductive invariant survives the step StopAllNext of the code.
LEMMA StopAllNextPreserves ==
    ASSUME IndInv, StopAllNext
    PROVE  IndInv'
<1>1. TypeOK'
  BY SMTT(20) DEF IndInv, TypeOK, InstOrNone, Stoppers, InTable, Alive, Recovering,
         WatcherPC, StopAllNext, StopIdle, Goroutines, History
<1>2. WaitInv'
  BY SMTT(20) DEF IndInv, TypeOK, InstOrNone, Stoppers, WaitInv, StopAllNext, StopIdle,
         Goroutines, History
<1>3. DoomedInv'
  BY SMT DEF IndInv, TypeOK, InstOrNone, Stoppers, DoomedInv, StopAllNext,
         StopIdle, Goroutines, History
<1>4. PhaseInv'
  BY ZenonT(30) DEF IndInv, TypeOK, PhaseInv, StopAllNext, StopIdle, Goroutines, History
<1>5. /\ SoleHolder' /\ LockInv' /\ SpawnInv' /\ MapInv'
      /\ OSInv' /\ StoppedInv' /\ SeenInv' /\ DeadInv'
  BY ProcessesUntouched DEF StopAllNext, Goroutines, History
<1>. QED  BY <1>1, <1>2, <1>3, <1>4, <1>5 DEF IndInv

\* The inductive invariant survives the step Leave of the code.
LEMMA LeavePreserves ==
    ASSUME IndInv, Leave
    PROVE  IndInv'
<1>1. TypeOK'
  BY DEF IndInv, TypeOK, InstOrNone, Stoppers, InTable, Alive, Recovering,
         WatcherPC, Leave, Goroutines, History
<1>2. PhaseInv'
  BY ZenonT(30) DEF IndInv, TypeOK, PhaseInv, Leave, Goroutines, History
<1>3. /\ SoleHolder' /\ LockInv' /\ SpawnInv' /\ MapInv'
      /\ OSInv' /\ StoppedInv' /\ SeenInv' /\ DeadInv'
  BY ProcessesUntouched DEF Leave, Goroutines, History
<1>4. WaitInv' /\ DoomedInv'
  BY DEF IndInv, WaitInv, DoomedInv, Leave, Goroutines, History
<1>. QED  BY <1>1, <1>2, <1>3, <1>4 DEF IndInv

\* The inductive invariant survives the step KillAll of the code.
LEMMA KillAllPreserves ==
    ASSUME IndInv, KillAll
    PROVE  IndInv'
<1>1. TypeOK'
  BY DEF IndInv, TypeOK, InstOrNone, Stoppers, InTable, Alive, Recovering,
         WatcherPC, KillAll, Tracked, Goroutines, History
<1>2. SoleHolder'
  BY SMT DEF IndInv, TypeOK, SoleHolder, Holds, Alive, KillAll, Tracked,
         Goroutines, History
<1>3. MapInv'
  BY DEF IndInv, TypeOK, InstOrNone, Stoppers, MapInv, KillAll, Tracked,
         Goroutines, History
<1>4. OSInv'
  BY SMT DEF IndInv, TypeOK, OSInv, Alive, MapInv, KillAll, Tracked, Goroutines,
         History
<1>5. WaitInv'
  BY DEF IndInv, TypeOK, InstOrNone, Stoppers, WaitInv, KillAll, Tracked,
         Goroutines, History
<1>6. StoppedInv'
  BY SMT DEF IndInv, TypeOK, StoppedInv, MapInv, KillAll, Tracked, Goroutines,
         History
<1>7. DeadInv'
  BY DEF IndInv, TypeOK, DeadInv, Holds, Alive, KillAll, Tracked, Goroutines,
         History
<1>8. DoomedInv'
  BY SMT DEF IndInv, TypeOK, InstOrNone, Stoppers, DoomedInv, KillAll, Tracked,
         Goroutines, History
<1>9. PhaseInv'
  BY DEF IndInv, TypeOK, PhaseInv, KillAll, Tracked, Goroutines, History
<1>10. LockInv' /\ SpawnInv' /\ SeenInv'
  BY DEF IndInv, LockInv, SpawnInv, SeenInv, KillAll, Tracked, Goroutines,
         History
<1>. QED  BY <1>1, <1>2, <1>3, <1>4, <1>5, <1>6, <1>7, <1>8, <1>9, <1>10 DEF IndInv

\* The inductive invariant survives the step Abort of the code.
LEMMA AbortPreserves ==
    ASSUME IndInv, Abort
    PROVE  IndInv'
<1>1. TypeOK'
  BY ZenonT(30) DEF IndInv, TypeOK, InstOrNone, Stoppers, InTable, Alive, Recovering,
         WatcherPC, Abort, Goroutines, History
<1>2. PhaseInv'
  BY DEF IndInv, TypeOK, PhaseInv, Abort, Goroutines, History
<1>3. /\ SoleHolder' /\ LockInv' /\ SpawnInv' /\ MapInv'
      /\ OSInv' /\ StoppedInv' /\ SeenInv' /\ DeadInv'
  BY ProcessesUntouched DEF Abort, Goroutines, History
<1>4. WaitInv' /\ DoomedInv'
  BY DEF IndInv, WaitInv, DoomedInv, Abort, Goroutines, History
<1>. QED  BY <1>1, <1>2, <1>3, <1>4 DEF IndInv

-----------------------------------------------------------------------------
\* The kernel starts in a state of the inductive invariant.
LEMMA InitEstablishes ==
    ASSUME Init
    PROVE  IndInv
<1>. DEFINE somePid == CHOOSE p \in Pids : TRUE
<1>1. somePid \in Pids
  OBVIOUS
<1>2. TypeOK
  <2>1. StopIdle \in [pc : {"idle", "stop", "grace", "killing", "answer"},
                     pid : Pids, inst : InstOrNone]
    BY <1>1 DEF StopIdle, InstOrNone
  <2>2. 0 \in 0..MaxRestartAttempts
    BY SMT
  <2>3. pid \in [Instances -> Pids]
    BY <1>1 DEF Init
  <2>. QED  BY <2>1, <2>2, <2>3, ZenonT(60) DEF Init, TypeOK, InTable, InstOrNone, Alive,
                                    Recovering, WatcherPC
<1>3. SoleHolder /\ LockInv /\ SpawnInv /\ OSInv /\ SeenInv
  BY DEF Init, SoleHolder, Holds, Alive, LockInv, SpawnInv, OSInv, SeenInv
<1>4. MapInv /\ WaitInv /\ StoppedInv /\ DeadInv /\ DoomedInv /\ PhaseInv
  BY <1>1, ZenonT(60) DEF Init, MapInv, WaitInv, StoppedInv, DeadInv, DoomedInv, PhaseInv,
              StopIdle, Stoppers
<1>. QED  BY <1>2, <1>3, <1>4 DEF IndInv

\* A step that changes nothing keeps the inductive invariant.
LEMMA StutterPreserves ==
    ASSUME IndInv, UNCHANGED vars
    PROVE  IndInv'
<1>1. /\ SoleHolder' /\ LockInv' /\ SpawnInv' /\ MapInv'
      /\ OSInv' /\ StoppedInv' /\ SeenInv' /\ DeadInv'
  BY ProcessesUntouched DEF vars
<1>2. WaitInv' /\ DoomedInv' /\ PhaseInv'
  BY DEF IndInv, WaitInv, DoomedInv, PhaseInv, vars
<1>3. TypeOK'
  BY DEF IndInv, TypeOK, vars
<1>. QED  BY <1>1, <1>2, <1>3 DEF IndInv

\* Every step of the kernel keeps the inductive invariant.
LEMMA NextPreserves ==
    ASSUME IndInv, [Next]_vars
    PROVE  IndInv'
<1>1. ASSUME NEW p \in Pids, SpawnStep(p)  PROVE IndInv'
  BY <1>1, SpawnPreserves, SpawnStartPreserves, ReapPreserves DEF SpawnStep
<1>2. ASSUME NEW i \in Instances, Exit(i) \/ WatcherStep(i)  PROVE IndInv'
  BY <1>2, ExitPreserves, WaitReturnsPreserves, UntrackPreserves,
     HandleChildExitPreserves, ReadCountPreserves, RecordRestartPreserves,
     RestartPreserves, SetRunningPreserves DEF WatcherStep
<1>3. ASSUME NEW t \in Stoppers, StopStep(t)  PROVE IndInv'
  BY <1>3, StopRuntimePreserves, StopExitedPreserves, StopKillsPreserves,
     StopGivesUpPreserves DEF StopStep
<1>4. ASSUME NEW k \in Killers, KillChild(k) \/ KillAnswers(k)  PROVE IndInv'
  BY <1>4, KillChildPreserves, KillAnswersPreserves
<1>5. CASE MainStep
  BY <1>5, SignalPreserves, StopAllPreserves, StopAllNextPreserves,
     LeavePreserves, KillAllPreserves, AbortPreserves DEF MainStep
<1>6. CASE LaunchOK \/ LaunchFails
  BY <1>6, LaunchOKPreserves, LaunchFailsPreserves
<1>7. CASE Over \/ UNCHANGED vars
  BY <1>7, StutterPreserves DEF Over
<1>. QED  BY <1>1, <1>2, <1>3, <1>4, <1>5, <1>6, <1>7 DEF Next

\* The strengthening is inductive, hence an invariant.
THEOREM Invariance == Spec => []IndInv
BY InitEstablishes, NextPreserves, PTL DEF Spec

\* The restart counter of the supervisor stays within its limit, and every
\* other variable of the model in its type.
THEOREM SupervisionTypes == Spec => []TypeOK
<1>1. IndInv => TypeOK
  BY DEF IndInv
<1>. QED  BY <1>1, Invariance, PTL

\* StartRuntime, watchProcessExit, attemptRestart and StopRuntime together
\* give a PID one incarnation at a time.
THEOREM OneIncarnationAlways == Spec => []OneIncarnation
<1>1. IndInv => OneIncarnation
  <2>. SUFFICES ASSUME IndInv, NEW i \in Instances, NEW j \in Instances,
                       pid[i] = pid[j], Current(i), Current(j)
                PROVE  i = j
    BY DEF OneIncarnation
  <2>1. \A k \in Instances : Current(k) => Holds(k)
    BY SMT DEF IndInv, TypeOK, MapInv, Current, Holds
  <2>. QED  BY <2>1 DEF IndInv, SoleHolder
<1>. QED  BY <1>1, Invariance, PTL

\* Nor does a PID ever have two OS processes, whatever StopRuntime abandons
\* and launchAndConnect kills.
THEOREM OneOSProcessAlways == Spec => []OneOSProcess
<1>1. IndInv => OneOSProcess
  BY DEF IndInv, SoleHolder, Holds, OneOSProcess
<1>. QED  BY <1>1, Invariance, PTL

\* The presence check of watchProcessExit is enough to identify the entry.
THEOREM WatcherChecksItsOwnEntry == Spec => []WatcherFindsItself
<1>1. IndInv => WatcherFindsItself
  BY SMT DEF IndInv, TypeOK, InstOrNone, MapInv, SoleHolder, Holds, WatcherFindsItself
<1>. QED  BY <1>1, Invariance, PTL

\* What StopRuntime or KillAll stops is never handed to HandleChildExit.
THEOREM NoRecoveryAfterStop == Spec => []StoppedStaysStopped
<1>1. IndInv => StoppedStaysStopped
  BY DEF IndInv, StoppedInv, StoppedStaysStopped, Recovering
<1>. QED  BY <1>1, Invariance, PTL

\* A row attemptRestart has marked dead has no OS process and gets none.
THEOREM DeadStaysDown == Spec => []DeadIsDown
<1>1. IndInv => DeadIsDown
  <2>. SUFFICES ASSUME IndInv, NEW i \in Instances, reg[pid[i]] = "dead"
                PROVE  os[i] \notin Alive /\ ~Current(i)
    BY DEF DeadIsDown
  <2>1. ~Holds(i)
    BY DEF IndInv, TypeOK, DeadInv
  <2>2. Current(i) => Holds(i)
    BY SMT DEF IndInv, TypeOK, MapInv, Current, Holds
  <2>. QED  BY <2>1, <2>2 DEF Holds
<1>. QED  BY <1>1, Invariance, PTL

\* StopAll misses none of the runtimes it listed, although it takes them one
\* at a time while kills, crashes and restarts change the map.
THEOREM StopAllIsThorough == Spec => []StopAllStopsWhatItFound
<1>1. IndInv => StopAllStopsWhatItFound
  BY DEF IndInv, DoomedInv, Stoppers, StopAllStopsWhatItFound
<1>. QED  BY <1>1, Invariance, PTL

\* One step of any goroutine leaves no OS process behind.
LEMMA StepLeavesNoStray ==
    ASSUME IndInv, NothingStray, [Next]_vars
    PROVE  NothingStray'
<1> USE DEF NothingStray
<1>0. /\ pid \in [Instances -> Pids] /\ os \in [Instances -> Alive \cup {"none", "down"}]
      /\ runtimes \in [Pids -> InstOrNone]
      /\ st \in [Stoppers -> [pc : {"idle", "stop", "grace", "killing", "answer"},
                              pid : Pids, inst : InstOrNone]]
  BY DEF IndInv, TypeOK
<1>1. CASE UNCHANGED <<pid, os, runtimes, mu, st>>
  BY <1>1
<1>2. ASSUME NEW p \in Pids, SpawnStart(p) PROVE NothingStray'
  BY <1>0, <1>2, SMT DEF SpawnStart, Launch, IndInv, OSInv
<1>3. CASE LaunchOK
  <2>1. /\ mu \in Instances /\ os[mu] = "up" /\ mu' = NoInst
        /\ runtimes' = [runtimes EXCEPT ![pid[mu]] = mu] /\ UNCHANGED <<pid, os, st>>
    BY <1>3 DEF LaunchOK, IndInv, TypeOK, InstOrNone
  <2>2. \A i \in Instances : os[i] = "up" /\ pid[i] = pid[mu] => i = mu
    BY <2>1 DEF IndInv, SoleHolder, Holds, Alive
  <2> QED
    BY <1>0, <2>1, <2>2
<1>4. CASE LaunchFails
  BY <1>0, <1>4 DEF LaunchFails
<1>5. ASSUME NEW i \in Instances, Exit(i) PROVE NothingStray'
  BY <1>0, <1>5 DEF Exit, Goroutines
<1>6. ASSUME NEW i \in Instances, Untrack(i) PROVE NothingStray'
  BY <1>0, <1>6, SMT DEF Untrack, IndInv, OSInv, MapInv, SoleHolder, Holds
<1>7. ASSUME NEW i \in Instances, Restart(i) PROVE NothingStray'
  BY <1>0, <1>7, SMT DEF Restart, Launch, IndInv, OSInv
<1>8. ASSUME NEW t \in Stoppers, StopStep(t) PROVE NothingStray'
  <2>1. CASE StopRuntime(t)
    BY <1>0, <2>1, SMT DEF StopRuntime, Goroutines
  <2>2. CASE StopExited(t)
    BY <1>0, <2>2, SMT DEF StopExited, Goroutines, ExitChClosed, IndInv, OSInv
  <2>3. CASE StopKills(t)
    BY <1>0, <2>3 DEF StopKills, Goroutines
  <2>4. CASE StopGivesUp(t)
    BY <1>0, <2>4 DEF StopGivesUp, Goroutines
  <2> QED
    BY <1>8, <2>1, <2>2, <2>3, <2>4 DEF StopStep
<1>9. ASSUME NEW k \in Killers, KillChild(k) \/ KillAnswers(k) PROVE NothingStray'
  <2>1. st[k].pc # "grace" /\ UNCHANGED <<pid, os, runtimes, mu>>
    BY <1>9 DEF KillChild, KillAnswers, Goroutines
  <2>2. \A u \in Stoppers \ {k} : st'[u] = st[u]
    BY <1>0, <1>9, SMT DEF KillChild, KillAnswers
  <2> QED
    BY <2>1, <2>2, SMT
<1>10. CASE StopAllNext
  <2>1. st[Main].pc # "grace" /\ UNCHANGED <<pid, os, runtimes, mu>>
    BY ZenonT(60), <1>10 DEF StopAllNext, Goroutines
  <2>2. \A u \in Stoppers \ {Main} : st'[u] = st[u]
    BY <1>0, <1>10, SMT DEF StopAllNext
  <2> QED
    BY <2>1, <2>2, SMT
<1>11. CASE KillAll
  BY <1>0, <1>11 DEF KillAll, Tracked, Goroutines
<1>12. CASE Signal \/ StopAll \/ Leave \/ Abort \/ Over \/ UNCHANGED vars
  BY <1>1, <1>12 DEF Signal, StopAll, Leave, Abort, Over, vars, Goroutines
<1>13. ASSUME NEW p \in Pids, Spawn(p) \/ Reap(p) PROVE NothingStray'
  BY <1>1, <1>13 DEF Spawn, Reap, Goroutines
<1>14. ASSUME NEW i \in Instances,
              WaitReturns(i) \/ HandleChildExit(i) \/ ReadCount(i) \/ RecordRestart(i) \/ SetRunning(i)
       PROVE  NothingStray'
  BY <1>1, <1>14 DEF WaitReturns, HandleChildExit, ReadCount, RecordRestart, SetRunning
<1> QED
  BY <1>2, <1>3, <1>4, <1>5, <1>6, <1>7, <1>8, <1>9, <1>10, <1>11, <1>12, <1>13, <1>14
     DEF Next, SpawnStep, WatcherStep, MainStep

\* Every running OS process is being launched, is tracked, or is waited for by
\* a StopRuntime.
THEOREM NoProcessForgotten == Spec => []NothingStray
<1>1. Init => NothingStray
  BY DEF Init, NothingStray
<1> QED
  BY <1>1, StepLeavesNoStray, Invariance, PTL DEF Spec
=============================================================================
