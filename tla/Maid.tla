-------------------------------- MODULE Maid --------------------------------
(***************************************************************************)
(* The maid (sdk/python/hivekernel_sdk/maid.py) beside the process table.  *)
(* The maid has no snapshot of the table: it asks for one PID after        *)
(* another, from 1 upwards, while processes are spawned, killed, reparented*)
(* and removed, and calls a process an orphan from answers of different    *)
(* moments. Its loop, its handle_task and its cron_task each scan with     *)
(* locals of their own and share nothing, so one scan stands for any.      *)
(***************************************************************************)
EXTENDS ProcessTree

CONSTANT MaxPidScan     \* _max_pid_scan

ASSUME ScanAssumption == MaxPidScan \in Pids

VARIABLE maid           \* program counter and locals of the scan

maidVars == <<registered, ppid, attr, state, byName, nextPID, sp, kl, scan, reap, maid>>

\* at is the PID asked for next, found the PIDs that were answered, par and st
\* what the answers said. Only for the properties: failed, the PIDs whose
\* lookup failed although it need not have, and born, the PID counter when the
\* scan began.
Scan == [pc : {"idle", "scan", "store", "escalate"}, at : 1..(MaxPID + 1),
         found : SUBSET Pids, par : [Pids -> PidOr0], st : [Pids -> States],
         failed : SUBSET Pids, born : 1..(MaxPID + 1)]

IdleScan == [pc |-> "idle", at |-> 1, found |-> {}, par |-> [p \in Pids |-> NoPID],
             st |-> [p \in Pids |-> "idle"], failed |-> {}, born |-> 1]

MaidInit == Init /\ maid = IdleScan

-----------------------------------------------------------------------------
(* _scan *)

\* The loop's sleep ends, a task or a cron message arrives.
Wake ==
    /\ maid.pc = "idle"
    /\ maid' = [maid EXCEPT !.pc = "scan", !.born = nextPID]

\* Slip: from the highest PID down.
PidAtDown(n) == MaxPidScan + 1 - n

\* range(1, _max_pid_scan + 1)
PidAt(n) == n

Advance(m) == IF m.at = MaxPidScan THEN [m EXCEPT !.pc = "store"] ELSE [m EXCEPT !.at = m.at + 1]

\* GetProcessInfo answers with the entry as it is now.
Answered(p) ==
    [maid EXCEPT !.found = maid.found \cup {p},
                 !.par = [maid.par EXCEPT ![p] = ppid[p]],
                 !.st = [maid.st EXCEPT ![p] = state[p]]]

Probe ==
    /\ maid.pc = "scan"
    /\ LET p == PidAt(maid.at)
       IN  maid' = Advance(IF p \in registered THEN Answered(p) ELSE maid)

\* Whatever a lookup raises is read as "PID doesn't exist".
ProbeFails ==
    /\ maid.pc = "scan"
    /\ LET p == PidAt(maid.at)
       IN  maid' = Advance([maid EXCEPT !.failed = maid.failed \cup {p}])

Ended(s) == s \in {"zombie", "dead"}

Zombies == {p \in maid.found : maid.st[p] = "zombie"}

\* Processes whose parent is missing from the answers, and those whose parent
\* had ended.
Adrift ==
    {p \in maid.found : /\ maid.par[p] # NoPID
                        /\ ~Ended(maid.st[p])
                        /\ maid.par[p] \notin maid.found}

Orphans ==
    Adrift \cup {p \in maid.found : /\ maid.par[p] \in maid.found
                                    /\ ~Ended(maid.st[p])
                                    /\ Ended(maid.st[maid.par[p]])}

-----------------------------------------------------------------------------
(* _health_loop, handle_task, handle_message *)

\* The report is stored as an artifact or sent to the one who asked; a failure
\* is logged. With anomalies the loop, not the other two, goes on to escalate.
Store ==
    /\ maid.pc = "store"
    /\ \/ maid' = IdleScan
       \/ Zombies \cup Orphans # {} /\ maid' = [maid EXCEPT !.pc = "escalate"]

Escalate == maid.pc = "escalate" /\ maid' = IdleScan

\* on_shutdown cancels the loop; on_init of the next incarnation starts it anew.
Stop == maid.pc # "idle" /\ maid' = IdleScan

MaidStep == Wake \/ Probe \/ ProbeFails \/ Store \/ Escalate \/ Stop

MaidNext ==
    \/ Next /\ UNCHANGED maid
    \/ MaidStep /\ UNCHANGED vars

MaidSpec == MaidInit /\ [][MaidNext]_maidVars

-----------------------------------------------------------------------------
(* Properties *)

\* A process is reported as one whose "Parent not found at all" only if the
\* parent was spawned after the scan began or its lookup failed: no interleaving
\* of the reaper's reparenting and removing with the lookups of _scan makes an
\* older process look like an orphan. It needs the upward order of the scan, the
\* age order of the tree, and that a process is removed after its children have
\* moved.
MissingParentIsNew ==
    maid.pc \in {"store", "escalate"} =>
        \A p \in Adrift : maid.par[p] \in maid.failed \/ maid.par[p] >= maid.born
=============================================================================
