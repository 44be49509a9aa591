---------------------------- MODULE ProcessTree ----------------------------
(***************************************************************************)
(* The process table of the kernel and everything that changes its shape:  *)
(*                                                                         *)
(*   - Registry (internal/process/registry.go), the table itself;          *)
(*   - King.SpawnChild and Spawner.Spawn, run by any number of concurrent  *)
(*     RPC handlers and syscalls: look the parent up, validate, register,  *)
(*     start the runtime, and on failure take the entry out again;         *)
(*   - KillChild / handleKill, which zombify a snapshot of a subtree;      *)
(*   - Supervisor.reapZombies, the one goroutine that reparents and        *)
(*     removes;                                                            *)
(*   - the state changes the supervisor and the cron poller make.          *)
(*                                                                         *)
(* One step is one critical section of Registry.mu (or one unlocked read   *)
(* of a Process field): between any two of them the other goroutines run.  *)
(* A Process is reached through a pointer, so its fields outlive its       *)
(* removal: ppid, attr and state are total functions over the PIDs and     *)
(* registered is the key set of Registry.processes.                        *)
(***************************************************************************)
EXTENDS Naturals, FiniteSets

CONSTANTS
    MaxPID,             \* bound: PIDs handed out in one behaviour
    Names,              \* process names
    Roles,              \* roles a spawn request may ask for
    Tiers,              \* cognitive tiers, 0 is the most capable
    Users,              \* user identities
    KernelMaxChildren,  \* Limits.MaxChildren of PID 1, 0 is "no limit"
    ChildMaxChildren,   \* Limits.MaxChildren of every other process
    Spawners,           \* goroutines that run King.SpawnChild
    Killers,            \* goroutines that run KillChild
    CronTargets,        \* PIDs with a cron entry whose action is "wake"
    LaunchMayFail       \* may a spawn fail after the process is registered

ASSUME BoundAssumption == MaxPID \in Nat \ {0}

ASSUME LimitAssumption ==
    /\ KernelMaxChildren \in Nat
    /\ ChildMaxChildren \in Nat
    /\ LaunchMayFail \in BOOLEAN

\* Requests ask for the documented roles of an agent; PID 1 is the only kernel.
ASSUME RequestAssumption ==
    /\ "king" \in Names
    /\ "root" \in Users
    /\ "kernel" \notin Roles
    /\ Tiers \subseteq Nat
    /\ 0 \in Tiers

NoPID   == 0
KingPID == 1
Pids    == 1..MaxPID
PidOr0  == 0..MaxPID

\* The fields of Process that no code writes after Spawn.
Attr == [name : Names, role : Roles \cup {"kernel"}, tier : Tiers, user : Users]

KernelAttr == [name |-> "king", role |-> "kernel", tier |-> 0, user |-> "root"]

\* StateBlocked and StateSleeping have no writer outside tests and are left out.
States == {"idle", "running", "dead", "zombie"}

VARIABLES
    registered,  \* keys of Registry.processes
    ppid,        \* Process.PPID
    attr,        \* Process.Name, Role, CognitiveTier, User
    state,       \* Process.State
    byName,      \* Registry.byName, 0 where the key is absent
    nextPID,     \* Registry.nextPID
    sp,          \* program counter and locals of each SpawnChild in progress
    kl,          \* program counter and locals of each KillChild in progress
    scan,        \* zombies the current reapZombies call finds past their timeout
    reap         \* program counter and locals of reapZombies

table == <<registered, ppid, attr, state, byName, nextPID>>
vars  == <<registered, ppid, attr, state, byName, nextPID, sp, kl, scan, reap>>

SpawnPC   == {"idle", "check", "count", "register", "launch"}
SpawnCall == [pc : SpawnPC, parent : PidOr0, attr : Attr, pid : PidOr0]
KillCall  == [pc : {"idle", "kill"}, target : PidOr0, todo : SUBSET Pids]
ReapCall  == [pc : {"idle", "children", "reparent"}, cur : PidOr0, kids : SUBSET Pids]

\* PIDs that have been handed out, removed ones included.
Allocated == 1..(nextPID - 1)

-----------------------------------------------------------------------------
(* Registry *)

Children(p) == {c \in registered : ppid[c] = p /\ c # p}

\* GetDescendants: the closure of Children, one generation per index.
Descendants(p) ==
    LET gen[n \in 0..MaxPID] ==
            IF n = 0 THEN {p} ELSE gen[n - 1] \cup {c \in registered : ppid[c] \in gen[n - 1]}
    IN  {c \in registered : c # p /\ ppid[c] \in Pids /\ ppid[c] \in gen[MaxPID]}

\* SetState: no guard on the transition, an error when the PID is gone. The
\* write refreshes UpdatedAt, so a scan in progress no longer finds the
\* process past its timeout.
SetState(p, s) ==
    IF p \in registered
    THEN /\ state' = [state EXCEPT ![p] = s]
         /\ scan' = scan \ {p}
    ELSE UNCHANGED <<state, scan>>

Register(parent, a) ==
    /\ nextPID <= MaxPID
    /\ registered' = registered \cup {nextPID}
    /\ ppid' = [ppid EXCEPT ![nextPID] = parent]
    /\ attr' = [attr EXCEPT ![nextPID] = a]
    /\ state' = [state EXCEPT ![nextPID] = "idle"]
    /\ byName' = [byName EXCEPT ![a.name] = nextPID]
    /\ nextPID' = nextPID + 1

\* Slip: the name stays in the index.
RemoveKeepingName(p) ==
    IF p \in registered
    THEN registered' = registered \ {p} /\ UNCHANGED byName
    ELSE UNCHANGED <<registered, byName>>

\* Remove deletes the name as well, whichever process the name now denotes.
Remove(p) ==
    IF p \in registered
    THEN /\ registered' = registered \ {p}
         /\ byName' = [byName EXCEPT ![attr[p].name] = NoPID]
    ELSE UNCHANGED <<registered, byName>>

-----------------------------------------------------------------------------
(* King.SpawnChild *)

\* Roles the default ACL rules and the capability table both let spawn.
MaySpawn(role) == role \in {"kernel", "daemon", "agent", "lead", "worker"}

\* ValidateInheritance, with an empty user resolved to the parent's by Spawn.
UserInherited(parent, a) ==
    attr[parent].role # "kernel" => a.user = attr[parent].user

MaxChildren(p) == IF p = KingPID THEN KernelMaxChildren ELSE ChildMaxChildren

IdleSpawn == [pc |-> "idle", parent |-> NoPID, attr |-> KernelAttr, pid |-> NoPID]

\* The permission checks and Registry.Get(parent). What they read of the
\* parent never changes, so the last lookup decides for all of them.
SpawnLookup(s) ==
    /\ sp[s].pc = "idle"
    /\ \E parent \in registered, a \in Attr :
          /\ a.role \in Roles
          /\ MaySpawn(attr[parent].role)
          /\ UserInherited(parent, a)
          /\ sp' = [sp EXCEPT ![s] = [pc |-> "check", parent |-> parent,
                                      attr |-> a, pid |-> NoPID]]
    /\ UNCHANGED <<table, kl, scan, reap>>

\* Slip: zombies count as alive.
ParentNotDead(p) == state[p] # "dead"

ParentAlive(p) == state[p] \notin {"dead", "zombie"}

\* Slip: the comparison with the parent is missing.
TierUnchecked(parent, a) == ~(a.role = "task" /\ a.tier = 0)

TierAllowed(parent, a) ==
    /\ a.tier >= attr[parent].tier
    /\ ~(a.role = "task" /\ a.tier = 0)

\* The part of validate that reads the parent's fields through the pointer.
SpawnCheck(s) ==
    /\ sp[s].pc = "check"
    /\ IF ParentAlive(sp[s].parent) /\ TierAllowed(sp[s].parent, sp[s].attr)
       THEN sp' = [sp EXCEPT ![s].pc = "count"]
       ELSE sp' = [sp EXCEPT ![s] = IdleSpawn]
    /\ UNCHANGED <<table, kl, scan, reap>>

ChildSlotFree(p) ==
    MaxChildren(p) > 0 => Cardinality(Children(p)) < MaxChildren(p)

\* The part of validate that takes the lock to count the children.
SpawnCount(s) ==
    /\ sp[s].pc = "count"
    /\ IF ChildSlotFree(sp[s].parent)
       THEN sp' = [sp EXCEPT ![s].pc = "register"]
       ELSE sp' = [sp EXCEPT ![s] = IdleSpawn]
    /\ UNCHANGED <<table, kl, scan, reap>>

SpawnRegister(s) ==
    /\ sp[s].pc = "register"
    /\ Register(sp[s].parent, sp[s].attr)
    /\ sp' = [sp EXCEPT ![s].pc = "launch", ![s].pid = nextPID]
    /\ UNCHANGED <<kl, scan, reap>>

\* Budget, cgroup and StartRuntime went well.
SpawnDone(s) ==
    /\ sp[s].pc = "launch"
    /\ sp' = [sp EXCEPT ![s] = IdleSpawn]
    /\ UNCHANGED <<table, kl, scan, reap>>

\* The budget or the runtime was refused: the entry is removed again.
SpawnRollback(s) ==
    /\ LaunchMayFail
    /\ sp[s].pc = "launch"
    /\ Remove(sp[s].pid)
    /\ sp' = [sp EXCEPT ![s] = IdleSpawn]
    /\ UNCHANGED <<ppid, attr, state, nextPID, kl, scan, reap>>

-----------------------------------------------------------------------------
(* KillChild (gRPC) and handleKill (syscall): the same steps *)

IdleKill == [pc |-> "idle", target |-> NoPID, todo |-> {}]

\* The caller is the target's parent; a recursive kill works on the
\* descendants found now. The loop below visits them in any order, the code
\* in the order of nested iterations over a Go map.
KillStart(k) ==
    /\ kl[k].pc = "idle"
    /\ \E t \in registered, recursive \in BOOLEAN :
          /\ ppid[t] # NoPID
          /\ kl' = [kl EXCEPT ![k] =
                       [pc |-> "kill", target |-> t,
                        todo |-> IF recursive THEN Descendants(t) ELSE {}]]
    /\ UNCHANGED <<table, sp, scan, reap>>

KillDescendant(k) ==
    /\ kl[k].pc = "kill"
    /\ \E d \in kl[k].todo :
          /\ SetState(d, "zombie")
          /\ kl' = [kl EXCEPT ![k].todo = @ \ {d}]
    /\ UNCHANGED <<registered, ppid, attr, byName, nextPID, sp, reap>>

KillTarget(k) ==
    /\ kl[k].pc = "kill"
    /\ kl[k].todo = {}
    /\ SetState(kl[k].target, "zombie")
    /\ kl' = [kl EXCEPT ![k] = IdleKill]
    /\ UNCHANGED <<registered, ppid, attr, byName, nextPID, sp, reap>>

-----------------------------------------------------------------------------
(* State changes made by the supervisor and by the cron poller *)

StateChange(p, s) ==
    /\ SetState(p, s)
    /\ UNCHANGED <<registered, ppid, attr, byName, nextPID, sp, kl, reap>>

Agents == registered \ {KingPID}

\* HandleChildExit under RestartNotify and RestartNever.
ChildExit ==
    \E p \in Agents : attr[p].role # "daemon" /\ StateChange(p, "zombie")

\* attemptRestart gives up on a daemon.
RestartsExhausted ==
    \E p \in Agents : attr[p].role = "daemon" /\ StateChange(p, "dead")

\* The restart goroutine of a daemon finishes. It asks nothing of the state
\* the process is in by then.
Restarted ==
    \E p \in Agents : attr[p].role = "daemon" /\ StateChange(p, "running")

\* executeCronEntry, action CronWake: it asks nothing of the state either.
CronWake ==
    \E p \in CronTargets \cap registered : StateChange(p, "running")

-----------------------------------------------------------------------------
(* Supervisor.reapZombies *)

IdleReap == [pc |-> "idle", cur |-> NoPID, kids |-> {}]

\* Spawn holds p as an accepted parent between validate and Register.
SpawningUnder(p) ==
    \E s \in Spawners : sp[s].parent = p /\ sp[s].pc \in {"count", "register"}

\* A tick of the ticker. The zombies found past ZombieTimeout are any of the
\* present ones, except that a process cannot have been a zombie for a minute
\* while a Spawn that saw it alive is still between two adjacent lines.
ReapScan ==
    /\ reap.pc = "idle"
    /\ scan = {}
    /\ \E old \in SUBSET {p \in registered : state[p] = "zombie" /\ ~SpawningUnder(p)} :
          scan' = old
    /\ UNCHANGED <<table, sp, kl, reap>>

\* The next process of the list that is still a zombie past its timeout.
ReapNext ==
    /\ reap.pc = "idle"
    /\ \E p \in scan :
          /\ state[p] = "zombie"
          /\ reap' = [pc |-> "children", cur |-> p, kids |-> {}]
          /\ scan' = scan \ {p}
    /\ UNCHANGED <<table, sp, kl>>

ReapChildren ==
    /\ reap.pc = "children"
    /\ reap' = [reap EXCEPT !.pc = "reparent", !.kids = Children(reap.cur)]
    /\ UNCHANGED <<table, sp, kl, scan>>

\* Reparent(child, p.PPID), skipped for a dead child, refused when the new
\* parent is gone; Registry.Update refreshes UpdatedAt.
ReapReparent ==
    /\ reap.pc = "reparent"
    /\ \E c \in reap.kids :
          /\ IF state[c] # "dead" /\ ppid[reap.cur] \in registered /\ c \in registered
             THEN /\ ppid' = [ppid EXCEPT ![c] = ppid[reap.cur]]
                  /\ scan' = scan \ {c}
             ELSE UNCHANGED <<ppid, scan>>
          /\ reap' = [reap EXCEPT !.kids = @ \ {c}]
    /\ UNCHANGED <<registered, attr, state, byName, nextPID, sp, kl>>

ReapRemove ==
    /\ reap.pc = "reparent"
    /\ reap.kids = {}
    /\ Remove(reap.cur)
    /\ reap' = IdleReap
    /\ UNCHANGED <<ppid, attr, state, nextPID, sp, kl, scan>>

-----------------------------------------------------------------------------
(* SpawnKernel has registered PID 1; every goroutine is idle. *)
Init ==
    /\ registered = {KingPID}
    /\ ppid = [p \in Pids |-> NoPID]
    /\ attr = [p \in Pids |-> KernelAttr]
    /\ state = [p \in Pids |-> IF p = KingPID THEN "running" ELSE "idle"]
    /\ byName = [n \in Names |-> IF n = "king" THEN KingPID ELSE NoPID]
    /\ nextPID = KingPID + 1
    /\ sp = [s \in Spawners |-> IdleSpawn]
    /\ kl = [k \in Killers |-> IdleKill]
    /\ scan = {}
    /\ reap = IdleReap

SpawnStep(s) ==
    \/ SpawnLookup(s) \/ SpawnCheck(s) \/ SpawnCount(s)
    \/ SpawnRegister(s) \/ SpawnDone(s) \/ SpawnRollback(s)

KillStep(k) == KillStart(k) \/ KillDescendant(k) \/ KillTarget(k)

ReapStep == ReapScan \/ ReapNext \/ ReapChildren \/ ReapReparent \/ ReapRemove

Next ==
    \/ \E s \in Spawners : SpawnStep(s)
    \/ \E k \in Killers : KillStep(k)
    \/ ChildExit \/ RestartsExhausted \/ Restarted \/ CronWake
    \/ ReapStep

Spec == Init /\ [][Next]_vars

-----------------------------------------------------------------------------
(* Properties *)

TypeOK ==
    /\ registered \subseteq Pids
    /\ ppid \in [Pids -> PidOr0]
    /\ attr \in [Pids -> Attr]
    /\ state \in [Pids -> States]
    /\ byName \in [Names -> PidOr0]
    /\ nextPID \in 2..(MaxPID + 1)
    /\ sp \in [Spawners -> SpawnCall]
    /\ kl \in [Killers -> KillCall]
    /\ scan \subseteq Pids
    /\ reap \in ReapCall

\* The parent chain of every process, also a reparented or removed one, runs
\* through strictly smaller PIDs and ends at the kernel. Hence the walks of
\* the registry that have no visited set (FindAncestor, depthFrom,
\* collectDescendants, NearestCommonAncestor) terminate whatever spawns,
\* kills and reaps ran before.
ParentOlder == \A p \in Allocated : ppid[p] < p

\* spawner.validate compares a child's tier with its parent's once. Reaping
\* moves the child to its grandparent without a new comparison, and still no
\* process ever sits under a less capable one.
TierMonotone ==
    \A p \in Allocated \ {KingPID} : attr[p].tier >= attr[ppid[p]].tier

\* "USER is inherited down the branch" (auth.go): reaping moves children past
\* the checked parent and still no process below the kernel's own children
\* works under another user than its parent.
UserMonotone ==
    \A p \in Allocated \ {KingPID} :
        ppid[p] # KingPID => attr[p].user = attr[ppid[p]].user

\* What SpawnChild establishes between a child and its parent holds between
\* every process and the one it is under now, after any number of reaps.
ParentRules == ParentOlder /\ TierMonotone /\ UserMonotone

\* GetByName never resolves to a process that is gone or has another name,
\* although two processes may share a name and removing either drops it.
NameIndexSound ==
    \A n \in Names :
        byName[n] # NoPID => byName[n] \in registered /\ attr[byName[n]].name = n

\* The kernel process outlives every kill and every scan.
KingSurvives == KingPID \in registered /\ state[KingPID] = "running"

\* Every process in the table has a parent in the table.
NoOrphan == \A p \in Agents : ppid[p] \in registered
=============================================================================
