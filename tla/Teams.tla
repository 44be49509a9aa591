------------------------------- MODULE Teams -------------------------------
(***************************************************************************)
(* Four leads that split a task among workers of their own: the            *)
(* orchestrator (orchestrator.py), the orchestrate tool (power_tools.py),  *)
(* the research lead (examples/llm_research_team.py) and the team manager  *)
(* (examples/team_manager.py). One behaviour is one task of one of them.   *)
(*                                                                         *)
(* The tool makes RPCs, which run side by side; the other leads reach the  *)
(* kernel through the syscalls of their Execute stream, which the kernel   *)
(* serves one at a time. The planner's answer is abstracted to its shape   *)
(* and to how many usable items each part has; the k-th item of part i is  *)
(* the subtask <<i, k>>.                                                   *)
(***************************************************************************)
EXTENDS Integers, Sequences, FiniteSetsExt

CONSTANTS
    MaxParts,    \* bound: groups, items or lines in the planner's answer
    MaxItems,    \* bound: usable items in a group
    MaxWorkers,  \* the values of max_workers that callers ask for: 0..MaxWorkers
    NUM_WORKERS  \* of the research lead

ASSUME TeamsAssumption ==
    /\ MaxParts \in Nat \ {0} /\ MaxItems \in Nat \ {0}
    /\ MaxWorkers \in Nat /\ NUM_WORKERS \in 1..MaxParts

VARIABLES
    style,     \* which of the four leads
    limit,     \* max_workers, worker_count
    reply,     \* the plan handed over or the planner's answer, or None
    stage,     \* what the lead awaits
    groups,    \* the subtasks of each worker
    crew,      \* len(worker_pids): workers 1..crew are known to the lead
    killed,    \* how many of them it has sent a kill
    w,         \* the worker processes, as the kernel has them
    memory,    \* WorkerAgent._task_memory
    stream,    \* execute_on calls sent and not yet served, by group
    ans,       \* what came back for a group and is not yet looked at
    results,   \* the results gathered so far, per group
    outcome,   \* of the task
    cut        \* history: cancelled while the tool spawned or killed a worker

teamVars == <<style, limit, reply, stage, groups, crew, killed, w, memory, stream, ans,
          results, outcome, cut>>
Input == <<style, limit, reply>>

Styles  == {"orchestrator", "tool", "research", "manager"}
Workers == 1..Max({MaxParts, MaxWorkers})
None    == [shape |-> "none", parts |-> <<>>]

\* A part that is no group: not an object, or without a list of subtasks.
Missing == -1

\* A group may have blank subtasks only; a list item or a line is blank or not.
Parts(S) == UNION {[1..n -> S] : n \in 0..MaxParts}
Replies  == [shape : {"groups"}, parts : Parts(Missing..MaxItems)]
                \cup [shape : {"list", "text"}, parts : Parts(0..1)]

Up(i) == w[i] \in {"idle", "busy", "leaving"}

-----------------------------------------------------------------------------
(* Plans *)

\* The places of the sequences ss[i], for the i in S.
Positions(ss, S) == UNION {{i} \X DOMAIN ss[i] : i \in S}

\* A finite set of pairs as a sequence, by the first and then the second number.
NoLater(q, p) == q[1] < p[1] \/ (q[1] = p[1] /\ q[2] <= p[2])
UpTo(S, p) == {q \in S : NoLater(q, p)}
InOrder(S) == [n \in 1..Cardinality(S) |-> CHOOSE p \in S : Cardinality(UpTo(S, p)) = n]

\* The sequences ss[i] one after another, for the i in S from the smallest on.
Concat(ss, S) ==
    LET at == InOrder(Positions(ss, S))
    IN  [n \in DOMAIN at |-> ss[at[n][1]][at[n][2]]]

\* The parts with at least so many usable items, in the order of the answer.
Items(i, n) == [k \in 1..n |-> <<i, k>>]
Usable(parts, from) ==
    LET ok == InOrder({i \in DOMAIN parts : parts[i] >= from} \X {1})
    IN  [j \in DOMAIN ok |-> Items(ok[j][1], parts[ok[j][1]])]

\* JSON that no strategy can use is taken for a line of text.
RawText == <<<<<<0, 1>>>>>>

\* Slip: the groups beyond the limit are cut off instead of merged.
CapGroupsCut(gs, max) ==
    IF Len(gs) <= max THEN gs ELSE SubSeq(gs, 1, max)

\* Excess groups are dealt out to the first ones in turn.
CapGroups(gs, max) ==
    IF Len(gs) <= max THEN gs
    ELSE [j \in 1..max |->
            Concat(gs, {j} \cup {m \in (max + 1)..Len(gs) : (m - max - 1) % max = j - 1})]

\* Groups, then a list, then lines; empty when there is nothing at all.
ParseGroups(r) ==
    LET found == Usable(r.parts, IF r.shape = "groups" THEN 0 ELSE 1)
    IN  IF found # <<>> \/ r.shape \in {"text", "none"} THEN found ELSE RawText

\* The architect's answer is replaced when a group has no subtasks.
ArchitectPlan(r) ==
    IF r.shape = "groups" /\ r.parts # <<>> /\ \A i \in DOMAIN r.parts : r.parts[i] # Missing
    THEN r
    ELSE [shape |-> "groups", parts |-> <<1>>]

\* An exception that nothing in the lead catches.
LeadRaises == stage' = "done" /\ outcome' = "error"

\* handle_task goes on to spawn, or straight on when there is nothing to spawn.
Adopt(gs) ==
    /\ groups' = gs
    /\ stage' = IF gs = <<>> THEN "run" ELSE "spawn"
    /\ outcome' = outcome

\* A plan handed over is used if it parses; otherwise the LLM is asked. With
\* max_workers at zero the merge divides by zero.
Decompose ==
    /\ style = "orchestrator" /\ stage = "plan"
    /\ \/ \E r \in IF ParseGroups(reply) # <<>> THEN {reply} ELSE Replies :
             /\ reply' = r
             /\ IF ParseGroups(r) = <<>> \/ limit = 0
                THEN LeadRaises /\ UNCHANGED groups
                ELSE Adopt(CapGroups(ParseGroups(r), limit))
       \/ ParseGroups(reply) = <<>> /\ LeadRaises /\ UNCHANGED <<groups, reply>>
    /\ UNCHANGED <<style, limit, crew, killed, w, memory, stream, ans, results, cut>>

Singles(n) == [i \in 1..n |-> <<<<i, 1>>>>]

\* One worker for each element of the first JSON array in the answer.
ToolDecompose ==
    /\ style = "tool" /\ stage = "plan"
    /\ \/ \E r \in Replies :
             /\ reply' = r
             /\ IF r.shape = "text" \/ r.parts = <<>>
                THEN LeadRaises /\ UNCHANGED groups
                ELSE Adopt(Singles(IF Len(r.parts) < limit THEN Len(r.parts) ELSE limit))
       \/ LeadRaises /\ UNCHANGED <<groups, reply>>
    /\ UNCHANGED <<style, limit, crew, killed, w, memory, stream, ans, results, cut>>

\* A list is taken whole, blank items included; of lines, the first few. An
\* object has no element 0.
ResearchDecompose ==
    /\ style = "research" /\ stage = "plan"
    /\ \/ \E r \in Replies :
             /\ reply' = r
             /\ CASE r.shape = "groups" -> LeadRaises /\ UNCHANGED groups
                  [] r.shape = "list"   -> Adopt(Singles(Len(r.parts)))
                  [] r.shape = "text"   ->
                       LET lines == Usable(r.parts, 1)
                       IN  Adopt(IF Len(lines) <= NUM_WORKERS THEN lines
                                 ELSE SubSeq(lines, 1, NUM_WORKERS))
       \/ LeadRaises /\ UNCHANGED <<groups, reply>>
    /\ UNCHANGED <<style, limit, crew, killed, w, memory, stream, ans, results, cut>>

\* The manager's subtasks are handed over or made up, one for each worker.
Subtasks == IF reply = None THEN limit ELSE Len(reply.parts)

\* Of the first n subtasks, those of worker j: subtask i goes to worker
\* i % len(worker_pids).
Turn(j, n) == {i \in 1..n : (i - 1) % limit = j - 1}

\* worker_count workers whatever there is to do. A list that is no JSON ends
\* the task.
ManagerPlan ==
    /\ style = "manager" /\ stage = "plan"
    /\ \/ Adopt([j \in 1..limit |-> InOrder(Turn(j, Subtasks) \X {1})])
       \/ reply # None /\ LeadRaises /\ UNCHANGED groups
    /\ UNCHANGED <<Input, crew, killed, w, memory, stream, ans, results, cut>>

-----------------------------------------------------------------------------
(* Spawning *)

\* The spawn call answers with a PID, which the lead appends to worker_pids.
Spawn ==
    /\ w' = [w EXCEPT ![crew + 1] = "idle"]
    /\ crew' = crew + 1
    /\ stage' = IF crew + 1 = Len(groups) THEN "run" ELSE "spawn"
    /\ outcome' = outcome

\* A spawn that fails ends the task; the workers spawned before it stay.
OrchestratorSpawn ==
    /\ style = "orchestrator" /\ stage = "spawn"
    /\ Spawn \/ (LeadRaises /\ UNCHANGED <<w, crew>>)
    /\ UNCHANGED <<Input, groups, killed, memory, stream, ans, results, cut>>

ResearchSpawn ==
    /\ style = "research" /\ stage = "spawn"
    /\ Spawn \/ (LeadRaises /\ UNCHANGED <<w, crew>>)
    /\ UNCHANGED <<Input, groups, killed, memory, stream, ans, results, cut>>

ManagerSpawn ==
    /\ style = "manager" /\ stage = "spawn"
    /\ Spawn \/ (LeadRaises /\ UNCHANGED <<w, crew>>)
    /\ UNCHANGED <<Input, groups, killed, memory, stream, ans, results, cut>>

\* The tool's loop over the known workers, in a finally block.
Finally == stage' = IF crew = 0 THEN "done" ELSE "kill"

\* Slip: the spawn loop stands before the try block.
ToolSpawnOutside ==
    /\ style = "tool" /\ stage = "spawn"
    /\ Spawn \/ (LeadRaises /\ UNCHANGED <<w, crew>>)
    /\ UNCHANGED <<Input, groups, killed, memory, stream, ans, results, cut>>

ToolSpawn ==
    /\ style = "tool" /\ stage = "spawn"
    /\ Spawn \/ (outcome' = "error" /\ Finally /\ UNCHANGED <<w, crew>>)
    /\ UNCHANGED <<Input, groups, killed, memory, stream, ans, results, cut>>

-----------------------------------------------------------------------------
(* Execution *)

\* execute_on is a syscall in the lead's stream.
ExecuteOn(g) ==
    /\ stream' = Append(stream, g)
    /\ ans' = [ans EXCEPT ![g] = "sent"]

Gather(g) ==
    results' = IF ans[g] \in {"ok", "error"}
               THEN [results EXCEPT ![g] = Append(@, ans[g])] ELSE results

\* Subtasks of a group go to its worker one after another; an error is a result.
RunGroup(g) ==
    /\ style = "orchestrator" /\ stage = "run"
    /\ g \in DOMAIN groups /\ ans[g] \in {"new", "ok", "error"}
    /\ Gather(g)
    /\ IF Len(results'[g]) < Len(groups[g])
       THEN ExecuteOn(g)
       ELSE ans' = [ans EXCEPT ![g] = "over"] /\ UNCHANGED stream
    /\ UNCHANGED <<Input, stage, groups, crew, killed, w, memory, outcome, cut>>

\* asyncio.gather has all the groups; synthesis follows.
GroupsDone ==
    /\ style = "orchestrator" /\ stage = "run"
    /\ \A g \in DOMAIN groups : ans[g] = "over"
    /\ stage' = "synthesize"
    /\ UNCHANGED <<Input, groups, crew, killed, w, memory, stream, ans, results, outcome, cut>>

\* The tool's execute_task is an RPC of its own: all workers run at once.
RunSubtask(g) ==
    /\ style = "tool" /\ stage = "run"
    /\ g \in DOMAIN groups /\ ans[g] \in {"new", "ok", "error"}
    /\ Gather(g)
    /\ IF ans[g] # "new"
       THEN ans' = [ans EXCEPT ![g] = "over"] /\ UNCHANGED w
       ELSE IF w[g] = "idle"
            THEN ans' = [ans EXCEPT ![g] = "sent"] /\ w' = [w EXCEPT ![g] = "busy"]
            ELSE ans' = [ans EXCEPT ![g] = "error"] /\ UNCHANGED w
    /\ UNCHANGED <<Input, stage, groups, crew, killed, memory, stream, outcome, cut>>

SubtasksDone ==
    /\ style = "tool" /\ stage = "run"
    /\ \A g \in DOMAIN groups : ans[g] = "over"
    /\ stage' = IF crew = 0 THEN "synthesize" ELSE "kill"
    /\ UNCHANGED <<Input, groups, crew, killed, w, memory, stream, ans, results, outcome, cut>>

\* The RPC's deadline, ten seconds after the task's.
ExecuteTaskTimeout(i) ==
    /\ style = "tool" /\ stage = "run" /\ ans[i] = "sent" /\ w[i] = "busy"
    /\ ans' = [ans EXCEPT ![i] = "error"]
    /\ w' = [w EXCEPT ![i] = "idle"]
    /\ UNCHANGED <<Input, stage, groups, crew, killed, memory, stream, results, outcome, cut>>

\* The research lead goes through its workers in turn and stores each finding;
\* an error ends the task.
ResearchRun(g) ==
    /\ style = "research" /\ stage = "run"
    /\ g \in DOMAIN groups /\ \A h \in 1..(g - 1) : ans[h] = "over"
    /\ \/ ans[g] = "new" /\ ExecuteOn(g) /\ UNCHANGED <<stage, results, outcome>>
       \/ ans[g] = "ok" /\ Gather(g) /\ ans' = [ans EXCEPT ![g] = "over"]
            /\ UNCHANGED <<stage, stream, outcome>>
       \/ ans[g] \in {"ok", "error"} /\ LeadRaises /\ UNCHANGED <<stream, ans, results>>
    /\ UNCHANGED <<Input, groups, crew, killed, w, memory, cut>>

ResearchDone ==
    /\ style = "research" /\ stage = "run"
    /\ \A g \in DOMAIN groups : ans[g] = "over"
    /\ stage' = "synthesize"
    /\ UNCHANGED <<Input, groups, crew, killed, w, memory, stream, ans, results, outcome, cut>>

\* How many subtasks have been through the loop.
Taken == Cardinality(Positions(results, Workers))

NextWorker(n) == (n % crew) + 1

\* One subtask after another. A worker that has answered is about to exit; the
\* second round finds it up or not, and a call that fails ends the task, as
\* does a round robin over no workers.
ManagerRun(g) ==
    /\ style = "manager" /\ stage = "run" /\ Taken < Subtasks
    /\ \/ crew = 0 /\ LeadRaises /\ UNCHANGED <<stream, ans, results>>
       \/ /\ crew > 0 /\ g = NextWorker(Taken)
          /\ \/ ans[g] = "new" /\ ExecuteOn(g) /\ UNCHANGED <<stage, results, outcome>>
             \/ ans[g] = "ok" /\ Gather(g) /\ ans' = [ans EXCEPT ![g] = "new"]
                  /\ UNCHANGED <<stage, stream, outcome>>
             \/ ans[g] = "error" /\ LeadRaises /\ UNCHANGED <<stream, ans, results>>
    /\ UNCHANGED <<Input, groups, crew, killed, w, memory, cut>>

ManagerDone ==
    /\ style = "manager" /\ stage = "run" /\ Taken = Subtasks
    /\ stage' = "store"
    /\ UNCHANGED <<Input, groups, crew, killed, w, memory, stream, ans, results, outcome, cut>>

\* Slip: the executor starts every syscall as it comes in.
KernelServesAll(g) ==
    /\ \E k \in DOMAIN stream : stream[k] = g
    /\ IF Up(g)
       THEN w[g] # "busy" /\ w' = [w EXCEPT ![g] = "busy"] /\ UNCHANGED <<stream, ans>>
       ELSE /\ ans' = [ans EXCEPT ![g] = "error"]
            /\ stream' = SelectSeq(stream, LAMBDA h : h # g)
            /\ UNCHANGED w
    /\ UNCHANGED <<Input, stage, groups, crew, killed, memory, results, outcome, cut>>

\* Slip: a call for a worker without a runtime gets no answer.
KernelServesLive(g) ==
    /\ stream # <<>> /\ g = Head(stream) /\ w[g] \in {"idle", "leaving"}
    /\ w' = [w EXCEPT ![g] = "busy"]
    /\ UNCHANGED <<Input, stage, groups, crew, killed, memory, stream, ans, results, outcome, cut>>

\* The kernel's executor reads the next syscall of the lead's stream only after
\* it has sent the result of the last one.
KernelServes(g) ==
    /\ stream # <<>> /\ g = Head(stream)
    /\ IF Up(g)
       THEN w[g] # "busy" /\ w' = [w EXCEPT ![g] = "busy"] /\ UNCHANGED <<stream, ans>>
       ELSE /\ ans' = [ans EXCEPT ![g] = "error"]
            /\ stream' = Tail(stream)
            /\ UNCHANGED w
    /\ UNCHANGED <<Input, stage, groups, crew, killed, memory, results, outcome, cut>>

\* What the lead hears of the worker's task, if it still waits for it.
Answer(i, status) ==
    /\ ans' = IF ans[i] = "sent" THEN [ans EXCEPT ![i] = status] ELSE ans
    /\ stream' = IF stream # <<>> /\ Head(stream) = i THEN Tail(stream) ELSE stream

\* A worker of role "task" exits by itself once it has answered.
AfterTask == IF style = "orchestrator" THEN "idle" ELSE "leaving"

\* Slip: the task is remembered before the LLM is asked.
WorkerAgentEager(i) ==
    /\ style = "orchestrator" /\ w[i] = "busy"
    /\ \E status \in {"ok", "error"} : Answer(i, status)
    /\ memory' = [memory EXCEPT ![i] = Append(@, groups[i][Len(results[i]) + 1])]
    /\ w' = [w EXCEPT ![i] = AfterTask]
    /\ UNCHANGED <<Input, stage, groups, crew, killed, results, outcome, cut>>

\* A WorkerAgent remembers what it has completed, as context for the next task.
WorkerAgent(i) ==
    /\ style = "orchestrator" /\ w[i] = "busy"
    /\ \/ Answer(i, "ok")
            /\ memory' = [memory EXCEPT ![i] = Append(@, groups[i][Len(results[i]) + 1])]
       \/ Answer(i, "error") /\ UNCHANGED memory
    /\ w' = [w EXCEPT ![i] = AfterTask]
    /\ UNCHANGED <<Input, stage, groups, crew, killed, results, outcome, cut>>

ResearchWorker(i) ==
    /\ style \in {"tool", "research"} /\ w[i] = "busy"
    /\ \E status \in {"ok", "error"} : Answer(i, status)
    /\ w' = [w EXCEPT ![i] = AfterTask]
    /\ UNCHANGED <<Input, stage, groups, crew, killed, memory, results, outcome, cut>>

\* A SubWorker echoes what it is given.
SubWorker(i) ==
    /\ style = "manager" /\ w[i] = "busy"
    /\ Answer(i, "ok")
    /\ w' = [w EXCEPT ![i] = AfterTask]
    /\ UNCHANGED <<Input, stage, groups, crew, killed, memory, results, outcome, cut>>

\* A worker's process ends, by itself or by its own fault; a minute later the
\* kernel's reaper removes it.
WorkerExits(i) ==
    /\ Up(i)
    /\ IF w[i] = "busy" THEN Answer(i, "error") ELSE UNCHANGED <<ans, stream>>
    /\ w' = [w EXCEPT ![i] = "exited"]
    /\ UNCHANGED <<Input, stage, groups, crew, killed, memory, results, outcome, cut>>

Reaped(i) ==
    /\ w[i] = "exited"
    /\ w' = [w EXCEPT ![i] = "gone"]
    /\ UNCHANGED <<Input, stage, groups, crew, killed, memory, stream, ans, results, outcome, cut>>

-----------------------------------------------------------------------------
(* Synthesis and cleanup *)

\* The LLM merges the results; a failure ends the task with its workers up.
Synthesize ==
    /\ style = "orchestrator" /\ stage = "synthesize"
    /\ (stage' = "store" /\ UNCHANGED outcome) \/ LeadRaises
    /\ UNCHANGED <<Input, groups, crew, killed, w, memory, stream, ans, results, cut>>

StoreArtifact ==
    /\ style # "tool" /\ stage = "store"
    /\ \/ stage' = (IF crew = 0 THEN "done" ELSE "kill")
            /\ outcome' = IF crew = 0 THEN "ok" ELSE outcome
       \/ LeadRaises
    /\ UNCHANGED <<Input, groups, crew, killed, w, memory, stream, ans, results, cut>>

ResearchReport ==
    /\ style = "research" /\ stage = "synthesize"
    /\ (stage' = "store" /\ UNCHANGED outcome) \/ LeadRaises
    /\ UNCHANGED <<Input, groups, crew, killed, w, memory, stream, ans, results, cut>>

\* The tool answers with the raw results when synthesis fails.
ToolSynthesize ==
    /\ style = "tool" /\ stage = "synthesize"
    /\ stage' = "done" /\ outcome' = "ok"
    /\ UNCHANGED <<Input, groups, crew, killed, w, memory, stream, ans, results, cut>>

\* The next worker gets its kill, unless the kernel no longer knows it.
KillNext ==
    /\ killed' = killed + 1
    /\ w' = IF w[killed + 1] = "gone" THEN w ELSE [w EXCEPT ![killed + 1] = "exited"]

\* _kill_safe for every worker: errors are ignored.
KillWorkers ==
    /\ style = "orchestrator" /\ stage = "kill"
    /\ KillNext
    /\ IF killed' = crew THEN stage' = "done" /\ outcome' = "ok" ELSE UNCHANGED <<stage, outcome>>
    /\ UNCHANGED <<Input, groups, crew, memory, stream, ans, results, cut>>

\* A kill that is not guarded: a worker that has been reaped by now fails the
\* task after the result is stored.
KillOrRaise ==
    /\ KillNext
    /\ IF w[killed + 1] = "gone" THEN LeadRaises
       ELSE IF killed' = crew THEN stage' = "done" /\ outcome' = "ok"
       ELSE UNCHANGED <<stage, outcome>>
    /\ UNCHANGED <<Input, groups, crew, memory, stream, ans, results, cut>>

ResearchKill == style = "research" /\ stage = "kill" /\ KillOrRaise
ManagerKill == style = "manager" /\ stage = "kill" /\ KillOrRaise

ToolKill ==
    /\ style = "tool" /\ stage = "kill"
    /\ KillNext
    /\ stage' = IF killed' < crew THEN "kill" ELSE IF outcome = "none" THEN "synthesize" ELSE "done"
    /\ UNCHANGED <<Input, groups, crew, memory, stream, ans, results, outcome, cut>>

\* The caller's stream or RPC is cancelled. The workers' own streams end with
\* it. Only the tool cleans up, and only what it knows: a spawn in flight may
\* still succeed, and a kill cut short ends the loop.
Cancel ==
    /\ stage # "done" /\ outcome # "cancelled"
    /\ outcome' = "cancelled"
    /\ stream' = <<>>
    /\ \E spawned \in IF stage = "spawn" THEN BOOLEAN ELSE {FALSE} :
          w' = [i \in Workers |-> IF w[i] = "busy" THEN "idle"
                                  ELSE IF spawned /\ i = crew + 1 THEN "idle" ELSE w[i]]
    /\ IF style = "tool" /\ stage \in {"spawn", "run"} THEN Finally ELSE stage' = "done"
    /\ cut' = (style = "tool" /\ stage \in {"spawn", "kill"})
    /\ UNCHANGED <<Input, groups, crew, killed, memory, ans, results>>

-----------------------------------------------------------------------------
TeamInit ==
    /\ style \in Styles
    /\ limit \in 0..MaxWorkers
    /\ reply \in {None} \cup IF style = "orchestrator" THEN {ArchitectPlan(r) : r \in Replies}
                          ELSE IF style = "manager" THEN {r \in Replies : r.shape = "list" /\ 0 \notin Range(r.parts)}
                          ELSE {}
    /\ stage = "plan" /\ groups = <<>> /\ crew = 0 /\ killed = 0
    /\ w = [i \in Workers |-> "none"]
    /\ memory = [i \in Workers |-> <<>>]
    /\ stream = <<>>
    /\ ans = [g \in Workers |-> "new"]
    /\ results = [g \in Workers |-> <<>>]
    /\ outcome = "none" /\ cut = FALSE

Lead ==
    \/ Decompose \/ ToolDecompose \/ ResearchDecompose \/ ManagerPlan
    \/ OrchestratorSpawn \/ ToolSpawn \/ ResearchSpawn \/ ManagerSpawn
    \/ \E g \in Workers : RunGroup(g) \/ RunSubtask(g) \/ ResearchRun(g) \/ ManagerRun(g)
    \/ GroupsDone \/ SubtasksDone \/ ResearchDone \/ ManagerDone
    \/ Synthesize \/ StoreArtifact \/ ResearchReport \/ ToolSynthesize
    \/ KillWorkers \/ ResearchKill \/ ManagerKill \/ ToolKill

Worker(i) == WorkerAgent(i) \/ ResearchWorker(i) \/ SubWorker(i)

TeamNext ==
    \/ Lead \/ Cancel
    \/ \E i \in Workers :
          KernelServes(i) \/ Worker(i) \/ ExecuteTaskTimeout(i) \/ WorkerExits(i) \/ Reaped(i)

TeamSpec == TeamInit /\ [][TeamNext]_teamVars

\* The lead's loop, the kernel's executor and a worker that has a task go on.
TeamFairness ==
    /\ WF_teamVars(Lead)
    /\ \A i \in Workers : WF_teamVars(KernelServes(i)) /\ WF_teamVars(Worker(i))

TeamFairSpec == TeamSpec /\ TeamFairness

-----------------------------------------------------------------------------
(* Properties *)

TeamTypeOK ==
    /\ style \in Styles /\ limit \in 0..MaxWorkers
    /\ reply \in Replies \cup {None}
    /\ stage \in {"plan", "spawn", "run", "synthesize", "store", "kill", "done"}
    /\ DOMAIN groups \subseteq Workers /\ crew \in 0..Len(groups) /\ killed \in 0..crew
    /\ w \in [Workers -> {"none", "idle", "busy", "leaving", "exited", "gone"}]
    /\ ans \in [Workers -> {"new", "sent", "ok", "error", "over"}]
    /\ \A i \in Workers : Len(memory[i]) <= Len(results[i]) + 1
    /\ outcome \in {"none", "ok", "error", "cancelled"}
    /\ cut \in BOOLEAN

\* The subtasks the planner asked for: the usable items of its answer, or the
\* answer itself when it has no usable part.
PlannedIn(r) ==
    IF r.shape # "text" /\ \A i \in DOMAIN r.parts :
          r.parts[i] = Missing \/ (r.shape = "list" /\ r.parts[i] = 0)
    THEN {<<0, 1>>}
    ELSE {t \in Workers \X (1..MaxItems) : t[1] \in DOMAIN r.parts /\ t[2] <= r.parts[t[1]]}

Planned == IF style = "manager" THEN (1..Subtasks) \X {1} ELSE PlannedIn(reply)

Collected == stage \in {"synthesize", "store"} \/ outcome = "ok"

\* When the orchestrator synthesizes or the team manager reports, every subtask
\* of the plan has been given to exactly one worker, of no more workers than
\* the caller allowed, and has exactly one result,
\* whatever the groups were merged into, however the subtasks were dealt out and
\* whichever workers have failed (orchestrator.py 93-137, 289; team_manager.py 54).
EverySubtaskOnce ==
    style \in {"orchestrator", "manager"} /\ Collected =>
        LET Given(p) == groups[p[1]][p[2]]
            places   == Positions(groups, DOMAIN groups)
        IN  /\ Len(groups) <= limit
            /\ {Given(p) : p \in places} = Planned
            /\ \A p, q \in places : Given(p) = Given(q) => p = q
            /\ \A g \in DOMAIN groups : Len(results[g]) = Len(groups[g])

\* What a worker has in its context is what it completed for its own group, in
\* order, also after errors in between (worker.py 27-60).
ContextIsOwnGroup ==
    style = "orchestrator" =>
        \A i \in Workers : w[i] = "idle" =>
            LET done == IF ans[i] \in {"ok", "error"} THEN Append(results[i], ans[i])
                                                     ELSE results[i]
                good == {k \in DOMAIN done : done[k] = "ok"}
            IN  /\ Len(memory[i]) = Cardinality(good)
                /\ \A k \in good :
                      memory[i][Cardinality({j \in good : j <= k})] = groups[i][k]

\* Groups sent off together still run one at a time, because the kernel serves
\* the syscalls of a stream in sequence (executor.go 67-84).
OneAtATime ==
    style # "tool" => Cardinality({i \in Workers : w[i] = "busy"}) <= 1

\* A task that succeeds leaves no worker running. The orchestrate tool leaves
\* none however it ends (power_tools.py 112), unless it is cancelled while a
\* spawn or a kill is in flight.
NoWorkerLeft ==
    stage = "done" /\ (outcome = "ok" \/ (style = "tool" /\ ~cut)) =>
        \A i \in Workers : ~Up(i)

\* Every task comes to an end: no failure of a worker, a spawn or a planner
\* leaves the lead waiting.
TaskEnds == <>(stage = "done")
=============================================================================
