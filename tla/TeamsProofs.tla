---------------------------- MODULE TeamsProofs ----------------------------
(***************************************************************************)
(* Proofs about the leads at work, for every plan and any number of        *)
(* workers: the kernel has one worker of a stream busy at a time, a lead   *)
(* whose task succeeds has killed its workers, a worker carries into its   *)
(* next subtask what it did itself and nothing else, and every subtask of  *)
(* a plan is given to one worker and has one result.                       *)
(***************************************************************************)
EXTENDS Teams, FiniteSetTheorems, TLAPS

\* A step is first-order unless it names SMT, for arithmetic and sequences.
USE Zenon

WorkerState == {"none", "idle", "busy", "leaving", "exited", "gone"}
CallState   == {"new", "sent", "ok", "error", "over"}
Stages      == {"plan", "spawn", "run", "synthesize", "store", "kill", "done"}

\* The types of what the invariants below speak of.
TeamTypes ==
    /\ stage \in Stages /\ crew \in Nat /\ killed \in Nat
    /\ w \in [Workers -> WorkerState]
    /\ ans \in [Workers -> CallState]
    /\ results \in [Workers -> Seq({"ok", "error"})]
    /\ stream \in Seq(Workers)

\* The calls in the stream are awaited, no two of them by one group, and a
\* worker is busy with the first of them only.
CallInv ==
    style # "tool" =>
        /\ IsInjective(stream)
        /\ \A k \in DOMAIN stream : ans[stream[k]] = "sent"
        /\ \A i \in Workers : w[i] = "busy" => stream # <<>> /\ Head(stream) = i

\* There is a worker for every part of a plan and for every one asked for.
LEMMA WorkersFacts ==
    \E m \in Nat : Workers = 1..m /\ m >= MaxParts /\ m >= MaxWorkers
<1> DEFINE S == {MaxParts, MaxWorkers}
<1>1. \E x \in S : \A y \in S : x >= y
  BY TeamsAssumption, SMT
<1>2. Max(S) \in S /\ \A y \in S : Max(S) >= y
  BY <1>1 DEF Max
<1> QED BY <1>2, TeamsAssumption, SMT DEF Workers

-----------------------------------------------------------------------------
(* The parts of a step that matter to the invariants *)

\* Nothing but the plan, the stage and the outcome changes.
PlanStep == Decompose \/ ToolDecompose \/ ResearchDecompose \/ ManagerPlan

SpawnStep == OrchestratorSpawn \/ ToolSpawn \/ ResearchSpawn \/ ManagerSpawn

RunStep(g) == RunGroup(g) \/ RunSubtask(g) \/ ResearchRun(g) \/ ManagerRun(g)

\* Nothing but the stage and the outcome changes.
MoveStep ==
    \/ GroupsDone \/ SubtasksDone \/ ResearchDone \/ ManagerDone
    \/ Synthesize \/ StoreArtifact \/ ResearchReport \/ ToolSynthesize

KillStep == KillWorkers \/ ResearchKill \/ ManagerKill \/ ToolKill

WorkerStep(i) ==
    KernelServes(i) \/ Worker(i) \/ ExecuteTaskTimeout(i) \/ WorkerExits(i) \/ Reaped(i)

\* The steps by what they may change.
LEMMA TeamSteps ==
    TeamNext => \/ PlanStep \/ SpawnStep \/ MoveStep \/ KillStep \/ Cancel
                \/ \E i \in Workers : RunStep(i) \/ WorkerStep(i)
BY DEF TeamNext, Lead, PlanStep, SpawnStep, RunStep, MoveStep, KillStep, WorkerStep

\* A plan is taken up, or the task ends.
LEMMA PlanFacts ==
    ASSUME PlanStep
    PROVE  /\ stage = "plan"
           /\ UNCHANGED <<style, crew, killed, w, memory, stream, ans, results, cut>>
           /\ \/ stage' = "done" /\ outcome' = "error"
              \/ stage' \in {"spawn", "run"} /\ outcome' = outcome
<1>1. CASE Decompose
  BY <1>1 DEF Decompose, LeadRaises, Adopt
<1>2. CASE ToolDecompose
  BY <1>2 DEF ToolDecompose, LeadRaises, Adopt
<1>3. CASE ResearchDecompose
  <2>1. \A r \in Replies : r.shape \in {"groups", "list", "text"}
    BY DEF Replies
  <2>2. CASE LeadRaises
    BY <1>3, <2>2 DEF ResearchDecompose, LeadRaises
  <2>3. CASE \E gs : Adopt(gs)
    BY <1>3, <2>3 DEF ResearchDecompose, Adopt
  <2> QED BY <1>3, <2>1, <2>2, <2>3 DEF ResearchDecompose
<1>4. CASE ManagerPlan
  BY <1>4 DEF ManagerPlan, LeadRaises, Adopt, Input
<1> QED BY <1>1, <1>2, <1>3, <1>4 DEF PlanStep

\* A worker is spawned, or the task ends; only the tool then kills.
LEMMA SpawnFacts ==
    ASSUME SpawnStep
    PROVE  /\ stage = "spawn"
           /\ UNCHANGED <<style, groups, killed, memory, stream, ans, results, cut>>
           /\ \/ Spawn
              \/ /\ UNCHANGED <<w, crew>>
                 /\ outcome' = "error"
                 /\ IF style = "tool" THEN Finally ELSE stage' = "done"
BY DEF SpawnStep, OrchestratorSpawn, ToolSpawn, ResearchSpawn, ManagerSpawn, LeadRaises, Input

\* From one stage to the next: the tool kills before it synthesizes, the other
\* leads last of all.
LEMMA MoveFacts ==
    ASSUME MoveStep
    PROVE  /\ UNCHANGED <<style, groups, crew, killed, w, memory, stream, ans, results, cut>>
           /\ IF style = "tool"
              THEN \/ /\ stage = "run" /\ outcome' = outcome
                      /\ stage' = IF crew = 0 THEN "synthesize" ELSE "kill"
                   \/ stage = "synthesize" /\ stage' = "done" /\ outcome' = "ok"
              ELSE /\ stage \in {"run", "synthesize", "store"}
                   /\ \/ stage' \in {"synthesize", "store"} /\ outcome' = outcome
                      \/ stage' = "done" /\ outcome' = "error"
                      \/ stage' = "done" /\ outcome' = "ok" /\ crew = 0
                      \/ stage' = "kill" /\ outcome' = outcome /\ crew # 0
BY DEF LeadRaises, MoveStep, GroupsDone, SubtasksDone, ResearchDone, ManagerDone, Synthesize, StoreArtifact,
       ResearchReport, ToolSynthesize, Input

\* The leads kill one worker after another until all have been sent a kill or,
\* with the examples' leads, a kill fails.
LEMMA KillFacts ==
    ASSUME KillStep
    PROVE  /\ stage = "kill" /\ KillNext
           /\ UNCHANGED <<style, groups, crew, memory, stream, ans, results, cut>>
           /\ IF style = "tool"
              THEN /\ outcome' = outcome
                   /\ stage' = IF killed' < crew THEN "kill"
                               ELSE IF outcome = "none" THEN "synthesize" ELSE "done"
              ELSE \/ stage' = "kill" /\ outcome' = outcome /\ killed' # crew
                   \/ stage' = "done" /\ outcome' = "error"
                   \/ stage' = "done" /\ outcome' = "ok" /\ killed' = crew
<1>1. CASE KillWorkers
  BY <1>1 DEF KillWorkers, Input
<1>2. CASE ResearchKill
  BY <1>2 DEF ResearchKill, KillOrRaise, LeadRaises, Input
<1>3. CASE ManagerKill
  BY <1>3 DEF ManagerKill, KillOrRaise, LeadRaises, Input
<1>4. CASE ToolKill
  BY <1>4 DEF ToolKill, Input
<1> QED BY <1>1, <1>2, <1>3, <1>4 DEF KillStep

\* The lead sends a call, or takes an answer, or ends the task; the tool's
\* calls go to the worker at once.
LEMMA RunFacts ==
    ASSUME NEW g \in Workers, RunStep(g)
    PROVE  /\ stage = "run"
           /\ UNCHANGED <<style, groups, crew, killed, memory, cut>>
           /\ \/ UNCHANGED <<stage, outcome>>
              \/ stage' = "done" /\ outcome' = "error" /\ style # "tool"
           /\ style # "tool" => w' = w
           /\ style = "tool" => stream' = stream
           /\ w' = w \/ (w[g] = "idle" /\ w' = [w EXCEPT ![g] = "busy"])
<1>1. CASE RunGroup(g)
  BY <1>1 DEF RunGroup, Input
<1>2. CASE RunSubtask(g)
  BY <1>2 DEF RunSubtask, Input
<1>3. CASE ResearchRun(g)
  BY <1>3 DEF ResearchRun, LeadRaises, Input
<1>4. CASE ManagerRun(g)
  BY <1>4 DEF ManagerRun, LeadRaises, Input
<1> QED BY <1>1, <1>2, <1>3, <1>4 DEF RunStep

\* What the workers and the kernel do leaves the lead alone and wakes no worker
\* that is down.
LEMMA WorkerFacts ==
    ASSUME TeamTypes, NEW i \in Workers, WorkerStep(i)
    PROVE  /\ UNCHANGED <<style, groups, stage, crew, killed, results, outcome, cut>>
           /\ \A j \in Workers : Up(j)' => Up(j)
<1>0. w \in [Workers -> WorkerState]
  BY DEF TeamTypes
<1>1. CASE KernelServes(i)
  BY <1>0, <1>1 DEF KernelServes, Up, Input
<1>2. CASE WorkerAgent(i)
  BY <1>0, <1>2 DEF WorkerAgent, AfterTask, Up, Input
<1>3. CASE ResearchWorker(i)
  BY <1>0, <1>3 DEF ResearchWorker, AfterTask, Up, Input
<1>4. CASE SubWorker(i)
  BY <1>0, <1>4 DEF SubWorker, AfterTask, Up, Input
<1>5. CASE ExecuteTaskTimeout(i)
  BY <1>0, <1>5 DEF ExecuteTaskTimeout, Up, Input
<1>6. CASE WorkerExits(i)
  BY <1>0, <1>6 DEF WorkerExits, Up, Input
<1>7. CASE Reaped(i)
  BY <1>0, <1>7 DEF Reaped, Up, Input
<1> QED BY <1>1, <1>2, <1>3, <1>4, <1>5, <1>6, <1>7 DEF WorkerStep, Worker

-----------------------------------------------------------------------------
(* Types *)

\* What a worker's answer does to the calls and the stream.
LEMMA AnswerTypes ==
    ASSUME TeamTypes, NEW i \in Workers, NEW status \in {"ok", "error"}, Answer(i, status)
    PROVE  ans' \in [Workers -> CallState] /\ stream' \in Seq(Workers)
<1>1. ans' \in [Workers -> CallState]
  BY DEF TeamTypes, Answer, CallState
<1>2. stream' \in Seq(Workers)
  BY SMT DEF TeamTypes, Answer
<1> QED BY <1>1, <1>2

LEMMA ExecuteOnTypes ==
    ASSUME TeamTypes, NEW g \in Workers, ExecuteOn(g)
    PROVE  ans' \in [Workers -> CallState] /\ stream' \in Seq(Workers)
BY SMT DEF TeamTypes, ExecuteOn, CallState

LEMMA GatherTypes ==
    ASSUME TeamTypes, NEW g \in Workers, Gather(g)
    PROVE  results' \in [Workers -> Seq({"ok", "error"})]
<1>1. CASE ans[g] \in {"ok", "error"}
  <2>1. Append(results[g], ans[g]) \in Seq({"ok", "error"})
    BY <1>1, SMT DEF TeamTypes
  <2> QED BY <1>1, <2>1 DEF TeamTypes, Gather
<1>2. CASE ans[g] \notin {"ok", "error"}
  BY <1>2 DEF TeamTypes, Gather
<1> QED BY <1>1, <1>2

LEMMA RunTypes ==
    ASSUME TeamTypes, NEW g \in Workers, RunStep(g)
    PROVE  TeamTypes'
<1>1. \A x \in CallState : [ans EXCEPT ![g] = x] \in [Workers -> CallState]
  BY DEF TeamTypes
<1>2. {"new", "sent", "ok", "error", "over"} = CallState
  BY DEF CallState
<1>3. w' \in [Workers -> WorkerState] /\ crew' = crew /\ killed' = killed /\ stage' \in Stages
  BY RunFacts DEF TeamTypes, WorkerState, Stages
<1>4. CASE RunGroup(g)
  BY <1>1, <1>2, <1>3, <1>4, GatherTypes, ExecuteOnTypes DEF RunGroup, TeamTypes
<1>5. CASE RunSubtask(g)
  BY <1>1, <1>2, <1>3, <1>5, GatherTypes, ZenonT(30) DEF RunSubtask, TeamTypes
<1>6. CASE ResearchRun(g)
  BY <1>1, <1>2, <1>3, <1>6, GatherTypes, ExecuteOnTypes DEF ResearchRun, TeamTypes
<1>7. CASE ManagerRun(g)
  BY <1>1, <1>2, <1>3, <1>7, GatherTypes, ExecuteOnTypes DEF ManagerRun, TeamTypes
<1> QED BY <1>4, <1>5, <1>6, <1>7 DEF RunStep

LEMMA WorkerTypes ==
    ASSUME TeamTypes, NEW i \in Workers, WorkerStep(i)
    PROVE  TeamTypes'
<1>1. \A x \in WorkerState : [w EXCEPT ![i] = x] \in [Workers -> WorkerState]
  BY DEF TeamTypes
<1>2. WorkerState = {"none", "idle", "busy", "leaving", "exited", "gone"} /\ AfterTask \in WorkerState
  BY DEF WorkerState, AfterTask
<1>3. UNCHANGED <<stage, crew, killed, results>>
  BY WorkerFacts
<1>4. \A x \in CallState : [ans EXCEPT ![i] = x] \in [Workers -> CallState]
  BY DEF TeamTypes
<1>5. CASE KernelServes(i)
  <2>1. w' \in [Workers -> WorkerState]
    BY <1>1, <1>2, <1>5 DEF KernelServes, TeamTypes
  <2>2. ans' \in [Workers -> CallState]
    BY <1>4, <1>5 DEF KernelServes, TeamTypes, CallState
  <2>3. stream' \in Seq(Workers)
    <3>1. stream \in Seq(Workers) /\ stream # <<>>
      BY <1>5 DEF KernelServes, TeamTypes
    <3>2. stream' = stream \/ stream' = Tail(stream)
      BY <1>5 DEF KernelServes
    <3> QED BY <3>1, <3>2, SMT
  <2> QED BY <1>3, <2>1, <2>2, <2>3 DEF TeamTypes
<1>6. CASE WorkerAgent(i)
  BY <1>1, <1>2, <1>3, <1>6, AnswerTypes DEF WorkerAgent, TeamTypes
<1>7. CASE ResearchWorker(i)
  BY <1>1, <1>2, <1>3, <1>7, AnswerTypes, SMT DEF ResearchWorker, TeamTypes
<1>8. CASE SubWorker(i)
  BY <1>1, <1>2, <1>3, <1>8, AnswerTypes DEF SubWorker, TeamTypes
<1>9. CASE ExecuteTaskTimeout(i)
  BY <1>1, <1>2, <1>3, <1>4, <1>9 DEF ExecuteTaskTimeout, TeamTypes, CallState
<1>10. CASE WorkerExits(i)
  BY <1>1, <1>2, <1>3, <1>10, AnswerTypes DEF WorkerExits, TeamTypes
<1>11. CASE Reaped(i)
  BY <1>1, <1>2, <1>3, <1>11 DEF Reaped, TeamTypes
<1> QED BY <1>5, <1>6, <1>7, <1>8, <1>9, <1>10, <1>11 DEF WorkerStep, Worker

\* A cancellation stops the busy workers, and no other state changes but that
\* of a worker whose spawn was under way.
LEMMA CancelFacts ==
    ASSUME TeamTypes, Cancel
    PROVE  /\ w' \in [Workers -> WorkerState]
           /\ \A i \in Workers : w'[i] # "busy"
           /\ stage # "spawn" => \A i \in Workers : Up(i)' => Up(i)
           /\ \A i \in Workers : i <= crew => (Up(i)' => Up(i))
<1>1. PICK spawned \in (IF stage = "spawn" THEN BOOLEAN ELSE {FALSE}) :
         w' = [i \in Workers |-> IF w[i] = "busy" THEN "idle"
                                 ELSE IF spawned /\ i = crew + 1 THEN "idle" ELSE w[i]]
  BY DEF Cancel
<1>2. w' \in [Workers -> WorkerState]
  BY <1>1 DEF TeamTypes, WorkerState
<1>3. \A i \in Workers : w'[i] # "busy"
  BY <1>1
<1>4. ASSUME stage # "spawn", NEW i \in Workers
      PROVE  Up(i)' => Up(i)
  <2>1. w'[i] = IF w[i] = "busy" THEN "idle" ELSE w[i]
    BY <1>1, <1>4
  <2> QED BY <2>1 DEF Up
<1>5. ASSUME NEW i \in Workers, i <= crew
      PROVE  Up(i)' => Up(i)
  <2>1. i # crew + 1
    BY <1>5, SMT DEF TeamTypes, Workers
  <2>2. w'[i] = IF w[i] = "busy" THEN "idle" ELSE w[i]
    BY <1>1, <2>1
  <2> QED BY <2>2 DEF Up
<1> QED BY <1>2, <1>3, <1>4, <1>5

-----------------------------------------------------------------------------
(* One call at a time *)

\* A step that leaves the stream and the calls alone and gives no worker work.
LEMMA CallFrame ==
    ASSUME CallInv, UNCHANGED <<style, stream, ans>>,
           \A i \in Workers : w'[i] = "busy" => w[i] = "busy"
    PROVE  CallInv'
BY DEF CallInv

\* A group that awaits nothing has no call in the stream.
LEMMA NotInStream ==
    ASSUME CallInv, style # "tool", NEW g, ans[g] # "sent"
    PROVE  \A k \in DOMAIN stream : stream[k] # g
BY DEF CallInv

\* The lead sends a call for a group that awaits none.
LEMMA ExecuteOnCalls ==
    ASSUME TeamTypes, CallInv, style # "tool", style' = style, NEW g \in Workers, ans[g] # "sent",
           ExecuteOn(g), w' = w
    PROVE  CallInv'
<1>1. stream \in Seq(Workers) /\ stream' = Append(stream, g) /\ Len(stream) \in Nat
  BY SMT DEF TeamTypes, ExecuteOn
<1>2. /\ DOMAIN stream = 1..Len(stream) /\ DOMAIN stream' = 1..(Len(stream) + 1)
      /\ \A k \in 1..Len(stream) : stream'[k] = stream[k]
      /\ stream'[Len(stream) + 1] = g
  BY <1>1, SMT
<1>3. \A k \in 1..(Len(stream) + 1) : k \in 1..Len(stream) \/ k = Len(stream) + 1
  BY <1>1, SMT
<1>4. \A k \in 1..Len(stream) : stream[k] # g /\ stream[k] \in Workers
  BY <1>1, <1>2, NotInStream, SMT
<1>5. IsInjective(stream')
  BY <1>2, <1>3, <1>4 DEF CallInv, IsInjective
<1>6. ans'[g] = "sent" /\ \A h \in Workers : h # g => ans'[h] = ans[h]
  BY DEF TeamTypes, ExecuteOn
<1>7. \A k \in DOMAIN stream' : ans'[stream'[k]] = "sent"
  BY <1>2, <1>3, <1>4, <1>6, SMT DEF CallInv
<1>8. ASSUME NEW i \in Workers, w'[i] = "busy"
      PROVE  stream' # <<>> /\ Head(stream') = i
  <2>1. stream # <<>> /\ Head(stream) = i
    BY <1>8 DEF CallInv
  <2> QED BY <2>1, <1>1, SMT
<1> QED BY <1>5, <1>7, <1>8 DEF CallInv

\* The answer to the call that is served leaves with it.
LEMMA ServedCalls ==
    ASSUME TeamTypes, CallInv, style # "tool", style' = style, NEW i \in Workers, stream # <<>>,
           Head(stream) = i, stream' = Tail(stream),
           \A h \in Workers : h # i => ans'[h] = ans[h],
           \A j \in Workers : w'[j] # "busy"
    PROVE  CallInv'
<1>1. stream \in Seq(Workers) /\ Len(stream) \in Nat /\ Len(stream) > 0 /\ stream[1] = i
  BY SMT DEF TeamTypes
<1>2. /\ DOMAIN stream = 1..Len(stream) /\ DOMAIN stream' = 1..(Len(stream) - 1)
      /\ \A k \in 1..(Len(stream) - 1) : stream'[k] = stream[k + 1]
  BY <1>1, SMT
<1>3. \A k \in 1..(Len(stream) - 1) : k + 1 \in 1..Len(stream) /\ k + 1 # 1
  BY <1>1, SMT
<1>4. IsInjective(stream')
  <2> SUFFICES ASSUME NEW a \in 1..(Len(stream) - 1), NEW b \in 1..(Len(stream) - 1),
                      stream'[a] = stream'[b]
               PROVE  a = b
    BY <1>2 DEF IsInjective
  <2>1. a + 1 = b + 1
    BY <1>2, <1>3, SMT DEF CallInv, IsInjective
  <2> QED BY <2>1, SMT
<1>5. ASSUME NEW k \in 1..(Len(stream) - 1)
      PROVE  ans'[stream'[k]] = "sent"
  <2>1. stream[k + 1] \in Workers /\ 1 \in DOMAIN stream
    BY <1>1, <1>2, <1>3, SMT
  <2>2. stream[k + 1] # i
    BY <2>1, <1>1, <1>2, <1>3 DEF CallInv, IsInjective
  <2> QED BY <2>1, <2>2, <1>2, <1>3, SMT DEF CallInv
<1> QED BY <1>2, <1>4, <1>5 DEF CallInv

LEMMA AnswerCalls ==
    ASSUME TeamTypes, CallInv, style' = style, NEW i \in Workers, NEW status, Answer(i, status),
           w[i] = "busy", NEW x, x # "busy", w' = [w EXCEPT ![i] = x]
    PROVE  CallInv'
<1>1. CASE style = "tool"
  BY <1>1 DEF CallInv
<1>2. CASE style # "tool"
  <2>1. stream # <<>> /\ Head(stream) = i /\ \A j \in Workers : w[j] = "busy" => j = i
    BY <1>2 DEF CallInv
  <2>2. stream' = Tail(stream)
    BY <2>1 DEF Answer
  <2>3. \A h \in Workers : h # i => ans'[h] = ans[h]
    BY DEF TeamTypes, Answer
  <2>4. \A j \in Workers : w'[j] # "busy"
    BY <2>1 DEF TeamTypes
  <2> QED BY <1>2, <2>1, <2>2, <2>3, <2>4, ServedCalls
<1> QED BY <1>1, <1>2

\* The lead's side of the stream.
LEMMA RunCalls ==
    ASSUME TeamTypes, CallInv, NEW g \in Workers, RunStep(g)
    PROVE  CallInv'
<1>1. style' = style /\ (style # "tool" => w' = w)
  BY RunFacts
<1>2. CASE style = "tool"
  BY <1>1, <1>2 DEF CallInv
<1>3. ASSUME style # "tool", ans[g] # "sent", NEW x, ans' = [ans EXCEPT ![g] = x], stream' = stream
      PROVE  CallInv'
  <2>1. \A h \in Workers : h # g => ans'[h] = ans[h]
    BY <1>3 DEF TeamTypes
  <2>2. \A k \in DOMAIN stream : stream[k] # g /\ stream[k] \in Workers
    BY <1>3, NotInStream, SMT DEF TeamTypes
  <2> QED BY <1>1, <1>3, <2>1, <2>2 DEF CallInv
<1>4. CASE style # "tool"
  <2>1. \/ stream' = stream /\ ans' = ans
        \/ ans[g] # "sent" /\ ExecuteOn(g)
        \/ ans[g] # "sent" /\ stream' = stream /\ \E x : ans' = [ans EXCEPT ![g] = x]
    BY <1>4 DEF RunStep, RunGroup, RunSubtask, ResearchRun, ManagerRun
  <2>2. CASE stream' = stream /\ ans' = ans
    BY <1>1, <1>4, <2>2, CallFrame
  <2>3. CASE ans[g] # "sent" /\ ExecuteOn(g)
    BY <1>1, <1>4, <2>3, ExecuteOnCalls
  <2> QED BY <2>1, <2>2, <2>3, <1>3, <1>4
<1> QED BY <1>2, <1>4

\* The kernel's side: it serves the call in front, and only when that call is
\* answered the next one.
LEMMA WorkerCalls ==
    ASSUME TeamTypes, CallInv, NEW i \in Workers, WorkerStep(i)
    PROVE  CallInv'
<1>0. style' = style /\ w \in [Workers -> WorkerState]
  BY WorkerFacts DEF TeamTypes
<1>1. CASE KernelServes(i)
  <2>1. stream # <<>> /\ Head(stream) = i
    BY <1>1 DEF KernelServes
  <2>2. CASE Up(i)
    <3>1. stream' = stream /\ ans' = ans /\ w' = [w EXCEPT ![i] = "busy"]
      BY <1>1, <2>2 DEF KernelServes
    <3>2. \A j \in Workers : w'[j] = "busy" => j = i \/ w[j] = "busy"
      BY <1>0, <3>1
    <3> QED BY <1>0, <2>1, <3>1, <3>2 DEF CallInv
  <2>3. CASE ~Up(i)
    <3>1. w' = w /\ stream' = Tail(stream) /\ ans' = [ans EXCEPT ![i] = "error"]
      BY <1>1, <2>3 DEF KernelServes
    <3>2. CASE style = "tool"
      BY <1>0, <3>2 DEF CallInv
    <3>3. CASE style # "tool"
      <4>1. \A j \in Workers : w'[j] # "busy"
        BY <2>1, <2>3, <3>1, <3>3 DEF CallInv, Up
      <4>2. \A h \in Workers : h # i => ans'[h] = ans[h]
        BY <3>1 DEF TeamTypes
      <4> QED BY <1>0, <2>1, <3>1, <3>3, <4>1, <4>2, ServedCalls
    <3> QED BY <3>2, <3>3
  <2> QED BY <2>2, <2>3
<1>2. AfterTask # "busy" /\ "exited" # "busy"
  BY DEF AfterTask
<1>3. CASE WorkerAgent(i)
  BY <1>0, <1>2, <1>3, AnswerCalls DEF WorkerAgent
<1>4. CASE ResearchWorker(i)
  BY <1>0, <1>2, <1>4, AnswerCalls DEF ResearchWorker
<1>5. CASE SubWorker(i)
  BY <1>0, <1>2, <1>5, AnswerCalls DEF SubWorker
<1>6. CASE ExecuteTaskTimeout(i)
  BY <1>0, <1>6 DEF ExecuteTaskTimeout, CallInv
<1>7. CASE WorkerExits(i)
  <2>1. w' = [w EXCEPT ![i] = "exited"]
    BY <1>7 DEF WorkerExits
  <2>2. CASE w[i] = "busy"
    BY <1>0, <1>2, <1>7, <2>1, <2>2, AnswerCalls DEF WorkerExits
  <2>3. CASE w[i] # "busy"
    BY <1>0, <1>7, <2>1, <2>3, CallFrame DEF WorkerExits
  <2> QED BY <2>2, <2>3
<1>8. CASE Reaped(i)
  <2>1. w' = [w EXCEPT ![i] = "gone"] /\ stream' = stream /\ ans' = ans
    BY <1>8 DEF Reaped
  <2> QED BY <1>0, <2>1, CallFrame
<1> QED BY <1>1, <1>3, <1>4, <1>5, <1>6, <1>7, <1>8 DEF WorkerStep, Worker

-----------------------------------------------------------------------------
(* Who is still up *)

\* The workers that have been sent a kill are down, the ones the lead does not
\* know of were never up unless a cancellation cut a spawn off, and a lead is
\* through with a task it calls a success only when it has killed them all.
CrewInv ==
    /\ killed <= crew
    /\ stage = "plan" => crew = 0
    /\ stage \in {"plan", "spawn", "run"} => killed = 0
    /\ style # "tool" /\ stage \in {"synthesize", "store"} => killed = 0
    /\ stage = "kill" => killed < crew
    /\ \A i \in Workers : i <= killed => ~Up(i)
    /\ \/ \A i \in Workers : i > crew => ~Up(i)
       \/ cut
       \/ outcome = "cancelled" /\ style # "tool"
    /\ outcome = "ok" => stage = "done" /\ killed = crew
    /\ outcome = "cancelled" => stage = "done" \/ style = "tool"
    /\ cut => style = "tool" /\ outcome = "cancelled" /\ stage \in {"kill", "done"}
    /\ style = "tool" => stage # "store"
    /\ style = "tool" /\ stage = "synthesize" => killed = crew
    /\ style = "tool" /\ stage = "done" /\ ~cut => killed = crew

LEMMA PlanCrew ==
    ASSUME TeamTypes, CrewInv, PlanStep
    PROVE  CrewInv'
<1>1. UNCHANGED <<style, crew, killed, w, cut>> /\ stage = "plan"
  BY PlanFacts
<1>2. CASE stage' = "done" /\ outcome' = "error"
  BY <1>1, <1>2 DEF CrewInv, Up
<1>3. CASE stage' \in {"spawn", "run"} /\ outcome' = outcome
  BY <1>1, <1>3 DEF CrewInv, Up
<1> QED BY <1>2, <1>3, PlanFacts

LEMMA SpawnCrew ==
    ASSUME TeamTypes, CrewInv, SpawnStep
    PROVE  CrewInv'
<1>1. UNCHANGED <<style, killed, cut>> /\ stage = "spawn"
  BY SpawnFacts
<1>2. crew \in Nat /\ killed = 0 /\ w \in [Workers -> WorkerState] /\ Workers \subseteq Nat
  <2>1. Workers \subseteq Nat
    BY WorkersFacts, SMT
  <2> QED BY <1>1, <2>1 DEF TeamTypes, CrewInv
<1>3. \A i \in Workers : i > 0
  BY WorkersFacts, SMT
<1>4. CASE Spawn
  <2>1. /\ w' = [w EXCEPT ![crew + 1] = "idle"] /\ crew' = crew + 1
        /\ stage' \in {"run", "spawn"} /\ outcome' = outcome
    BY <1>4 DEF Spawn
  <2>2. \A i \in Workers : i > crew' => i > crew /\ w'[i] = w[i]
    BY <1>2, <2>1, SMT
  <2>3. \/ \A i \in Workers : i > crew' => ~Up(i)'
        \/ cut
        \/ outcome = "cancelled" /\ style # "tool"
    BY <2>2 DEF CrewInv, Up
  <2>4. \A i \in Workers : ~(i <= killed)
    BY <1>2, <1>3, SMT
  <2>5. killed' <= crew'
    BY <1>1, <1>2, <2>1, SMT
  <2> QED BY <1>1, <1>2, <2>1, <2>3, <2>4, <2>5 DEF CrewInv
<1>5. CASE UNCHANGED <<w, crew>> /\ outcome' = "error" /\ style # "tool" /\ stage' = "done"
  BY <1>1, <1>5 DEF CrewInv, Up
<1>6. CASE UNCHANGED <<w, crew>> /\ outcome' = "error" /\ style = "tool" /\ Finally
  BY <1>1, <1>2, <1>6, SMT DEF CrewInv, Up, Finally
<1> QED BY <1>4, <1>5, <1>6, SpawnFacts

LEMMA MoveCrew ==
    ASSUME TeamTypes, CrewInv, MoveStep
    PROVE  CrewInv'
<1>1. UNCHANGED <<style, crew, killed, w, cut>>
  BY MoveFacts
<1>2. crew \in Nat /\ killed \in Nat
  BY DEF TeamTypes
<1>3. \A i \in Workers : Up(i)' <=> Up(i)
  BY <1>1 DEF Up
<1>4. CASE style = "tool"
  <2>1. CASE stage = "run" /\ outcome' = outcome /\ stage' = (IF crew = 0 THEN "synthesize" ELSE "kill")
    BY <1>1, <1>2, <1>3, <1>4, <2>1, SMT DEF CrewInv
  <2>2. CASE stage = "synthesize" /\ stage' = "done" /\ outcome' = "ok"
    BY <1>1, <1>2, <1>3, <1>4, <2>2 DEF CrewInv
  <2> QED BY <1>4, <2>1, <2>2, MoveFacts
<1>5. CASE style # "tool"
  <2>1. stage \in {"run", "synthesize", "store"}
    BY <1>5, MoveFacts
  <2>2. CASE stage' \in {"synthesize", "store"} /\ outcome' = outcome
    BY <1>1, <1>2, <1>3, <1>5, <2>1, <2>2 DEF CrewInv
  <2>3. CASE stage' = "done" /\ outcome' = "error"
    BY <1>1, <1>2, <1>3, <1>5, <2>1, <2>3 DEF CrewInv
  <2>4. CASE stage' = "done" /\ outcome' = "ok" /\ crew = 0
    BY <1>1, <1>2, <1>3, <1>5, <2>1, <2>4 DEF CrewInv
  <2>5. CASE stage' = "kill" /\ outcome' = outcome /\ crew # 0
    BY <1>1, <1>2, <1>3, <1>5, <2>1, <2>5, SMTT(20) DEF CrewInv
  <2> QED BY <1>5, <2>2, <2>3, <2>4, <2>5, MoveFacts
<1> QED BY <1>4, <1>5

LEMMA KillCrew ==
    ASSUME TeamTypes, CrewInv, KillStep
    PROVE  CrewInv'
<1>1. UNCHANGED <<style, crew, cut>> /\ stage = "kill" /\ KillNext
  BY KillFacts
<1>2. crew \in Nat /\ killed \in Nat /\ killed < crew /\ killed' = killed + 1
  BY <1>1 DEF TeamTypes, CrewInv, KillNext
<1>3. \A i \in Workers : i \in Nat
  BY SMT DEF Workers
<1>4. \A i \in Workers : (Up(i)' => Up(i)) /\ (i = killed + 1 => ~Up(i)')
  BY <1>1 DEF KillNext, TeamTypes, Up
<1>5. \A i \in Workers : i <= killed' => ~Up(i)'
  <2>1. \A i \in Workers : i <= killed' => i <= killed \/ i = killed + 1
    BY <1>2, <1>3, SMT
  <2> QED BY <2>1, <1>4 DEF CrewInv
<1>6. \/ \A i \in Workers : i > crew' => ~Up(i)'
      \/ cut
      \/ outcome = "cancelled" /\ style # "tool"
  BY <1>1, <1>4 DEF CrewInv
<1>7. killed' <= crew' /\ killed' \in Nat
  BY <1>1, <1>2, SMT
<1>8. CASE style = "tool"
  <2>1. /\ outcome' = outcome
        /\ stage' = IF killed' < crew THEN "kill"
                    ELSE IF outcome = "none" THEN "synthesize" ELSE "done"
    BY <1>8, KillFacts
  <2>2. ~(killed' < crew) => killed' = crew
    BY <1>1, <1>2, SMT
  <2>3. outcome # "ok"
    BY <1>1 DEF CrewInv
  <2>4. cut => outcome # "none" /\ outcome = "cancelled"
    BY DEF CrewInv
  <2> QED BY <1>1, <1>5, <1>6, <1>7, <1>8, <2>1, <2>2, <2>3, <2>4 DEF CrewInv
<1>9. CASE style # "tool"
  <2>1. outcome # "cancelled" /\ outcome # "ok" /\ ~cut
    BY <1>1, <1>9 DEF CrewInv
  <2>2. CASE stage' = "kill" /\ outcome' = outcome /\ killed' # crew
    <3>1. killed' < crew'
      BY <1>1, <1>2, <2>2, SMT
    <3> QED BY <1>1, <1>5, <1>6, <1>7, <1>9, <2>1, <2>2, <3>1 DEF CrewInv
  <2>3. CASE stage' = "done" /\ outcome' = "error"
    BY <1>1, <1>5, <1>6, <1>7, <1>9, <2>1, <2>3 DEF CrewInv
  <2>4. CASE stage' = "done" /\ outcome' = "ok" /\ killed' = crew
    BY <1>1, <1>5, <1>6, <1>7, <1>9, <2>1, <2>4 DEF CrewInv
  <2> QED BY <1>9, <2>2, <2>3, <2>4, KillFacts
<1> QED BY <1>8, <1>9

LEMMA RunCrew ==
    ASSUME TeamTypes, CrewInv, NEW g \in Workers, RunStep(g)
    PROVE  CrewInv'
<1>1. UNCHANGED <<style, crew, killed, cut>> /\ stage = "run"
  BY RunFacts
<1>2. \A i \in Workers : Up(i)' => Up(i)
  BY RunFacts DEF TeamTypes, Up
<1>3. CASE UNCHANGED <<stage, outcome>>
  BY <1>1, <1>2, <1>3 DEF CrewInv
<1>4. CASE stage' = "done" /\ outcome' = "error" /\ style # "tool"
  BY <1>1, <1>2, <1>4 DEF CrewInv
<1> QED BY <1>3, <1>4, RunFacts

LEMMA WorkerCrew ==
    ASSUME TeamTypes, CrewInv, NEW i \in Workers, WorkerStep(i)
    PROVE  CrewInv'
<1>1. UNCHANGED <<style, crew, killed, stage, outcome, cut>>
  BY WorkerFacts
<1>2. \A j \in Workers : Up(j)' => Up(j)
  BY WorkerFacts
<1> QED BY <1>1, <1>2 DEF CrewInv

LEMMA CancelCrew ==
    ASSUME TeamTypes, CrewInv, Cancel
    PROVE  CrewInv'
<1>1. /\ UNCHANGED <<style, crew, killed>> /\ stage # "done" /\ outcome # "cancelled"
      /\ outcome' = "cancelled"
      /\ IF style = "tool" /\ stage \in {"spawn", "run"} THEN Finally ELSE stage' = "done"
  BY DEF Cancel, Input
<1>2. cut' <=> (style = "tool" /\ stage \in {"spawn", "kill"})
  BY DEF Cancel
<1>3. crew \in Nat /\ killed \in Nat /\ killed <= crew /\ ~cut
  BY <1>1 DEF TeamTypes, CrewInv
<1>4. \A i \in Workers : i <= killed => ~Up(i)'
  <2>1. \A i \in Workers : i <= killed => i <= crew
    BY <1>3, SMT DEF Workers
  <2> QED BY <2>1, CancelFacts DEF CrewInv
<1>5. CASE style # "tool"
  <2>1. stage' = "done" /\ ~cut'
    BY <1>1, <1>2, <1>5
  <2> QED BY <1>1, <1>3, <1>4, <1>5, <2>1 DEF CrewInv
<1>6. CASE style = "tool" /\ stage = "spawn"
  <2>1. killed = 0 /\ cut'
    BY <1>2, <1>6 DEF CrewInv
  <2>2. stage' = IF crew = 0 THEN "done" ELSE "kill"
    BY <1>1, <1>6 DEF Finally
  <2>3. stage' = "kill" => killed < crew
    BY <1>3, <2>1, <2>2, SMT
  <2> QED BY <1>1, <1>3, <1>4, <1>6, <2>1, <2>2, <2>3 DEF CrewInv
<1>7. CASE style = "tool" /\ stage # "spawn"
  <2>1. \A i \in Workers : i > crew => ~Up(i)'
    BY <1>3, <1>7, CancelFacts DEF CrewInv
  <2>2. CASE stage = "run"
    <3>1. killed = 0 /\ ~cut'
      BY <1>2, <2>2 DEF CrewInv
    <3>2. stage' = IF crew = 0 THEN "done" ELSE "kill"
      BY <1>1, <1>7, <2>2 DEF Finally
    <3>3. stage' = "kill" => killed < crew
      BY <1>3, <3>1, <3>2, SMT
    <3> QED BY <1>1, <1>3, <1>4, <1>7, <2>1, <3>1, <3>2, <3>3 DEF CrewInv
  <2>3. CASE stage # "run"
    <3>1. stage' = "done"
      BY <1>1, <1>7, <2>3
    <3>2. ~cut' => killed = crew
      <4>1. ASSUME ~cut'
            PROVE  stage \in {"plan", "synthesize"}
        <5>1. stage \in Stages
          BY DEF TeamTypes
        <5> QED BY <4>1, <1>1, <1>2, <1>7, <2>3, <5>1 DEF Stages, CrewInv
      <4> QED BY <4>1, <1>7 DEF CrewInv
    <3> QED BY <1>1, <1>3, <1>4, <1>7, <2>1, <3>1, <3>2 DEF CrewInv
  <2> QED BY <2>2, <2>3
<1> QED BY <1>5, <1>6, <1>7

-----------------------------------------------------------------------------
(* What a worker remembers *)

\* The results of a group, with the one that has come back and is not yet
\* looked at.
Done(i) == IF ans[i] \in {"ok", "error"} THEN Append(results[i], ans[i]) ELSE results[i]

Good(d) == {k \in DOMAIN d : d[k] = "ok"}

\* m lists the items of g whose result in d is good, in order.
Lists(m, d, g) ==
    /\ Len(m) = Cardinality(Good(d))
    /\ \A k \in Good(d) : m[Cardinality({j \in Good(d) : j <= k})] = g[k]

Context(g) == Seq({g[k] : k \in Nat})

MemoryInv ==
    style = "orchestrator" =>
        /\ memory = [i \in Workers |-> memory[i]]
        /\ stage = "plan" => \A i \in Workers : memory[i] = <<>>
        /\ \A i \in Workers :
              /\ memory[i] \in Context(groups[i])
              /\ Lists(memory[i], Done(i), groups[i])

LEMMA GoodFinite ==
    ASSUME NEW d \in Seq({"ok", "error"})
    PROVE  IsFiniteSet(Good(d)) /\ Cardinality(Good(d)) \in Nat
<1>1. DOMAIN d = 1..Len(d) /\ IsFiniteSet(1..Len(d))
  BY FS_Interval, SMT
<1>2. Good(d) \in SUBSET (1..Len(d))
  BY <1>1 DEF Good
<1> QED BY <1>1, <1>2, FS_Subset, FS_CardinalityType

\* A good result adds the next item to the list, a bad one nothing.
LEMMA ListsAppend ==
    ASSUME NEW g, NEW d \in Seq({"ok", "error"}), NEW m \in Context(g), Lists(m, d, g)
    PROVE  /\ Append(m, g[Len(d) + 1]) \in Context(g)
           /\ Lists(Append(m, g[Len(d) + 1]), Append(d, "ok"), g)
           /\ Lists(m, Append(d, "error"), g)
<1> DEFINE n == Len(d) + 1
           S == Good(d)
           upto(T, k) == {j \in T : j <= k}
           x == g[n]
           p == Append(m, x)
<1>1. Len(d) \in Nat /\ n \in Nat /\ DOMAIN d = 1..Len(d)
  BY SMT
<1>2. \A v \in {"ok", "error"} :
         /\ DOMAIN Append(d, v) = 1..n /\ Append(d, v)[n] = v
         /\ \A k \in 1..Len(d) : Append(d, v)[k] = d[k]
  BY SMT
<1>3. \A k \in 1..n : k \in 1..Len(d) \/ k = n
  BY <1>1, SMT
<1>4. 1..Len(d) \subseteq 1..n /\ n \in 1..n /\ n \notin 1..Len(d)
  BY <1>1, SMT
<1> HIDE DEF n
<1>5. Good(Append(d, "error")) = S
  BY <1>1, <1>2, <1>3, <1>4 DEF Good
<1>6. Good(Append(d, "ok")) = S \cup {n}
  BY <1>1, <1>2, <1>3, <1>4 DEF Good
<1>7. IsFiniteSet(S) /\ Cardinality(S) \in Nat /\ n \notin S /\ S \subseteq 1..Len(d)
  BY <1>1, <1>4, GoodFinite DEF Good
<1>8. Len(m) = Cardinality(S) /\ \A k \in S : m[Cardinality(upto(S, k))] = g[k]
  BY DEF Lists
<1> HIDE DEF S
<1>9. Cardinality(S \cup {n}) = Cardinality(S) + 1
  BY <1>7, FS_AddElement
<1>10. x \in {g[k] : k \in Nat}
  BY <1>1
<1>11. /\ p \in Context(g) /\ Len(p) = Len(m) + 1 /\ p[Len(m) + 1] = x
       /\ \A k \in 1..Len(m) : p[k] = m[k]
  BY <1>10, SMTT(20) DEF Context
<1> HIDE DEF p, x
<1>12. ASSUME NEW k \in S
       PROVE  /\ upto(S \cup {n}, k) = upto(S, k)
              /\ Cardinality(upto(S, k)) \in 1..Len(m)
  <2>1. k \in Nat /\ k < n
    BY <1>1, <1>7, SMT DEF n
  <2>2. upto(S \cup {n}, k) = upto(S, k)
    BY <2>1, <1>1, SMT
  <2>3. upto(S, k) \in SUBSET S /\ k \in upto(S, k)
    BY <2>1, SMT
  <2> HIDE DEF upto
  <2>4. IsFiniteSet(upto(S, k)) /\ Cardinality(upto(S, k)) <= Cardinality(S)
    BY <2>3, <1>7, FS_Subset
  <2>5. Cardinality(upto(S, k)) \in Nat /\ Cardinality(upto(S, k)) # 0
    BY <2>3, <2>4, FS_CardinalityType, FS_EmptySet
  <2> QED BY <2>2, <2>4, <2>5, <1>7, <1>8, SMT
<1>13. upto(S \cup {n}, n) = S \cup {n}
  <2>1. \A k \in S : k <= n
    BY <1>1, <1>7, SMT DEF n
  <2> QED BY <2>1, <1>1, SMT
<1> HIDE DEF upto
<1>14. ASSUME NEW k \in S \cup {n}
       PROVE  p[Cardinality(upto(S \cup {n}, k))] = g[k]
  <2>1. CASE k \in S
    BY <2>1, <1>8, <1>11, <1>12
  <2>2. CASE k = n
    BY <2>2, <1>8, <1>9, <1>11, <1>13 DEF x
  <2> QED BY <2>1, <2>2
<1>15. Lists(p, Append(d, "ok"), g)
  BY <1>6, <1>7, <1>8, <1>9, <1>11, <1>14 DEF Lists, upto
<1>16. Lists(m, Append(d, "error"), g)
  BY <1>5, <1>8 DEF Lists, upto
<1> QED BY <1>11, <1>15, <1>16 DEF p, x, n

\* A step that leaves the groups, the memories and the results alone.
LEMMA MemoryFrame ==
    ASSUME MemoryInv, UNCHANGED <<style, groups, memory>>, stage' = "plan" => stage = "plan",
           style = "orchestrator" => \A i \in Workers : Done(i)' = Done(i)
    PROVE  MemoryInv'
BY DEF MemoryInv

\* A plan finds every memory empty.
LEMMA PlanMemory ==
    ASSUME TeamTypes, MemoryInv, PlanStep
    PROVE  MemoryInv'
<1>1. UNCHANGED <<style, memory, ans, results>> /\ stage = "plan" /\ stage' # "plan"
  BY PlanFacts
<1> SUFFICES ASSUME style = "orchestrator", NEW i \in Workers
             PROVE  memory[i] \in Context(groups'[i]) /\ Lists(memory[i], Done(i), groups'[i])
  BY <1>1 DEF MemoryInv, Done
<1>2. memory[i] = <<>> /\ Lists(memory[i], Done(i), groups[i])
  BY <1>1 DEF MemoryInv
<1>3. Done(i) \in Seq({"ok", "error"})
  BY SMT DEF Done, TeamTypes
<1>4. Cardinality(Good(Done(i))) = 0
  BY <1>2 DEF Lists
<1>5. Good(Done(i)) = {}
  BY <1>3, <1>4, GoodFinite, FS_EmptySet
<1>6. <<>> \in Context(groups'[i])
  BY SMT DEF Context
<1> QED BY <1>2, <1>4, <1>5, <1>6 DEF Lists

\* The lead moves an answer over to the results.
LEMMA RunMemory ==
    ASSUME TeamTypes, MemoryInv, NEW g \in Workers, RunStep(g)
    PROVE  MemoryInv'
<1>1. UNCHANGED <<style, groups, memory>> /\ stage' \in {"run", "done"}
  BY RunFacts
<1>2. ASSUME style = "orchestrator", NEW i \in Workers
      PROVE  Done(i)' = Done(i)
  <2>1. RunGroup(g)
    BY <1>2 DEF RunStep, RunSubtask, ResearchRun, ManagerRun
  <2>2. ans[g] \in {"new", "ok", "error"} /\ Gather(g)
    BY <2>1 DEF RunGroup
  <2>3. ans' = [ans EXCEPT ![g] = "sent"] \/ ans' = [ans EXCEPT ![g] = "over"]
    BY <2>1 DEF RunGroup, ExecuteOn
  <2>4. ans \in [Workers -> CallState] /\ results \in [Workers -> Seq({"ok", "error"})]
    BY DEF TeamTypes
  <2>5. CASE i = g
    <3>1. ans'[g] \in {"sent", "over"}
      BY <2>3, <2>4
    <3>2. results'[g] = Done(g)
      BY <2>2, <2>4 DEF Gather, Done
    <3> QED BY <2>5, <3>1, <3>2 DEF Done
  <2>6. CASE i # g
    <3>1. ans'[i] = ans[i] /\ results'[i] = results[i]
      BY <2>2, <2>3, <2>4, <2>6 DEF Gather
    <3> QED BY <3>1 DEF Done
  <2> QED BY <2>5, <2>6
<1> QED BY <1>1, <1>2, MemoryFrame

\* The call of a group fails.
LEMMA ErrorMemory ==
    ASSUME TeamTypes, MemoryInv, UNCHANGED <<style, stage, groups, memory, results>>,
           NEW i \in Workers, ans[i] = "sent", ans' = [ans EXCEPT ![i] = "error"]
    PROVE  MemoryInv'
<1>1. ans'[i] = "error" /\ \A j \in Workers : j # i => ans'[j] = ans[j]
  BY DEF TeamTypes
<1>2. Done(i) = results[i] /\ Done(i)' = Append(results[i], "error") /\ results[i] \in Seq({"ok", "error"})
  BY <1>1 DEF Done, TeamTypes
<1>3. \A j \in Workers : j # i => Done(j)' = Done(j)
  BY <1>1, SMT DEF Done
<1>4. CASE style = "orchestrator"
  <2>1. Lists(memory[i], Done(i)', groups[i])
    BY <1>2, <1>4, ListsAppend DEF MemoryInv
  <2> QED BY <1>3, <2>1 DEF MemoryInv
<1>5. CASE style # "orchestrator"
  BY <1>5 DEF MemoryInv
<1> QED BY <1>4, <1>5

\* A WorkerAgent remembers a task once it has completed it.
LEMMA WorkerMemory ==
    ASSUME TeamTypes, CallInv, CrewInv, MemoryInv, NEW i \in Workers, WorkerStep(i)
    PROVE  MemoryInv'
<1>1. UNCHANGED <<style, stage, groups, results>>
  BY WorkerFacts
<1>2. CASE style # "orchestrator"
  BY <1>1, <1>2 DEF MemoryInv
<1>3. ASSUME style = "orchestrator", stream # <<>>, Head(stream) = i
      PROVE  ans[i] = "sent"
  <2>1. 1 \in DOMAIN stream /\ stream[1] = i
    BY <1>3, SMT DEF TeamTypes
  <2> QED BY <1>3, <2>1 DEF CallInv
<1>4. ASSUME style = "orchestrator", w[i] = "busy"
      PROVE  ans[i] = "sent"
  BY <1>3, <1>4 DEF CallInv
<1>5. ASSUME ans' = ans, memory' = memory
      PROVE  MemoryInv'
  BY <1>1, <1>5, MemoryFrame DEF Done
<1>6. CASE style = "orchestrator"
  <2>1. CASE KernelServes(i)
    <3>1. memory' = memory /\ stream # <<>> /\ Head(stream) = i
      BY <2>1 DEF KernelServes
    <3>2. CASE Up(i)
      BY <1>5, <2>1, <3>1, <3>2 DEF KernelServes
    <3>3. CASE ~Up(i)
      BY <1>1, <1>3, <1>6, <2>1, <3>1, <3>3, ErrorMemory DEF KernelServes
    <3> QED BY <3>2, <3>3
  <2>2. CASE WorkerAgent(i)
    <3>1. w[i] = "busy" /\ ans[i] = "sent"
      BY <1>4, <1>6, <2>2 DEF WorkerAgent
    <3>2. CASE Answer(i, "error") /\ memory' = memory
      BY <1>1, <3>1, <3>2, ErrorMemory DEF Answer
    <3>3. CASE /\ Answer(i, "ok")
               /\ memory' = [memory EXCEPT ![i] = Append(memory[i], groups[i][Len(results[i]) + 1])]
      <4>1. ans'[i] = "ok" /\ \A j \in Workers : j # i => ans'[j] = ans[j]
        BY <3>1, <3>3 DEF Answer, TeamTypes
      <4>2. Done(i) = results[i] /\ Done(i)' = Append(results[i], "ok") /\ results[i] \in Seq({"ok", "error"})
        BY <1>1, <3>1, <4>1 DEF Done, TeamTypes
      <4>3. \A j \in Workers : j # i => Done(j)' = Done(j)
        BY <1>1, <4>1 DEF Done
      <4>4. memory = [j \in Workers |-> memory[j]]
        BY <1>6 DEF MemoryInv
      <4>5. /\ memory'[i] = Append(memory[i], groups[i][Len(results[i]) + 1])
            /\ \A j \in Workers : j # i => memory'[j] = memory[j]
            /\ memory' = [j \in Workers |-> memory'[j]]
        BY <3>3, <4>4
      <4>6. memory'[i] \in Context(groups[i]) /\ Lists(memory'[i], Done(i)', groups[i])
        BY <1>6, <4>2, <4>5, ListsAppend, SMT DEF MemoryInv
      <4>7. stage # "plan"
        <5>1. i > 0 /\ Up(i)
          BY <3>1, TeamsAssumption, SMT DEF Workers, Up
        <5> QED BY <1>6, <5>1 DEF CrewInv
      <4> QED BY <1>1, <4>3, <4>5, <4>6, <4>7 DEF MemoryInv
    <3> QED BY <2>2, <3>2, <3>3 DEF WorkerAgent
  <2>3. CASE ResearchWorker(i) \/ SubWorker(i) \/ ExecuteTaskTimeout(i)
    BY <1>6, <2>3 DEF ResearchWorker, SubWorker, ExecuteTaskTimeout
  <2>4. CASE WorkerExits(i)
    <3>1. memory' = memory
      BY <2>4 DEF WorkerExits
    <3>2. CASE w[i] = "busy"
      BY <1>1, <1>4, <1>6, <2>4, <3>1, <3>2, ErrorMemory DEF WorkerExits, Answer
    <3>3. CASE w[i] # "busy"
      BY <1>5, <2>4, <3>1, <3>3 DEF WorkerExits
    <3> QED BY <3>2, <3>3
  <2>5. CASE Reaped(i)
    BY <1>5, <2>5 DEF Reaped
  <2> QED BY <2>1, <2>2, <2>3, <2>4, <2>5 DEF WorkerStep, Worker
<1> QED BY <1>2, <1>6

-----------------------------------------------------------------------------
(* The team's invariant *)

TeamInv == TeamTypes /\ CallInv /\ CrewInv /\ MemoryInv

LEMMA TeamInitInv == TeamInit => TeamInv
<1> SUFFICES ASSUME TeamInit
             PROVE  TeamInv
  OBVIOUS
<1>1. /\ stage = "plan" /\ crew = 0 /\ killed = 0 /\ w = [i \in Workers |-> "none"]
      /\ memory = [i \in Workers |-> <<>>] /\ stream = <<>> /\ ans = [g \in Workers |-> "new"]
      /\ results = [g \in Workers |-> <<>>] /\ outcome = "none"
  BY DEF TeamInit
<1>2. ~cut
  BY DEF TeamInit
<1>3. TeamTypes
  BY <1>1, SMT DEF TeamTypes, Stages, WorkerState, CallState
<1>4. CallInv
  BY <1>1, SMT DEF CallInv, IsInjective
<1>5. CrewInv
  BY <1>1, <1>2, SMT DEF CrewInv, Up
<1>6. MemoryInv
  <2>1. \A i \in Workers : Done(i) = <<>> /\ memory[i] = <<>>
    BY <1>1 DEF Done
  <2>2. Good(<<>>) = {}
    BY SMT DEF Good
  <2>3. \A g : <<>> \in Context(g) /\ Lists(<<>>, <<>>, g)
    BY <2>2, FS_EmptySet, SMT DEF Context, Lists
  <2> QED BY <1>1, <2>1, <2>3 DEF MemoryInv
<1> QED BY <1>3, <1>4, <1>5, <1>6 DEF TeamInv

LEMMA TeamNextInv == TeamInv /\ [TeamNext]_teamVars => TeamInv'
<1> SUFFICES ASSUME TeamInv, [TeamNext]_teamVars
             PROVE  TeamInv'
  OBVIOUS
<1> USE DEF TeamInv
<1>0. \A i \in Workers : UNCHANGED <<ans, results>> => Done(i)' = Done(i)
  BY DEF Done
<1>1. CASE PlanStep
  <2>1. TeamTypes'
    BY <1>1, PlanFacts DEF TeamTypes, Stages
  <2>2. CallInv'
    BY <1>1, PlanFacts, CallFrame
  <2> QED BY <1>1, <2>1, <2>2, PlanCrew, PlanMemory
<1>2. CASE SpawnStep
  <2>1. /\ UNCHANGED <<style, groups, killed, memory, stream, ans, results>> /\ stage = "spawn"
        /\ \/ w' = [w EXCEPT ![crew + 1] = "idle"] /\ crew' = crew + 1 /\ stage' \in {"run", "spawn"}
           \/ w' = w /\ crew' = crew /\ stage' \in {"done", "kill"}
    BY <1>2, SpawnFacts DEF Spawn, Finally
  <2>2. w' \in [Workers -> WorkerState] /\ \A i \in Workers : w'[i] = "busy" => w[i] = "busy"
    BY <2>1 DEF TeamTypes, WorkerState
  <2>3. TeamTypes'
    BY <2>1, <2>2, SMT DEF TeamTypes, Stages
  <2>4. CallInv'
    BY <2>1, <2>2, CallFrame
  <2>5. MemoryInv'
    BY <1>0, <2>1, MemoryFrame
  <2> QED BY <1>2, <2>3, <2>4, <2>5, SpawnCrew
<1>3. CASE MoveStep
  <2>1. UNCHANGED <<style, groups, crew, killed, w, memory, stream, ans, results>> /\ stage' \in Stages \ {"plan"}
    BY <1>3, MoveFacts DEF Stages
  <2>2. TeamTypes'
    BY <2>1 DEF TeamTypes
  <2>3. CallInv'
    BY <2>1, CallFrame
  <2>4. MemoryInv'
    BY <1>0, <2>1, MemoryFrame
  <2> QED BY <1>3, <2>2, <2>3, <2>4, MoveCrew
<1>4. CASE KillStep
  <2>1. UNCHANGED <<style, groups, crew, memory, stream, ans, results>> /\ stage' \in Stages \ {"plan"}
    BY <1>4, KillFacts DEF Stages
  <2>2. killed' = killed + 1 /\ (w' = w \/ w' = [w EXCEPT ![killed + 1] = "exited"])
    BY <1>4, KillFacts DEF KillNext
  <2>3. w' \in [Workers -> WorkerState] /\ \A i \in Workers : w'[i] = "busy" => w[i] = "busy"
    BY <2>2 DEF TeamTypes, WorkerState
  <2>4. TeamTypes'
    BY <2>1, <2>2, <2>3, SMT DEF TeamTypes
  <2>5. CallInv'
    BY <2>1, <2>3, CallFrame
  <2>6. MemoryInv'
    BY <1>0, <2>1, MemoryFrame
  <2> QED BY <1>4, <2>4, <2>5, <2>6, KillCrew
<1>5. CASE Cancel
  <2>1. UNCHANGED <<style, groups, crew, killed, memory, ans, results>> /\ stream' = <<>>
    BY <1>5 DEF Cancel, Input
  <2>2. stage' \in {"done", "kill"}
    BY <1>5 DEF Cancel, Finally
  <2>3. TeamTypes'
    BY <1>5, <2>1, <2>2, CancelFacts, SMT DEF TeamTypes, Stages
  <2>4. CallInv'
    BY <1>5, <2>1, CancelFacts, SMT DEF CallInv, IsInjective
  <2>5. MemoryInv'
    BY <1>0, <2>1, <2>2, MemoryFrame
  <2> QED BY <1>5, <2>3, <2>4, <2>5, CancelCrew
<1>6. ASSUME NEW i \in Workers, RunStep(i)
      PROVE  TeamInv'
  BY <1>6, RunTypes, RunCalls, RunCrew, RunMemory
<1>7. ASSUME NEW i \in Workers, WorkerStep(i)
      PROVE  TeamInv'
  BY <1>7, WorkerTypes, WorkerCalls, WorkerCrew, WorkerMemory
<1>8. CASE UNCHANGED teamVars
  <2>1. UNCHANGED <<style, stage, groups, crew, killed, w, memory, stream, ans, results, outcome, cut>>
    BY <1>8 DEF teamVars
  <2>2. CrewInv'
    BY <2>1 DEF CrewInv, Up
  <2>3. CallInv' /\ MemoryInv'
    BY <1>0, <2>1, CallFrame, MemoryFrame
  <2> QED BY <2>1, <2>2, <2>3 DEF TeamTypes
<1> QED BY <1>1, <1>2, <1>3, <1>4, <1>5, <1>6, <1>7, <1>8, TeamSteps

\* The calls, the crew and the memories are consistent in every state of a
\* team (orchestrator.py, power_tools.py, worker.py, executor.go).
THEOREM TeamInvariant == TeamSpec => []TeamInv
BY TeamInitInv, TeamNextInv, PTL DEF TeamSpec

\* Groups sent off together run one at a time: the kernel serves the syscalls
\* of a stream in sequence (executor.go 67-84).
THEOREM WorkersTakeTurns == TeamSpec => []OneAtATime
<1>1. TeamInv => OneAtATime
  <2> SUFFICES ASSUME TeamInv, style # "tool"
               PROVE  Cardinality({i \in Workers : w[i] = "busy"}) <= 1
    BY DEF OneAtATime
  <2> DEFINE B == {i \in Workers : w[i] = "busy"}
  <2>1. B \in SUBSET {Head(stream)}
    BY DEF TeamInv, CallInv
  <2>2. IsFiniteSet({Head(stream)}) /\ Cardinality({Head(stream)}) = 1
    BY FS_Singleton
  <2> HIDE DEF B
  <2>3. Cardinality(B) <= 1
    BY <2>1, <2>2, FS_Subset
  <2> QED BY <2>3 DEF B
<1> QED BY <1>1, TeamInvariant, PTL

\* A task that succeeds leaves no worker running, and the orchestrate tool
\* leaves none however it ends, unless it is cancelled while a spawn or a kill
\* is in flight (power_tools.py, the finally block; orchestrator.py,
\* _kill_safe).
THEOREM WorkersAreKilled == TeamSpec => []NoWorkerLeft
<1>1. TeamInv => NoWorkerLeft
  <2> SUFFICES ASSUME TeamInv, stage = "done", outcome = "ok" \/ (style = "tool" /\ ~cut),
                      NEW i \in Workers
               PROVE  ~Up(i)
    BY DEF NoWorkerLeft
  <2>1. killed = crew /\ \A j \in Workers : j > crew => ~Up(j)
    BY DEF TeamInv, CrewInv
  <2>2. i <= killed \/ i > crew
    BY <2>1, SMT DEF TeamInv, TeamTypes, Workers
  <2> QED BY <2>1, <2>2 DEF TeamInv, CrewInv
<1> QED BY <1>1, TeamInvariant, PTL

\* A worker's context is what it completed for its own group, in order, also
\* after errors in between (worker.py 27-60).
THEOREM ContextsAreOwn == TeamSpec => []ContextIsOwnGroup
<1>1. TeamInv => ContextIsOwnGroup
  BY DEF TeamInv, MemoryInv, ContextIsOwnGroup, Lists, Done, Good
<1> QED BY <1>1, TeamInvariant, PTL

-----------------------------------------------------------------------------
(* Sets of pairs in order, and sequences put together *)

\* A function on 1..n is a sequence of n elements.
LEMMA IsSeq ==
    ASSUME NEW S, NEW n \in Nat, NEW f \in [1..n -> S]
    PROVE  f \in Seq(S) /\ Len(f) = n /\ DOMAIN f = 1..n
  BY SMT

\* The pairs that stand for a place in a plan or for a subtask.
Pairs == Int \X Int

\* Pairs are ordered by their first number and then by their second.
LEMMA PairOrder ==
    /\ \A p \in Pairs : NoLater(p, p)
    /\ \A p, q \in Pairs : NoLater(p, q) \/ NoLater(q, p)
    /\ \A p, q \in Pairs : NoLater(p, q) /\ NoLater(q, p) => p = q
    /\ \A p, q, r \in Pairs : NoLater(p, q) /\ NoLater(q, r) => NoLater(p, r)
<1>1. \A p \in Pairs : p[1] \in Int /\ p[2] \in Int /\ p = <<p[1], p[2]>>
  BY SMT DEF Pairs
<1>2. \A p \in Pairs : NoLater(p, p)
  BY <1>1, SMT DEF NoLater
<1>3. \A p, q \in Pairs : NoLater(p, q) \/ NoLater(q, p)
  BY <1>1, SMT DEF NoLater
<1>4. ASSUME NEW p \in Pairs, NEW q \in Pairs, NoLater(p, q), NoLater(q, p)
      PROVE  p = q
  <2>1. p[1] = q[1] /\ p[2] = q[2]
    BY <1>1, <1>4, SMT DEF NoLater
  <2> QED BY <1>1, <2>1
<1>5. ASSUME NEW p \in Pairs, NEW q \in Pairs, NEW r \in Pairs, NoLater(p, q), NoLater(q, r)
      PROVE  NoLater(p, r)
  <2>1. p[1] \in Int /\ p[2] \in Int /\ q[1] \in Int /\ q[2] \in Int /\ r[1] \in Int /\ r[2] \in Int
    BY <1>1
  <2> QED BY <2>1, <1>5, SMT DEF NoLater
<1> QED BY <1>2, <1>3, <1>4, <1>5

\* InOrder lists every member of a finite set of pairs, and none twice.
LEMMA InOrderFacts ==
    ASSUME NEW S \in SUBSET Pairs, IsFiniteSet(S)
    PROVE  /\ Cardinality(S) \in Nat
           /\ InOrder(S) \in Seq(S) /\ Len(InOrder(S)) = Cardinality(S)
           /\ DOMAIN InOrder(S) = 1..Cardinality(S)
           /\ \A p \in S : \E n \in 1..Cardinality(S) : InOrder(S)[n] = p
           /\ \A m, n \in 1..Cardinality(S) : InOrder(S)[m] = InOrder(S)[n] => m = n
<1> DEFINE N == Cardinality(S)
           Place(p) == Cardinality(UpTo(S, p))
           f == [p \in S |-> Place(p)]
<1>0. \A p \in S : p \in Pairs
  OBVIOUS
<1>1. N \in Nat
  BY FS_CardinalityType
<1>2. \A p : UpTo(S, p) = {q \in S : NoLater(q, p)}
  BY DEF UpTo
<1>3. \A p \in S : IsFiniteSet(UpTo(S, p)) /\ Place(p) <= N /\ Place(p) \in Nat
  BY <1>2, FS_Subset, FS_CardinalityType
<1>4. ASSUME NEW p \in S
      PROVE  Place(p) \in 1..N
  <2>0. NoLater(p, p)
    BY <1>0, PairOrder
  <2>1. p \in UpTo(S, p)
    BY <1>2, <2>0
  <2>2. Place(p) # 0
    BY <1>3, <2>1, FS_EmptySet
  <2> HIDE DEF Place
  <2> QED BY <1>1, <1>3, <2>2, SMT
<1>5. ASSUME NEW p \in S, NEW q \in S, p # q, NoLater(p, q)
      PROVE  Place(p) # Place(q)
  <2>0. p \in Pairs /\ q \in Pairs
    BY <1>0
  <2>1. \A r \in S : NoLater(r, p) => NoLater(r, q)
    BY <1>0, <1>5, <2>0, PairOrder
  <2>2. UpTo(S, p) \in SUBSET UpTo(S, q)
    BY <1>2, <2>1
  <2>3. NoLater(q, q) /\ ~NoLater(q, p)
    BY <1>5, <2>0, PairOrder
  <2>4. q \in UpTo(S, q) /\ q \notin UpTo(S, p)
    BY <1>2, <2>3
  <2> QED BY <1>3, <2>2, <2>4, FS_Subset
<1>6. \A p, q \in S : Place(p) = Place(q) => p = q
  BY <1>5, PairOrder
<1>7. f \in Injection(S, 1..N)
  BY <1>4, <1>6 DEF Injection, IsInjective
<1>8. IsFiniteSet(1..N) /\ Cardinality(1..N) = N
  BY <1>1, FS_Interval, SMT
<1> HIDE DEF N, f
<1>9. f \in Surjection(S, 1..N)
  BY <1>7, <1>8, FS_Injection DEF N
<1>10. \A n \in 1..N : \E p \in S : Place(p) = n
  BY <1>9 DEF Surjection, f
<1>11. InOrder(S) = [n \in 1..N |-> CHOOSE p \in S : Place(p) = n]
  BY DEF InOrder, N
<1> HIDE DEF Place
<1>12. \A n \in 1..N : InOrder(S)[n] \in S /\ Place(InOrder(S)[n]) = n
  BY <1>10, <1>11
<1>13. InOrder(S) \in Seq(S) /\ Len(InOrder(S)) = N /\ DOMAIN InOrder(S) = 1..N
  <2>1. InOrder(S) \in [1..N -> S]
    BY <1>11, <1>12
  <2> QED BY <1>1, <2>1, IsSeq DEF N
<1>14. \A p \in S : InOrder(S)[Place(p)] = p
  BY <1>4, <1>6, <1>12
<1> QED BY <1>1, <1>4, <1>12, <1>13, <1>14 DEF N

\* The places of finitely many sequences.
LEMMA PositionFacts ==
    ASSUME NEW ss, NEW S \in SUBSET Int, IsFiniteSet(S), NEW T, \A i \in S : ss[i] \in Seq(T)
    PROVE  /\ IsFiniteSet(Positions(ss, S))
           /\ Positions(ss, S) \in SUBSET Pairs
           /\ \A p \in Positions(ss, S) : /\ p = <<p[1], p[2]>>
                                          /\ p[1] \in S /\ p[2] \in DOMAIN ss[p[1]]
                                          /\ ss[p[1]][p[2]] \in T
           /\ \A i \in S : \A k \in DOMAIN ss[i] : <<i, k>> \in Positions(ss, S)
<1> DEFINE f == [i \in S |-> {i} \X DOMAIN ss[i]]
           F == {{i} \X DOMAIN ss[i] : i \in S}
<1>1. \A i \in S : Len(ss[i]) \in Nat /\ DOMAIN ss[i] = 1..Len(ss[i]) /\ \A k \in DOMAIN ss[i] : ss[i][k] \in T /\ k \in Int
  BY SMT
<1>2. \A i \in S : IsFiniteSet({i} \X DOMAIN ss[i])
  <2>1. \A i \in S : IsFiniteSet(DOMAIN ss[i])
    BY <1>1, FS_Interval, SMT
  <2> QED BY <2>1, FS_Singleton, FS_Product
<1>3. f \in Surjection(S, F)
  BY DEF Surjection
<1>4. IsFiniteSet(F)
  BY <1>3, FS_Surjection
<1>5. IsFiniteSet(UNION F)
  BY <1>2, <1>4, FS_UNION
<1>6. Positions(ss, S) = UNION F
  BY DEF Positions
<1>7. ASSUME NEW p \in Positions(ss, S)
      PROVE  p = <<p[1], p[2]>> /\ p[1] \in S /\ p[2] \in DOMAIN ss[p[1]]
  <2>1. PICK i \in S : p \in {i} \X DOMAIN ss[i]
    BY <1>7 DEF Positions
  <2> QED BY <2>1, SMT
<1>8. \A i \in S : \A k \in DOMAIN ss[i] : <<i, k>> \in Positions(ss, S)
  <2> SUFFICES ASSUME NEW i \in S, NEW k \in DOMAIN ss[i]
               PROVE  <<i, k>> \in Positions(ss, S)
    OBVIOUS
  <2>1. <<i, k>> \in {i} \X DOMAIN ss[i]
    OBVIOUS
  <2> QED BY <2>1 DEF Positions
<1>9. Positions(ss, S) \in SUBSET Pairs
  <2> SUFFICES ASSUME NEW p \in Positions(ss, S)
               PROVE  p \in Pairs
    OBVIOUS
  <2>1. p = <<p[1], p[2]>> /\ p[1] \in Int /\ p[2] \in Int
    BY <1>1, <1>7
  <2> QED BY <2>1 DEF Pairs
<1> QED BY <1>1, <1>5, <1>6, <1>7, <1>8, <1>9

\* Where the items of a concatenation come from.
From(ss, S) == InOrder(Positions(ss, S))

\* The concatenation has the items of the sequences, one for each place.
LEMMA ConcatFacts ==
    ASSUME NEW ss, NEW S \in SUBSET Int, IsFiniteSet(S), NEW T, \A i \in S : ss[i] \in Seq(T)
    PROVE  /\ Concat(ss, S) \in Seq(T)
           /\ \A n \in DOMAIN Concat(ss, S) :
                 /\ From(ss, S)[n] \in Positions(ss, S)
                 /\ Concat(ss, S)[n] = ss[From(ss, S)[n][1]][From(ss, S)[n][2]]
           /\ \A p \in Positions(ss, S) : \E n \in DOMAIN Concat(ss, S) : From(ss, S)[n] = p
           /\ \A m, n \in DOMAIN Concat(ss, S) : From(ss, S)[m] = From(ss, S)[n] => m = n
<1> DEFINE P == Positions(ss, S)
           at == From(ss, S)
           N == Cardinality(P)
<1>1. /\ P \in SUBSET Pairs /\ IsFiniteSet(P)
      /\ \A p \in P : ss[p[1]][p[2]] \in T
  BY PositionFacts
<1>2. Concat(ss, S) = [n \in DOMAIN at |-> ss[at[n][1]][at[n][2]]]
  BY DEF Concat, From
<1> HIDE DEF P
<1>3. /\ N \in Nat /\ at \in Seq(P) /\ DOMAIN at = 1..N
      /\ \A p \in P : \E n \in 1..N : at[n] = p
      /\ \A m, n \in 1..N : at[m] = at[n] => m = n
  BY <1>1, InOrderFacts DEF From, P
<1> HIDE DEF at, N
<1>4. \A n \in 1..N : at[n] \in P
  BY <1>3, SMT
<1>5. Concat(ss, S) = [n \in 1..N |-> ss[at[n][1]][at[n][2]]]
  BY <1>2, <1>3
<1>6. Concat(ss, S) \in [1..N -> T] /\ DOMAIN Concat(ss, S) = 1..N
  BY <1>1, <1>4, <1>5
<1>7. Concat(ss, S) \in Seq(T)
  BY <1>3, <1>6, IsSeq
<1>8. \A n \in 1..N : Concat(ss, S)[n] = ss[at[n][1]][at[n][2]]
  BY <1>5
<1> QED BY <1>3, <1>4, <1>6, <1>7, <1>8 DEF P, at

-----------------------------------------------------------------------------
(* What the leads make of a plan *)

\* A plan is a sequence of groups of subtasks. Its places are pairs of a group
\* and a place in that group; All are the subtasks at these places, and Once
\* says that no subtask is at two of them.
Subtask    == Nat \X Nat
Plan       == Seq(Seq(Subtask))
Places(gs) == Positions(gs, DOMAIN gs)
All(gs)    == {gs[p[1]][p[2]] : p \in Places(gs)}
Once(gs)   == \A p, q \in Places(gs) : gs[p[1]][p[2]] = gs[q[1]][q[2]] => p = q

\* The places of a plan are those of its groups.
LEMMA PlaceFacts ==
    ASSUME NEW gs \in Plan
    PROVE  /\ Len(gs) \in Nat /\ DOMAIN gs = 1..Len(gs)
           /\ \A j \in DOMAIN gs : gs[j] \in Seq(Subtask)
           /\ \A p \in Places(gs) : p = <<p[1], p[2]>> /\ p[1] \in DOMAIN gs /\ p[2] \in DOMAIN gs[p[1]]
           /\ \A j \in DOMAIN gs : \A k \in DOMAIN gs[j] : <<j, k>> \in Places(gs)
           /\ \A S \in SUBSET (DOMAIN gs) :
                 /\ S \in SUBSET Int /\ IsFiniteSet(S)
                 /\ \A p : p \in Positions(gs, S) <=> p \in Places(gs) /\ p[1] \in S
<1>1. Len(gs) \in Nat /\ DOMAIN gs = 1..Len(gs) /\ \A j \in DOMAIN gs : gs[j] \in Seq(Subtask)
  BY SMT DEF Plan
<1>2. \A S \in SUBSET (DOMAIN gs) : S \in SUBSET Int /\ IsFiniteSet(S)
  <2>1. DOMAIN gs \subseteq Int /\ IsFiniteSet(DOMAIN gs)
    BY <1>1, FS_Interval, SMT
  <2> QED BY <2>1, FS_Subset
<1>3. /\ \A p \in Places(gs) : p = <<p[1], p[2]>> /\ p[1] \in DOMAIN gs /\ p[2] \in DOMAIN gs[p[1]]
      /\ \A j \in DOMAIN gs : \A k \in DOMAIN gs[j] : <<j, k>> \in Places(gs)
  BY <1>1, <1>2, PositionFacts DEF Places
<1>4. ASSUME NEW S \in SUBSET (DOMAIN gs), NEW p
      PROVE  p \in Positions(gs, S) <=> p \in Places(gs) /\ p[1] \in S
  <2>1. /\ \A q \in Positions(gs, S) : q = <<q[1], q[2]>> /\ q[1] \in S /\ q[2] \in DOMAIN gs[q[1]]
        /\ \A j \in S : \A k \in DOMAIN gs[j] : <<j, k>> \in Positions(gs, S)
    BY <1>1, <1>2, PositionFacts
  <2> QED BY <1>3, <2>1, ZenonT(30)
<1> QED BY <1>1, <1>2, <1>3, <1>4

\* Merging loses no subtask and gives none to two workers.
LEMMA CapFacts ==
    ASSUME NEW gs \in Plan, NEW max \in Nat \ {0}
    PROVE  /\ CapGroups(gs, max) \in Plan
           /\ Len(CapGroups(gs, max)) <= max /\ Len(CapGroups(gs, max)) <= Len(gs)
           /\ gs # <<>> => CapGroups(gs, max) # <<>>
           /\ All(CapGroups(gs, max)) = All(gs)
           /\ Once(gs) => Once(CapGroups(gs, max))
<1> DEFINE Share(j) == {j} \cup {m \in (max + 1)..Len(gs) : (m - max - 1) % max = j - 1}
           cg == CapGroups(gs, max)
<1>1. Len(gs) \in Nat /\ DOMAIN gs = 1..Len(gs) /\ \A j \in DOMAIN gs : gs[j] \in Seq(Subtask)
  BY PlaceFacts
<1>2. CASE Len(gs) <= max
  BY <1>1, <1>2, SMT DEF CapGroups
<1>3. CASE ~(Len(gs) <= max)
  <2>1. cg = [j \in 1..max |-> Concat(gs, Share(j))]
    BY <1>3 DEF CapGroups
  <2>2. \A j \in 1..max : Share(j) \in SUBSET (DOMAIN gs)
    BY <1>1, <1>3, SMT
  <2>3. ASSUME NEW m \in DOMAIN gs
        PROVE  \E j \in 1..max : m \in Share(j)
    <3>1. CASE m <= max
      BY <1>1, <3>1, SMT
    <3>2. CASE ~(m <= max)
      <4>1. m \in (max + 1)..Len(gs) /\ ((m - max - 1) % max) + 1 \in 1..max
        BY <1>1, <3>2, SMT
      <4>2. m \in Share(((m - max - 1) % max) + 1)
        BY <4>1, SMT
      <4> QED BY <4>1, <4>2
    <3> QED BY <3>1, <3>2
  <2>4. ASSUME NEW j \in 1..max, NEW k \in 1..max, NEW m \in Share(j), m \in Share(k)
        PROVE  j = k
    BY <1>1, <2>4, SMT
  <2> HIDE DEF Share
  <2>5. ASSUME NEW j \in 1..max
        PROVE  /\ cg[j] = Concat(gs, Share(j)) /\ cg[j] \in Seq(Subtask)
               /\ \A n \in DOMAIN cg[j] :
                     /\ From(gs, Share(j))[n] \in Places(gs) /\ From(gs, Share(j))[n][1] \in Share(j)
                     /\ cg[j][n] = gs[From(gs, Share(j))[n][1]][From(gs, Share(j))[n][2]]
               /\ \A p \in Places(gs) : p[1] \in Share(j) =>
                     \E n \in DOMAIN cg[j] : From(gs, Share(j))[n] = p
               /\ \A m, n \in DOMAIN cg[j] : From(gs, Share(j))[m] = From(gs, Share(j))[n] => m = n
    <3>1. /\ Share(j) \in SUBSET Int /\ IsFiniteSet(Share(j))
          /\ \A i \in Share(j) : gs[i] \in Seq(Subtask)
          /\ \A p : p \in Positions(gs, Share(j)) <=> p \in Places(gs) /\ p[1] \in Share(j)
      BY <1>1, <2>2, PlaceFacts
    <3>2. cg[j] = Concat(gs, Share(j))
      BY <2>1
    <3> HIDE DEF cg
    <3>3. /\ Concat(gs, Share(j)) \in Seq(Subtask)
          /\ \A n \in DOMAIN Concat(gs, Share(j)) :
                /\ From(gs, Share(j))[n] \in Positions(gs, Share(j))
                /\ Concat(gs, Share(j))[n] = gs[From(gs, Share(j))[n][1]][From(gs, Share(j))[n][2]]
          /\ \A p \in Positions(gs, Share(j)) : \E n \in DOMAIN Concat(gs, Share(j)) : From(gs, Share(j))[n] = p
          /\ \A m, n \in DOMAIN Concat(gs, Share(j)) : From(gs, Share(j))[m] = From(gs, Share(j))[n] => m = n
      BY <3>1, ConcatFacts, SMT
    <3> QED BY <3>1, <3>2, <3>3
  <2>6. cg \in Plan /\ Len(cg) = max /\ DOMAIN cg = 1..max
    <3>1. cg \in [1..max -> Seq(Subtask)]
      BY <2>1, <2>5
    <3> HIDE DEF cg
    <3> QED BY <3>1, SMT DEF Plan
  <2> HIDE DEF cg
  <2>7. All(cg) \subseteq All(gs)
    <3> SUFFICES ASSUME NEW p \in Places(cg)
                 PROVE  cg[p[1]][p[2]] \in All(gs)
      BY DEF All
    <3>1. p[1] \in 1..max /\ p[2] \in DOMAIN cg[p[1]]
      BY <2>6, PlaceFacts
    <3> DEFINE a == From(gs, Share(p[1]))[p[2]]
    <3>2. a \in Places(gs) /\ cg[p[1]][p[2]] = gs[a[1]][a[2]]
      BY <2>5, <3>1, ZenonT(30)
    <3> QED BY <3>2 DEF All
  <2>8. All(gs) \subseteq All(cg)
    <3> SUFFICES ASSUME NEW q \in Places(gs)
                 PROVE  gs[q[1]][q[2]] \in All(cg)
      BY DEF All
    <3>1. PICK j \in 1..max : q[1] \in Share(j)
      BY <2>3, PlaceFacts
    <3>2. PICK n \in DOMAIN cg[j] : From(gs, Share(j))[n] = q
      BY <2>5, <3>1
    <3>3. cg[j][n] = gs[q[1]][q[2]]
      BY <2>5, <3>2
    <3>4. <<j, n>> \in Places(cg) /\ <<j, n>>[1] = j /\ <<j, n>>[2] = n
      BY <2>6, PlaceFacts
    <3> QED BY <3>3, <3>4 DEF All
  <2>9. ASSUME Once(gs), NEW p \in Places(cg), NEW q \in Places(cg), cg[p[1]][p[2]] = cg[q[1]][q[2]]
        PROVE  p = q
    <3>1. /\ p[1] \in 1..max /\ p[2] \in DOMAIN cg[p[1]] /\ p = <<p[1], p[2]>>
          /\ q[1] \in 1..max /\ q[2] \in DOMAIN cg[q[1]] /\ q = <<q[1], q[2]>>
      BY <2>6, PlaceFacts
    <3> DEFINE a == From(gs, Share(p[1]))[p[2]]
               b == From(gs, Share(q[1]))[q[2]]
    <3>2. /\ a \in Places(gs) /\ a[1] \in Share(p[1]) /\ cg[p[1]][p[2]] = gs[a[1]][a[2]]
          /\ b \in Places(gs) /\ b[1] \in Share(q[1]) /\ cg[q[1]][q[2]] = gs[b[1]][b[2]]
      BY <2>5, <3>1, ZenonT(30)
    <3>3. a = b
      BY <2>9, <3>2 DEF Once
    <3>4. p[1] = q[1]
      BY <2>4, <3>1, <3>2, <3>3
    <3>5. From(gs, Share(p[1]))[p[2]] = From(gs, Share(p[1]))[q[2]] /\ q[2] \in DOMAIN cg[p[1]]
      BY <3>1, <3>3, <3>4
    <3>6. p[2] = q[2]
      BY <2>5, <3>1, <3>5, SMT
    <3> QED BY <3>1, <3>4, <3>6
  <2>10. max <= Len(gs) /\ cg # <<>>
    BY <1>1, <1>3, <2>6, SMT
  <2>11. Once(gs) => Once(cg)
    BY <2>9 DEF Once
  <2>12. max <= max
    BY SMT
  <2> QED BY <2>6, <2>7, <2>8, <2>10, <2>11, <2>12 DEF cg
<1> QED BY <1>2, <1>3

\* The usable parts, each with all of its items.
LEMMA UsableFacts ==
    ASSUME NEW N \in Nat, NEW parts \in [1..N -> Int], NEW from \in {0, 1}
    PROVE  /\ Usable(parts, from) \in Plan /\ Len(Usable(parts, from)) <= N
           /\ Once(Usable(parts, from))
           /\ All(Usable(parts, from)) =
                 {t \in Subtask : t[1] \in 1..N /\ parts[t[1]] >= from /\ t[2] \in 1..parts[t[1]]}
           /\ Usable(parts, from) = <<>> <=> \A i \in 1..N : ~(parts[i] >= from)
<1> DEFINE U == {i \in 1..N : parts[i] >= from}
           S == U \X {1}
           C == Cardinality(S)
           ok == InOrder(S)
           us == Usable(parts, from)
<1>1. us = [j \in DOMAIN ok |-> Items(ok[j][1], parts[ok[j][1]])]
  BY DEF Usable
<1>2. \A i \in U : i \in 1..N /\ parts[i] >= from /\ parts[i] \in Nat /\ i \in Nat
  BY SMT
<1>3. \A i \in 1..N : parts[i] >= from => i \in U
  OBVIOUS
<1> HIDE DEF U
<1>4. S \in SUBSET Pairs /\ S \in SUBSET ((1..N) \X {1})
  BY <1>2, SMT DEF Pairs
<1>5. IsFiniteSet(S) /\ C <= N
  <2>1. IsFiniteSet(1..N) /\ Cardinality(1..N) = N
    BY FS_Interval, SMT
  <2>2. IsFiniteSet({1}) /\ Cardinality({1}) = 1
    BY FS_Singleton
  <2>3. /\ IsFiniteSet((1..N) \X {1})
        /\ Cardinality((1..N) \X {1}) = Cardinality(1..N) * Cardinality({1})
    BY <2>1, <2>2, FS_Product
  <2>4. IsFiniteSet(S) /\ C <= Cardinality((1..N) \X {1})
    BY <1>4, <2>3, FS_Subset
  <2> HIDE DEF C, S
  <2> QED BY <2>1, <2>2, <2>3, <2>4, SMTT(20)
<1>6. \A p \in S : p = <<p[1], 1>> /\ p[1] \in U
  BY SMT
<1>7. \A i \in U : <<i, 1>> \in S /\ <<i, 1>>[1] = i
  BY SMT
<1> HIDE DEF S
<1>8. /\ C \in Nat /\ ok \in Seq(S) /\ DOMAIN ok = 1..C
      /\ \A p \in S : \E n \in 1..C : ok[n] = p
      /\ \A m, n \in 1..C : ok[m] = ok[n] => m = n
  BY <1>4, <1>5, InOrderFacts
<1> HIDE DEF C, ok, us
<1>9. \A j \in 1..C : ok[j] \in S
  BY <1>8, SMT
<1>10. \A j \in 1..C : ok[j][1] \in U /\ us[j] = Items(ok[j][1], parts[ok[j][1]])
  BY <1>1, <1>6, <1>8, <1>9
<1>11. ASSUME NEW j \in 1..C
       PROVE  /\ us[j] \in Seq(Subtask) /\ DOMAIN us[j] = 1..parts[ok[j][1]]
              /\ \A k \in DOMAIN us[j] : us[j][k] = <<ok[j][1], k>>
  <2>1. ok[j][1] \in Nat /\ parts[ok[j][1]] \in Nat
    BY <1>2, <1>10
  <2>2. us[j] = [k \in 1..parts[ok[j][1]] |-> <<ok[j][1], k>>]
    BY <1>10 DEF Items
  <2>3. \A k \in 1..parts[ok[j][1]] : <<ok[j][1], k>> \in Subtask
    BY <2>1, SMT DEF Subtask
  <2>4. us[j] \in [1..parts[ok[j][1]] -> Subtask]
    BY <2>2, <2>3
  <2>5. us[j] \in Seq(Subtask)
    BY <2>1, <2>4, IsSeq
  <2> QED BY <2>2, <2>5
<1>12. us \in Plan /\ DOMAIN us = 1..C /\ Len(us) = C
  <2>1. us = [j \in 1..C |-> us[j]]
    BY <1>1, <1>8
  <2>2. us \in [1..C -> Seq(Subtask)]
    BY <1>11, <2>1
  <2> QED BY <1>8, <2>2, IsSeq DEF Plan
<1>13. ASSUME NEW j \in 1..C, NEW k \in 1..C, ok[j][1] = ok[k][1]
       PROVE  j = k
  <2>1. ok[j] = <<ok[j][1], 1>> /\ ok[k] = <<ok[k][1], 1>>
    BY <1>6, <1>9
  <2>2. ok[j] = ok[k]
    <3>1. \A x, y : x = y => <<x, 1>> = <<y, 1>>
      OBVIOUS
    <3> QED BY <1>13, <2>1, <3>1
  <2> QED BY <1>8, <2>2
<1>14. ASSUME NEW p \in Places(us)
       PROVE  /\ p = <<p[1], p[2]>> /\ p[1] \in 1..C /\ p[2] \in 1..parts[ok[p[1]][1]]
              /\ us[p[1]][p[2]] = <<ok[p[1]][1], p[2]>>
  <2>1. p = <<p[1], p[2]>> /\ p[1] \in 1..C /\ p[2] \in DOMAIN us[p[1]]
    BY <1>12, PlaceFacts
  <2> QED BY <1>11, <2>1
<1>15. Once(us)
  <2> SUFFICES ASSUME NEW p \in Places(us), NEW q \in Places(us), us[p[1]][p[2]] = us[q[1]][q[2]]
               PROVE  p = q
    BY DEF Once
  <2>1. ok[p[1]][1] = ok[q[1]][1] /\ p[2] = q[2]
    BY <1>14, SMT
  <2>2. p[1] = q[1]
    BY <1>13, <1>14, <2>1
  <2>3. p = <<p[1], p[2]>> /\ q = <<q[1], q[2]>>
    BY <1>14
  <2> QED BY <2>1, <2>2, <2>3
<1> DEFINE items == {t \in Subtask : t[1] \in 1..N /\ parts[t[1]] >= from /\ t[2] \in 1..parts[t[1]]}
<1>16. All(us) \subseteq items
  <2> SUFFICES ASSUME NEW p \in Places(us)
               PROVE  us[p[1]][p[2]] \in items
    BY DEF All
  <2>1. ok[p[1]][1] \in U /\ p[2] \in 1..parts[ok[p[1]][1]] /\ us[p[1]][p[2]] = <<ok[p[1]][1], p[2]>>
    BY <1>10, <1>14
  <2>2. ok[p[1]][1] \in 1..N /\ parts[ok[p[1]][1]] >= from /\ ok[p[1]][1] \in Nat /\ parts[ok[p[1]][1]] \in Nat
    BY <1>2, <2>1
  <2> QED BY <2>1, <2>2, SMT DEF Subtask
<1>17. items \subseteq All(us)
  <2> SUFFICES ASSUME NEW t \in Subtask, t[1] \in 1..N, parts[t[1]] >= from, t[2] \in 1..parts[t[1]]
               PROVE  t \in All(us)
    OBVIOUS
  <2>1. t[1] \in U /\ t = <<t[1], t[2]>>
    BY <1>3, SMT DEF Subtask
  <2>2. PICK j \in 1..C : ok[j] = <<t[1], 1>>
    BY <1>7, <1>8, <2>1
  <2>3. ok[j][1] = t[1]
    BY <2>2, SMT
  <2>4. t[2] \in DOMAIN us[j] /\ us[j][t[2]] = t
    BY <1>11, <2>1, <2>3
  <2>5. <<j, t[2]>> \in Places(us) /\ <<j, t[2]>>[1] = j /\ <<j, t[2]>>[2] = t[2]
    BY <1>12, <2>4, PlaceFacts
  <2> QED BY <2>4, <2>5 DEF All
<1>18. us = <<>> <=> \A i \in 1..N : ~(parts[i] >= from)
  <2>1. us = <<>> <=> C = 0
    BY <1>8, <1>12, SMT DEF Plan
  <2>2. C = 0 <=> S = {}
    BY <1>5, FS_EmptySet DEF C
  <2>3. S = {} <=> U = {}
    BY <1>6, <1>7
  <2>4. U = {} <=> \A i \in 1..N : ~(parts[i] >= from)
    BY <1>2, <1>3
  <2> QED BY <2>1, <2>2, <2>3, <2>4
<1> QED BY <1>5, <1>12, <1>15, <1>16, <1>17, <1>18 DEF us

\* The sizes of an answer.
LEMMA ReplyFacts ==
    ASSUME NEW r \in Replies
    PROVE  /\ r.shape \in {"groups", "list", "text"}
           /\ \E n \in 0..MaxParts : r.parts \in [1..n -> Missing..MaxItems]
           /\ r.shape # "groups" => \A i \in DOMAIN r.parts : r.parts[i] \in 0..1
<1>1. CASE r \in [shape : {"groups"}, parts : Parts(Missing..MaxItems)]
  <2>1. r.shape = "groups" /\ r.parts \in Parts(Missing..MaxItems)
    BY <1>1
  <2> QED BY <2>1 DEF Parts
<1>2. CASE r \in [shape : {"list", "text"}, parts : Parts(0..1)]
  <2>1. r.shape \in {"list", "text"} /\ r.parts \in Parts(0..1)
    BY <1>2
  <2>2. PICK n \in 0..MaxParts : r.parts \in [1..n -> 0..1]
    BY <2>1 DEF Parts
  <2>3. \A x \in 0..1 : x \in Missing..MaxItems
    BY TeamsAssumption, SMT DEF Missing
  <2>4. r.parts \in [1..n -> Missing..MaxItems] /\ \A i \in DOMAIN r.parts : r.parts[i] \in 0..1
    BY <2>2, <2>3
  <2> QED BY <2>1, <2>4
<1> QED BY <1>1, <1>2 DEF Replies

\* What is parsed is what was planned, every item once.
LEMMA ParseFacts ==
    ASSUME NEW r \in Replies
    PROVE  /\ ParseGroups(r) \in Plan /\ Len(ParseGroups(r)) <= MaxParts
           /\ Once(ParseGroups(r))
           /\ ParseGroups(r) # <<>> => All(ParseGroups(r)) = PlannedIn(r)
<1> DEFINE from == IF r.shape = "groups" THEN 0 ELSE 1
           found == Usable(r.parts, from)
<1>0. from \in {0, 1}
  OBVIOUS
<1>1. PICK n \in 0..MaxParts : r.parts \in [1..n -> Missing..MaxItems]
  BY ReplyFacts
<1>2. n \in Nat /\ n <= MaxParts /\ \A x \in Missing..MaxItems : x \in Int
  BY TeamsAssumption, SMT DEF Missing
<1>3. r.parts \in [1..n -> Int] /\ DOMAIN r.parts = 1..n
  BY <1>1, <1>2
<1>4. \A i \in 1..n : r.parts[i] \in Int /\ Missing <= r.parts[i] /\ r.parts[i] <= MaxItems
  <2>1. \A x \in Missing..MaxItems : x \in Int /\ Missing <= x /\ x <= MaxItems
    BY TeamsAssumption, SMT DEF Missing
  <2> QED BY <1>1, <2>1
<1>5. /\ r.shape \in {"groups", "list", "text"}
      /\ r.shape # "groups" => \A i \in 1..n : r.parts[i] = 0 \/ r.parts[i] = 1
  <2>1. \A x \in 0..1 : x = 0 \/ x = 1
    BY SMT
  <2> QED BY <2>1, <1>3, ReplyFacts, ZenonT(30)
<1>6. /\ found \in Plan /\ Len(found) <= n /\ Once(found)
      /\ All(found) = {t \in Subtask : t[1] \in 1..n /\ r.parts[t[1]] >= from /\ t[2] \in 1..r.parts[t[1]]}
      /\ found = <<>> <=> \A i \in 1..n : ~(r.parts[i] >= from)
  BY <1>0, <1>2, <1>3, UsableFacts
<1>7. ParseGroups(r) = IF found # <<>> \/ r.shape = "text" THEN found ELSE RawText
  BY <1>5 DEF ParseGroups
<1> HIDE DEF found
<1>8. Len(found) <= MaxParts
  <2>1. Len(found) \in Nat
    BY <1>6, PlaceFacts
  <2> QED BY <2>1, <1>2, <1>6, TeamsAssumption, SMT
<1>9. CASE found # <<>>
  <2>1. PICK i \in 1..n : r.parts[i] >= from
    BY <1>6, <1>9
  <2>2. r.shape = "groups" => r.parts[i] # Missing
    BY <1>4, <2>1, SMT DEF Missing
  <2>3. r.shape = "list" => r.parts[i] # Missing /\ r.parts[i] # 0
    BY <1>4, <2>1, SMT DEF Missing
  <2>4. PlannedIn(r) = {t \in Workers \X (1..MaxItems) : t[1] \in 1..n /\ t[2] <= r.parts[t[1]]}
    BY <1>3, <1>5, <2>2, <2>3 DEF PlannedIn
  <2>5. PICK m \in Nat : Workers = 1..m /\ m >= MaxParts
    BY WorkersFacts
  <2>6. ASSUME NEW t \in Subtask, t[1] \in 1..n, r.parts[t[1]] >= from, t[2] \in 1..r.parts[t[1]]
        PROVE  t \in Workers \X (1..MaxItems) /\ t[2] <= r.parts[t[1]]
    BY <1>2, <1>4, <2>5, <2>6, TeamsAssumption, SMTT(20) DEF Subtask
  <2>7. ASSUME NEW t \in Workers \X (1..MaxItems), t[1] \in 1..n, t[2] <= r.parts[t[1]]
        PROVE  t \in Subtask /\ r.parts[t[1]] >= from /\ t[2] \in 1..r.parts[t[1]]
    BY <1>0, <1>4, <2>5, <2>7, TeamsAssumption, SMTT(20) DEF Subtask
  <2>8. All(found) = PlannedIn(r)
    BY <1>6, <2>4, <2>6, <2>7
  <2> QED BY <1>6, <1>7, <1>8, <1>9, <2>8
<1>10. CASE found = <<>> /\ r.shape = "text"
  BY <1>6, <1>7, <1>8, <1>10
<1>11. CASE found = <<>> /\ r.shape # "text"
  <2>1. \A i \in 1..n : ~(r.parts[i] >= from)
    BY <1>6, <1>11
  <2>2. ASSUME NEW i \in 1..n
        PROVE  r.parts[i] = Missing \/ (r.shape = "list" /\ r.parts[i] = 0)
    <3>1. CASE r.shape = "groups"
      BY <1>4, <2>1, <3>1, SMTT(20) DEF Missing
    <3>2. CASE r.shape = "list"
      <4>1. r.parts[i] = 0 \/ r.parts[i] = 1
        BY <1>5, <3>2
      <4> QED BY <2>1, <3>2, <4>1, SMT
    <3> QED BY <1>5, <1>11, <3>1, <3>2
  <2>3. PlannedIn(r) = {<<0, 1>>}
    BY <1>3, <1>11, <2>2 DEF PlannedIn
  <2>4. ParseGroups(r) = <<<<<<0, 1>>>>>>
    BY <1>7, <1>11 DEF RawText
  <2>5. <<<<<<0, 1>>>>>> \in Plan /\ Len(<<<<<<0, 1>>>>>>) = 1 /\ 1 <= MaxParts
    BY TeamsAssumption, SMT DEF Plan, Subtask
  <2>6. ASSUME NEW p \in Places(ParseGroups(r))
        PROVE  p = <<1, 1>> /\ ParseGroups(r)[p[1]][p[2]] = <<0, 1>>
    <3>1. p = <<p[1], p[2]>> /\ p[1] \in DOMAIN ParseGroups(r) /\ p[2] \in DOMAIN ParseGroups(r)[p[1]]
      BY <2>4, <2>5, PlaceFacts
    <3>2. p[1] = 1
      BY <2>4, <3>1, SMT
    <3>3. p[2] = 1
      BY <2>4, <3>1, <3>2, SMTT(20)
    <3> QED BY <2>4, <3>1, <3>2, <3>3, SMT
  <2>7. <<1, 1>> \in Places(ParseGroups(r))
    <3>1. 1 \in DOMAIN ParseGroups(r) /\ 1 \in DOMAIN ParseGroups(r)[1]
      BY <2>4, SMT
    <3> QED BY <2>4, <2>5, <3>1, PlaceFacts
  <2>8. All(ParseGroups(r)) = {<<0, 1>>}
    BY <2>6, <2>7 DEF All
  <2>9. Once(ParseGroups(r))
    BY <2>6 DEF Once
  <2> QED BY <2>3, <2>4, <2>5, <2>8, <2>9
<1> QED BY <1>9, <1>10, <1>11

\* Subtasks dealt out in turn: every one goes to one worker.
LEMMA TurnFacts ==
    ASSUME limit \in Nat, NEW n \in Nat, NEW gs, gs = [j \in 1..limit |-> InOrder(Turn(j, n) \X {1})]
    PROVE  /\ gs \in Plan /\ Len(gs) = limit /\ Once(gs)
           /\ limit > 0 => All(gs) = (1..n) \X {1}
           /\ \A j \in DOMAIN gs : Len(gs[j]) = Cardinality(Turn(j, n))
<1> DEFINE S(j) == Turn(j, n) \X {1}
<1>1. ASSUME NEW j \in 1..limit
      PROVE  /\ IsFiniteSet(S(j)) /\ Cardinality(S(j)) = Cardinality(Turn(j, n)) /\ S(j) \in SUBSET Pairs
             /\ \A p \in S(j) : p = <<p[1], 1>> /\ p[1] \in Turn(j, n) /\ p \in Subtask
             /\ \A i \in Turn(j, n) : <<i, 1>> \in S(j)
  <2>1. Turn(j, n) \in SUBSET (1..n) /\ IsFiniteSet(1..n)
    BY FS_Interval, SMT DEF Turn
  <2>2. IsFiniteSet(Turn(j, n)) /\ Cardinality(Turn(j, n)) \in Nat
    BY <2>1, FS_Subset, FS_CardinalityType
  <2>3. IsFiniteSet({1}) /\ Cardinality({1}) = 1
    BY FS_Singleton
  <2>4. IsFiniteSet(S(j)) /\ Cardinality(S(j)) = Cardinality(Turn(j, n)) * Cardinality({1})
    BY <2>2, <2>3, FS_Product
  <2>5. Cardinality(S(j)) = Cardinality(Turn(j, n))
    BY <2>2, <2>3, <2>4, SMT
  <2>6. \A i \in Turn(j, n) : i \in Nat
    BY <2>1, SMT
  <2> QED BY <2>4, <2>5, <2>6, SMT DEF Pairs, Subtask
<1>2. ASSUME NEW j \in 1..limit
      PROVE  /\ gs[j] \in Seq(S(j)) /\ Len(gs[j]) = Cardinality(Turn(j, n))
             /\ DOMAIN gs[j] = 1..Cardinality(Turn(j, n))
             /\ \A p \in S(j) : \E k \in DOMAIN gs[j] : gs[j][k] = p
             /\ \A k, l \in DOMAIN gs[j] : gs[j][k] = gs[j][l] => k = l
  <2> HIDE DEF S
  <2>1. gs[j] = InOrder(S(j))
    BY DEF S
  <2>2. S(j) \in SUBSET Pairs /\ IsFiniteSet(S(j)) /\ Cardinality(S(j)) = Cardinality(Turn(j, n))
    BY <1>1
  <2>3. /\ InOrder(S(j)) \in Seq(S(j)) /\ Len(InOrder(S(j))) = Cardinality(S(j))
        /\ DOMAIN InOrder(S(j)) = 1..Cardinality(S(j))
        /\ \A p \in S(j) : \E k \in 1..Cardinality(S(j)) : InOrder(S(j))[k] = p
        /\ \A k, l \in 1..Cardinality(S(j)) : InOrder(S(j))[k] = InOrder(S(j))[l] => k = l
    BY <2>2, InOrderFacts
  <2>4. gs[j] \in Seq(S(j)) /\ Len(gs[j]) = Cardinality(Turn(j, n)) /\ DOMAIN gs[j] = 1..Cardinality(Turn(j, n))
    BY <2>1, <2>2, <2>3
  <2>5. \A p \in S(j) : \E k \in DOMAIN gs[j] : gs[j][k] = p
    BY <2>1, <2>3
  <2>6. ASSUME NEW k \in DOMAIN gs[j], NEW l \in DOMAIN gs[j], gs[j][k] = gs[j][l]
        PROVE  k = l
    <3>1. InOrder(S(j))[k] = InOrder(S(j))[l] /\ k \in 1..Cardinality(S(j)) /\ l \in 1..Cardinality(S(j))
      BY <2>1, <2>3, <2>6
    <3> QED BY <2>3, <3>1
  <2> QED BY <2>4, <2>5, <2>6
<1>3. \A j \in 1..limit : gs[j] \in Seq(Subtask) /\ \A k \in DOMAIN gs[j] : gs[j][k] \in S(j)
  <2> HIDE DEF S
  <2> SUFFICES ASSUME NEW j \in 1..limit
               PROVE  gs[j] \in Seq(Subtask) /\ \A k \in DOMAIN gs[j] : gs[j][k] \in S(j)
    OBVIOUS
  <2>1. gs[j] \in Seq(S(j)) /\ \A p \in S(j) : p \in Subtask
    BY <1>1, <1>2
  <2> QED BY <2>1, SMT
<1>4. gs \in Plan /\ Len(gs) = limit /\ DOMAIN gs = 1..limit
  <2>1. gs \in [1..limit -> Seq(Subtask)]
    BY <1>3
  <2> QED BY <2>1, SMT DEF Plan
<1>5. ASSUME NEW p \in Places(gs)
      PROVE  /\ p = <<p[1], p[2]>> /\ p[1] \in 1..limit /\ p[2] \in DOMAIN gs[p[1]]
             /\ gs[p[1]][p[2]] \in S(p[1])
  BY <1>3, <1>4, PlaceFacts
<1>6. Once(gs)
  <2> SUFFICES ASSUME NEW p \in Places(gs), NEW q \in Places(gs), gs[p[1]][p[2]] = gs[q[1]][q[2]]
               PROVE  p = q
    BY DEF Once
  <2>1. gs[p[1]][p[2]][1] \in Turn(p[1], n) /\ gs[p[1]][p[2]][1] \in Turn(q[1], n)
    BY <1>1, <1>5
  <2>2. \A j, k \in 1..limit : \A i : i \in Turn(j, n) /\ i \in Turn(k, n) => j = k
    BY SMT DEF Turn
  <2>3. p[1] = q[1]
    BY <1>5, <2>1, <2>2
  <2>4. q[2] \in DOMAIN gs[p[1]] /\ gs[p[1]][p[2]] = gs[p[1]][q[2]]
    BY <1>5, <2>3
  <2>5. p[2] = q[2]
    <3>1. p[1] \in 1..limit /\ p[2] \in DOMAIN gs[p[1]]
      BY <1>5
    <3>2. \A k, l \in DOMAIN gs[p[1]] : gs[p[1]][k] = gs[p[1]][l] => k = l
      BY <1>2, <3>1
    <3> QED BY <2>4, <3>1, <3>2
  <2>6. p = <<p[1], p[2]>> /\ q = <<q[1], q[2]>>
    BY <1>5
  <2> QED BY <2>3, <2>5, <2>6
<1>7. ASSUME limit > 0, NEW i \in 1..n
      PROVE  <<i, 1>> \in All(gs)
  <2>1. ((i - 1) % limit) + 1 \in 1..limit
    BY <1>7, SMT
  <2> DEFINE j == ((i - 1) % limit) + 1
  <2>2. i \in Turn(j, n)
    BY <2>1, <1>7, SMT DEF Turn
  <2> HIDE DEF j
  <2>3. PICK k \in DOMAIN gs[j] : gs[j][k] = <<i, 1>>
    BY <1>1, <1>2, <2>1, <2>2 DEF j
  <2>4. <<j, k>> \in Places(gs) /\ <<j, k>>[1] = j /\ <<j, k>>[2] = k
    BY <1>4, <2>1, <2>3, PlaceFacts DEF j
  <2> QED BY <2>3, <2>4 DEF All
<1>8. All(gs) \subseteq (1..n) \X {1}
  <2> SUFFICES ASSUME NEW p \in Places(gs)
               PROVE  gs[p[1]][p[2]] \in (1..n) \X {1}
    BY DEF All
  <2> DEFINE x == gs[p[1]][p[2]]
  <2>1. p[1] \in 1..limit /\ x \in S(p[1])
    BY <1>5
  <2> HIDE DEF x, S
  <2>2. x = <<x[1], 1>> /\ x[1] \in Turn(p[1], n)
    BY <1>1, <2>1
  <2>3. x[1] \in 1..n
    BY <2>2 DEF Turn
  <2>4. x \in (1..n) \X {1}
    BY <2>2, <2>3, SMT
  <2> QED BY <2>4 DEF x
<1>9. limit > 0 => (1..n) \X {1} \subseteq All(gs)
  <2>1. \A t \in (1..n) \X {1} : t[1] \in 1..n /\ t = <<t[1], 1>>
    BY SMT
  <2> QED BY <1>7, <2>1
<1> QED BY <1>2, <1>4, <1>6, <1>8, <1>9

-----------------------------------------------------------------------------
(* A plan is dealt out *)

\* The leads that split a plan among their workers; a plan that is made and has
\* not failed; all results of a plan are in.
Splits  == style \in {"orchestrator", "manager"}
Goes    == stage # "plan" /\ (stage = "done" => outcome = "ok")
Settled == stage \in {"synthesize", "store", "kill"} \/ outcome = "ok"

\* The types of the plan. Workers are spawned for its groups one by one, and
\* the results are gathered when there is one for each.
PlanTypes ==
    /\ style \in Styles /\ limit \in 0..MaxWorkers /\ reply \in Replies \cup {None}
    /\ groups \in Plan /\ DOMAIN groups \subseteq Workers
    /\ crew <= Len(groups)
    /\ stage = "plan" => groups = <<>>
    /\ stage = "spawn" => crew < Len(groups)
    /\ stage = "run" => crew = Len(groups)

\* A plan as it is dealt out.
Dealt(gs, r) ==
    /\ style = "orchestrator" =>
          limit > 0 /\ Len(gs) <= limit /\ Once(gs) /\ All(gs) = PlannedIn(r)
    /\ style = "manager" =>
          /\ Len(gs) = limit /\ Once(gs)
          /\ limit > 0 => All(gs) = Planned
          /\ \A j \in DOMAIN gs : Len(gs[j]) = Cardinality(Turn(j, Subtasks))

\* A plan is dealt out from the moment that it is made.
DealInv == Goes => Dealt(groups, reply)

\* The results that are in. The orchestrator has them in the order of a group,
\* and one is missing while its worker is asked. The manager takes the subtasks
\* in turn, so each worker has those of its turns up to now.
ResultInv ==
    /\ Splits /\ stage = "plan" => \A g \in Workers : ans[g] = "new" /\ results[g] = <<>>
    /\ style = "orchestrator" =>
         \A g \in DOMAIN groups :
            /\ Len(results[g]) <= Len(groups[g])
            /\ ans[g] \in {"sent", "ok", "error"} => Len(results[g]) < Len(groups[g])
            /\ ans[g] = "over" \/ Settled => Len(results[g]) = Len(groups[g])
    /\ style = "manager" =>
         /\ limit = 0 => Taken = 0
         /\ \A g \in DOMAIN groups : Len(results[g]) = Cardinality(Turn(g, Taken))
         /\ Settled => Taken = Subtasks

\* The most workers that are asked for, and the subtasks of a manager, are
\* natural numbers.
LEMMA LimitFacts ==
    ASSUME PlanTypes
    PROVE  limit \in Nat /\ limit <= MaxWorkers /\ Subtasks \in Nat
<1>1. limit \in Nat /\ limit <= MaxWorkers
  BY TeamsAssumption, SMT DEF PlanTypes
<1>2. CASE reply = None
  BY <1>1, <1>2 DEF Subtasks
<1>3. CASE reply # None
  <2>1. PICK n \in 0..MaxParts : reply.parts \in [1..n -> Missing..MaxItems]
    BY <1>3, ReplyFacts DEF PlanTypes
  <2>2. Len(reply.parts) = n /\ n \in Nat
    BY <2>1, TeamsAssumption, SMT
  <2> QED BY <1>1, <1>3, <2>2 DEF Subtasks
<1> QED BY <1>1, <1>2, <1>3

\* The answers that the leads take for a plan.
LEMMA NoneParsesToNothing == ParseGroups(None) = <<>>
<1>1. DOMAIN None.parts = 1..0 /\ None.shape = "none" /\ None.parts \in [1..0 -> Int]
  BY SMT DEF None
<1>2. \A i \in 1..0 : FALSE
  BY SMT
<1>3. Usable(None.parts, 1) = <<>>
  <2>1. 0 \in Nat /\ 1 \in {0, 1}
    BY SMT
  <2> QED BY <1>1, <1>2, <2>1, UsableFacts
<1> QED BY <1>1, <1>3 DEF ParseGroups

\* A sequence of subtasks that is cut off or made of single ones.
LEMMA SinglesFacts ==
    ASSUME NEW n \in Nat
    PROVE  Singles(n) \in Plan /\ Len(Singles(n)) = n
<1>1. \A i \in 1..n : <<<<i, 1>>>> \in Seq(Subtask)
  BY SMT DEF Subtask
<1>2. Singles(n) \in [1..n -> Seq(Subtask)]
  BY <1>1 DEF Singles
<1> QED BY <1>2, IsSeq DEF Plan

\* A plan is taken up.
Adopted ==
    /\ groups' \in Plan /\ DOMAIN groups' \subseteq Workers
    /\ stage' = (IF groups' = <<>> THEN "run" ELSE "spawn") /\ outcome' = outcome

\* A plan that is taken up has at most as many groups as there are workers.
LEMMA AdoptFacts ==
    ASSUME NEW gs \in Plan, Len(gs) <= MaxParts \/ Len(gs) <= MaxWorkers, Adopt(gs)
    PROVE  groups' = gs /\ Adopted
<1>1. PICK m \in Nat : Workers = 1..m /\ m >= MaxParts /\ m >= MaxWorkers
  BY WorkersFacts
<1>2. DOMAIN gs = 1..Len(gs) /\ Len(gs) \in Nat
  BY PlaceFacts
<1>3. DOMAIN gs \subseteq Workers
  BY <1>1, <1>2, TeamsAssumption, SMT
<1> QED BY <1>3 DEF Adopt, Adopted

\* Every lead deals out what was planned.
LEMMA PlanDeals ==
    ASSUME PlanTypes, PlanStep
    PROVE  /\ style' = style /\ limit' = limit /\ reply' \in Replies \cup {None}
           /\ \/ stage' = "done" /\ outcome' = "error" /\ groups' = groups
              \/ /\ Adopted
                 /\ Dealt(groups', reply') /\ (style = "manager" => reply' = reply)
<1>0. reply \in Replies \cup {None} /\ limit \in Nat /\ limit <= MaxWorkers /\ Subtasks \in Nat
  BY LimitFacts DEF PlanTypes
<1>1. CASE Decompose
  <2>0. style = "orchestrator" /\ style' = style /\ limit' = limit
    BY <1>1 DEF Decompose
  <2>1. CASE ParseGroups(reply) = <<>> /\ LeadRaises /\ UNCHANGED <<groups, reply>>
    BY <1>0, <2>0, <2>1 DEF LeadRaises
  <2>2. ASSUME NEW r \in IF ParseGroups(reply) # <<>> THEN {reply} ELSE Replies, reply' = r,
               IF ParseGroups(r) = <<>> \/ limit = 0
               THEN LeadRaises /\ UNCHANGED groups
               ELSE Adopt(CapGroups(ParseGroups(r), limit))
        PROVE  /\ reply' \in Replies
               /\ \/ stage' = "done" /\ outcome' = "error" /\ groups' = groups
                  \/ /\ Adopted
                     /\ Dealt(groups', reply')
    <3>1. r \in Replies
      BY <1>0, <2>2, NoneParsesToNothing
    <3>2. CASE LeadRaises /\ UNCHANGED groups
      BY <2>2, <3>1, <3>2 DEF LeadRaises
    <3>3. CASE ParseGroups(r) # <<>> /\ limit # 0 /\ Adopt(CapGroups(ParseGroups(r), limit))
      <4>1. /\ ParseGroups(r) \in Plan /\ Once(ParseGroups(r)) /\ All(ParseGroups(r)) = PlannedIn(r)
        BY <3>1, <3>3, ParseFacts
      <4>2. limit \in Nat \ {0} /\ limit > 0
        BY <1>0, <3>3, SMT
      <4> DEFINE gs == CapGroups(ParseGroups(r), limit)
      <4>3. gs \in Plan /\ Len(gs) <= limit /\ Once(gs) /\ All(gs) = PlannedIn(r)
        BY <4>1, <4>2, CapFacts
      <4> HIDE DEF gs
      <4>4. Len(gs) <= MaxWorkers
        <5>1. Len(gs) \in Nat
          BY <4>3, PlaceFacts
        <5> QED BY <1>0, <4>3, <5>1, TeamsAssumption, SMTT(20)
      <4>5. Adopt(gs)
        BY <3>3 DEF gs
      <4>6. groups' = gs /\ Adopted
        BY <4>3, <4>4, <4>5, AdoptFacts
      <4>7. Dealt(gs, r)
        BY <2>0, <4>2, <4>3 DEF Dealt
      <4> QED BY <2>2, <3>1, <4>6, <4>7
    <3> QED BY <2>2, <3>2, <3>3
  <2> QED BY <1>1, <2>0, <2>1, <2>2 DEF Decompose
<1>2. CASE ToolDecompose
  <2>0. style = "tool" /\ style' = style /\ limit' = limit
    BY <1>2 DEF ToolDecompose
  <2>1. CASE LeadRaises /\ UNCHANGED groups /\ reply' \in Replies \cup {None}
    BY <2>0, <2>1 DEF LeadRaises
  <2>2. ASSUME NEW r \in Replies, reply' = r,
               Adopt(Singles(IF Len(r.parts) < limit THEN Len(r.parts) ELSE limit))
        PROVE  Adopted
    <3>1. PICK n \in 0..MaxParts : r.parts \in [1..n -> Missing..MaxItems]
      BY ReplyFacts
    <3>2. Len(r.parts) = n /\ n \in Nat
      BY <3>1, TeamsAssumption, SMT
    <3> DEFINE k == IF n < limit THEN n ELSE limit
    <3>3. k \in Nat /\ k <= MaxWorkers
      BY <1>0, <3>2, TeamsAssumption, SMT
    <3>4. Adopt(Singles(k))
      BY <2>2, <3>2
    <3> HIDE DEF k
    <3> QED BY <3>3, <3>4, SinglesFacts, AdoptFacts
  <2>3. style # "orchestrator" /\ style # "manager"
    BY <2>0
  <2> QED BY <1>0, <1>2, <2>0, <2>1, <2>2, <2>3 DEF ToolDecompose, Dealt
<1>3. CASE ResearchDecompose
  <2>0. style = "research" /\ style' = style /\ limit' = limit
    BY <1>3 DEF ResearchDecompose
  <2>1. CASE LeadRaises /\ UNCHANGED groups /\ reply' \in Replies \cup {None}
    BY <2>0, <2>1 DEF LeadRaises
  <2>2. ASSUME NEW r \in Replies, reply' = r, r.shape = "list", Adopt(Singles(Len(r.parts)))
        PROVE  Adopted
    <3>1. PICK n \in 0..MaxParts : r.parts \in [1..n -> Missing..MaxItems]
      BY ReplyFacts
    <3>2. Len(r.parts) = n /\ n \in Nat /\ n <= MaxParts
      BY <3>1, TeamsAssumption, SMT
    <3> QED BY <2>2, <3>2, SinglesFacts, AdoptFacts
  <2>3. ASSUME NEW r \in Replies, reply' = r, r.shape = "text",
               Adopt(IF Len(Usable(r.parts, 1)) <= NUM_WORKERS THEN Usable(r.parts, 1)
                     ELSE SubSeq(Usable(r.parts, 1), 1, NUM_WORKERS))
        PROVE  Adopted
    <3>1. PICK n \in 0..MaxParts : r.parts \in [1..n -> Missing..MaxItems]
      BY ReplyFacts
    <3>2. n \in Nat /\ n <= MaxParts /\ \A x \in Missing..MaxItems : x \in Int
      BY TeamsAssumption, SMT DEF Missing
    <3>3. r.parts \in [1..n -> Int] /\ 1 \in {0, 1}
      BY <3>1, <3>2
    <3> DEFINE lines == Usable(r.parts, 1)
               gs == IF Len(lines) <= NUM_WORKERS THEN lines ELSE SubSeq(lines, 1, NUM_WORKERS)
    <3>4. lines \in Plan /\ Len(lines) <= n
      BY <3>2, <3>3, UsableFacts
    <3>5. Adopt(gs)
      BY <2>3
    <3> HIDE DEF lines
    <3>6. gs \in Plan /\ Len(gs) <= MaxParts
      BY <3>2, <3>4, TeamsAssumption, SMTT(20) DEF Plan
    <3> HIDE DEF gs
    <3> QED BY <3>5, <3>6, AdoptFacts
  <2>4. style # "orchestrator" /\ style # "manager"
    BY <2>0
  <2>5. \A r \in Replies : r.shape \in {"groups", "list", "text"}
    BY ReplyFacts
  <2>6. \/ LeadRaises /\ UNCHANGED groups /\ reply' \in Replies \cup {None}
        \/ \E r \in Replies : reply' = r /\ r.shape = "list" /\ Adopt(Singles(Len(r.parts)))
        \/ \E r \in Replies :
              /\ reply' = r /\ r.shape = "text"
              /\ Adopt(IF Len(Usable(r.parts, 1)) <= NUM_WORKERS THEN Usable(r.parts, 1)
                       ELSE SubSeq(Usable(r.parts, 1), 1, NUM_WORKERS))
    BY <1>0, <1>3, <2>5 DEF ResearchDecompose
  <2> QED BY <2>0, <2>1, <2>2, <2>3, <2>4, <2>6 DEF Dealt
<1>4. CASE ManagerPlan
  <2>0. style = "manager" /\ style' = style /\ limit' = limit /\ reply' = reply
    BY <1>4 DEF ManagerPlan, Input
  <2>1. CASE LeadRaises /\ UNCHANGED groups
    BY <1>0, <2>0, <2>1 DEF LeadRaises
  <2> DEFINE gs == [j \in 1..limit |-> InOrder(Turn(j, Subtasks) \X {1})]
  <2>2. CASE Adopt(gs)
    <3>1. /\ gs \in Plan /\ Len(gs) = limit /\ Once(gs)
          /\ limit > 0 => All(gs) = (1..Subtasks) \X {1}
          /\ \A j \in DOMAIN gs : Len(gs[j]) = Cardinality(Turn(j, Subtasks))
      BY <1>0, TurnFacts
    <3> HIDE DEF gs
    <3>2. groups' = gs /\ Adopted
      BY <1>0, <2>2, <3>1, AdoptFacts
    <3>3. Planned = (1..Subtasks) \X {1}
      BY <2>0 DEF Planned
    <3>4. Dealt(gs, reply)
      BY <2>0, <3>1, <3>3 DEF Dealt
    <3> QED BY <1>0, <2>0, <3>2, <3>4
  <2> QED BY <1>4, <2>1, <2>2 DEF ManagerPlan
<1> QED BY <1>1, <1>2, <1>3, <1>4 DEF PlanStep

-----------------------------------------------------------------------------
(* The plan and the stages *)

\* The steps after planning.
LaterStep ==
    SpawnStep \/ MoveStep \/ KillStep \/ Cancel \/ \E i \in Workers : RunStep(i) \/ WorkerStep(i)

\* The plan is not touched once it is made.
LEMMA PlanKept ==
    ASSUME LaterStep
    PROVE  style' = style /\ limit' = limit /\ reply' = reply /\ groups' = groups
<1> USE DEF Input
<1>1. CASE SpawnStep
  BY <1>1 DEF SpawnStep, OrchestratorSpawn, ToolSpawn, ResearchSpawn, ManagerSpawn
<1>2. CASE MoveStep
  BY <1>2 DEF MoveStep, GroupsDone, SubtasksDone, ResearchDone, ManagerDone, Synthesize, StoreArtifact,
              ResearchReport, ToolSynthesize
<1>3. CASE KillStep
  BY <1>3 DEF KillStep, KillWorkers, ResearchKill, ManagerKill, KillOrRaise, ToolKill
<1>4. CASE Cancel
  BY <1>4 DEF Cancel
<1>5. CASE \E i \in Workers : RunStep(i)
  BY <1>5 DEF RunStep, RunGroup, RunSubtask, ResearchRun, ManagerRun
<1>6. CASE \E i \in Workers : WorkerStep(i)
  BY <1>6 DEF WorkerStep, Worker, KernelServes, WorkerAgent, ResearchWorker, SubWorker, ExecuteTaskTimeout,
              WorkerExits, Reaped
<1> QED BY <1>1, <1>2, <1>3, <1>4, <1>5, <1>6 DEF LaterStep

\* A step after planning that is no spawn keeps the stage or leaves the first
\* three behind.
LEMMA StageFacts ==
    ASSUME TeamTypes, LaterStep
    PROVE  \/ SpawnStep /\ stage = "spawn" /\ Spawn
           \/ crew' = crew /\ (stage' \in {"plan", "spawn", "run"} => stage' = stage)
<1>1. CASE SpawnStep
  <2>1. CASE Spawn
    BY <1>1, <2>1, SpawnFacts
  <2>2. CASE UNCHANGED <<w, crew>> /\ (IF style = "tool" THEN Finally ELSE stage' = "done")
    BY <2>2 DEF Finally
  <2> QED BY <1>1, <2>1, <2>2, SpawnFacts
<1>2. CASE MoveStep
  BY <1>2, MoveFacts
<1>3. CASE KillStep
  BY <1>3, KillFacts
<1>4. CASE Cancel
  BY <1>4 DEF Cancel, Finally
<1>5. CASE \E i \in Workers : RunStep(i)
  BY <1>5, RunFacts
<1>6. CASE \E i \in Workers : WorkerStep(i)
  BY <1>6, WorkerFacts
<1> QED BY <1>1, <1>2, <1>3, <1>4, <1>5, <1>6 DEF LaterStep

\* A lead that goes on has gone on before, and it is through with the subtasks
\* only after it has found them all done.
LEMMA GoesFacts ==
    ASSUME TeamTypes, CrewInv, Splits, LaterStep
    PROVE  /\ stage' = "plan" => stage = "plan"
           /\ Goes' => Goes
           /\ Settled' => Settled \/ GroupsDone \/ ManagerDone
<1>0. style # "tool" /\ style # "research" /\ style' = style
  BY PlanKept DEF Splits
<1>1. CASE SpawnStep
  <2>1. stage = "spawn" /\ outcome # "ok"
    BY <1>1, SpawnFacts DEF CrewInv
  <2>2. \/ stage' \in {"run", "spawn"} /\ outcome' = outcome
        \/ stage' = "done" /\ outcome' = "error"
    BY <1>0, <1>1, SpawnFacts DEF Spawn
  <2> QED BY <2>1, <2>2 DEF Goes, Settled
<1>2. CASE MoveStep
  <2>1. stage \in {"run", "synthesize", "store"} /\ stage' # "plan"
    BY <1>0, <1>2, MoveFacts
  <2>2. stage = "run" => GroupsDone \/ ManagerDone
    BY <1>0, <1>2 DEF MoveStep, SubtasksDone, ResearchDone, Synthesize, StoreArtifact, ResearchReport, ToolSynthesize
  <2> QED BY <2>1, <2>2 DEF Goes, Settled
<1>3. CASE KillStep
  <2>1. stage = "kill" /\ stage' # "plan"
    BY <1>0, <1>3, KillFacts
  <2> QED BY <2>1 DEF Goes, Settled
<1>4. CASE Cancel
  <2>1. stage' = "done" /\ outcome' = "cancelled"
    BY <1>0, <1>4 DEF Cancel
  <2> QED BY <2>1 DEF Goes, Settled
<1>5. CASE \E i \in Workers : RunStep(i)
  <2>1. stage = "run" /\ (UNCHANGED <<stage, outcome>> \/ (stage' = "done" /\ outcome' = "error"))
    BY <1>5, RunFacts
  <2> QED BY <2>1 DEF Goes, Settled
<1>6. CASE \E i \in Workers : WorkerStep(i)
  <2>1. UNCHANGED <<stage, outcome>>
    BY <1>6, WorkerFacts
  <2> QED BY <2>1 DEF Goes, Settled
<1> QED BY <1>1, <1>2, <1>3, <1>4, <1>5, <1>6 DEF LaterStep

\* A worker answers a call that is awaited.
LEMMA WorkerAnswers ==
    ASSUME TeamTypes, CallInv, Splits, NEW i \in Workers, WorkerStep(i)
    PROVE  \A g \in Workers : ans'[g] = ans[g] \/ (ans[g] = "sent" /\ ans'[g] \in {"ok", "error"})
<1>0. ans \in [Workers -> CallState] /\ style # "tool"
  BY DEF TeamTypes, Splits
<1>1. ASSUME NEW status \in {"ok", "error"}, Answer(i, status)
      PROVE  \A g \in Workers : ans'[g] = ans[g] \/ (ans[g] = "sent" /\ ans'[g] \in {"ok", "error"})
  BY <1>0, <1>1 DEF Answer
<1>2. CASE KernelServes(i)
  <2>1. CASE Up(i)
    BY <1>2, <2>1 DEF KernelServes
  <2>2. CASE ~Up(i)
    <3>1. stream # <<>> /\ Head(stream) = i /\ ans' = [ans EXCEPT ![i] = "error"]
      BY <1>2, <2>2 DEF KernelServes
    <3>2. 1 \in DOMAIN stream /\ stream[1] = i
      BY <3>1, SMT DEF TeamTypes
    <3>3. ans[i] = "sent"
      BY <1>0, <3>2 DEF CallInv
    <3> QED BY <1>0, <3>1, <3>3
  <2> QED BY <2>1, <2>2
<1>3. CASE Worker(i)
  BY <1>1, <1>3 DEF Worker, WorkerAgent, ResearchWorker, SubWorker
<1>4. CASE ExecuteTaskTimeout(i)
  BY <1>0, <1>4 DEF ExecuteTaskTimeout
<1>5. CASE WorkerExits(i)
  BY <1>1, <1>5 DEF WorkerExits
<1>6. CASE Reaped(i)
  BY <1>6 DEF Reaped
<1> QED BY <1>2, <1>3, <1>4, <1>5, <1>6 DEF WorkerStep

\* The inductive invariant of the plan and its results.
PlanInv == PlanTypes /\ DealInv /\ ResultInv

\* A step keeps the types of the plan.
LEMMA PlanTypesNext ==
    ASSUME TeamTypes, CrewInv, PlanTypes, PlanStep \/ LaterStep
    PROVE  PlanTypes'
<1>0. crew \in Nat /\ groups \in Plan /\ Len(groups) \in Nat
  BY PlaceFacts DEF TeamTypes, PlanTypes
<1>1. CASE PlanStep
  <2>1. crew' = 0 /\ crew = 0 /\ stage = "plan"
    BY <1>1, PlanFacts DEF CrewInv
  <2>2. style' = style /\ limit' = limit /\ reply' \in Replies \cup {None}
    BY <1>1, PlanDeals
  <2>3. CASE stage' = "done" /\ groups' = groups
    BY <2>1, <2>2, <2>3 DEF PlanTypes
  <2>4. CASE Adopted
    <3>1. Len(groups') \in Nat
      BY <2>4, PlaceFacts DEF Adopted
    <3>2. groups' # <<>> => Len(groups') > 0
      BY <2>4, SMT DEF Adopted, Plan
    <3>3. groups' = <<>> => Len(groups') = 0
      BY SMT
    <3>4. stage' = (IF groups' = <<>> THEN "run" ELSE "spawn")
      BY <2>4 DEF Adopted
    <3>5. crew' <= Len(groups')
      BY <2>1, <3>1, SMT
    <3>6. (stage' = "spawn" => crew' < Len(groups')) /\ (stage' = "run" => crew' = Len(groups'))
      BY <2>1, <3>1, <3>2, <3>3, <3>4, SMTT(20)
    <3> QED BY <2>2, <2>4, <3>4, <3>5, <3>6 DEF PlanTypes, Adopted
  <2> QED BY <1>1, <2>3, <2>4, PlanDeals
<1>2. CASE LaterStep
  <2>1. style' = style /\ limit' = limit /\ reply' = reply /\ groups' = groups
    BY <1>2, PlanKept
  <2>2. CASE stage = "spawn" /\ Spawn
    <3>1. crew' = crew + 1 /\ crew < Len(groups) /\ stage' = (IF crew + 1 = Len(groups) THEN "run" ELSE "spawn")
      BY <2>2 DEF Spawn, PlanTypes
    <3>2. /\ crew' <= Len(groups)
          /\ stage' = "spawn" => crew' < Len(groups)
          /\ stage' = "run" => crew' = Len(groups)
      BY <1>0, <3>1, SMTT(20)
    <3> QED BY <2>1, <3>1, <3>2 DEF PlanTypes
  <2>3. CASE crew' = crew /\ (stage' \in {"plan", "spawn", "run"} => stage' = stage)
    BY <2>1, <2>3 DEF PlanTypes
  <2> QED BY <1>2, <2>2, <2>3, StageFacts
<1> QED BY <1>1, <1>2

\* A step deals the plan out or leaves it as it is.
LEMMA DealNext ==
    ASSUME TeamTypes, CrewInv, PlanTypes, DealInv, PlanStep \/ LaterStep
    PROVE  DealInv'
<1>1. CASE PlanStep
  <2>1. style' = style /\ limit' = limit
    BY <1>1, PlanDeals
  <2>2. CASE stage' = "done" /\ outcome' = "error"
    BY <2>2 DEF DealInv, Goes
  <2>3. CASE Dealt(groups', reply') /\ (style = "manager" => reply' = reply)
    BY <2>1, <2>3 DEF DealInv, Dealt, Planned, Subtasks, Turn
  <2> QED BY <1>1, <2>2, <2>3, PlanDeals
<1>2. CASE LaterStep
  <2>1. style' = style /\ limit' = limit /\ reply' = reply /\ groups' = groups
    BY <1>2, PlanKept
  <2>2. Dealt(groups, reply)' <=> Dealt(groups, reply)
    BY <2>1 DEF Dealt, Planned, Subtasks, Turn
  <2>3. CASE Splits
    BY <1>2, <2>2, <2>3, GoesFacts DEF DealInv
  <2>4. CASE ~Splits
    BY <2>1, <2>4 DEF DealInv, Dealt, Splits
  <2> QED BY <2>3, <2>4
<1> QED BY <1>1, <1>2

-----------------------------------------------------------------------------
(* Results *)

\* A result adds a place, and it adds one to its worker's turn.
LEMMA TakenFacts ==
    ASSUME TeamTypes
    PROVE  /\ Taken \in Nat
           /\ (\A g \in Workers : results[g] = <<>>) => Taken = 0
           /\ \A g \in Workers : \A x \in {"ok", "error"} :
                 results' = [results EXCEPT ![g] = Append(results[g], x)] => Taken' = Taken + 1
<1> DEFINE P == Positions(results, Workers)
<1>1. PICK m \in Nat : Workers = 1..m
  BY WorkersFacts
<1>2. Workers \in SUBSET Int /\ IsFiniteSet(Workers)
  BY <1>1, FS_Interval, SMTT(20)
<1>3. \A g \in Workers : results[g] \in Seq({"ok", "error"})
  BY DEF TeamTypes
<1>4. /\ IsFiniteSet(P)
      /\ \A p \in P : p = <<p[1], p[2]>> /\ p[1] \in Workers /\ p[2] \in DOMAIN results[p[1]]
      /\ \A g \in Workers : \A k \in DOMAIN results[g] : <<g, k>> \in P
  BY <1>2, <1>3, PositionFacts
<1>5. Taken \in Nat
  BY <1>4, FS_CardinalityType DEF Taken
<1> HIDE DEF P
<1>6. ASSUME \A g \in Workers : results[g] = <<>>
      PROVE  Taken = 0
  <2>1. DOMAIN <<>> = {}
    BY SMT
  <2>2. P = {}
    BY <1>4, <1>6, <2>1
  <2> QED BY <2>2, FS_EmptySet DEF Taken, P
<1>7. ASSUME NEW g \in Workers, NEW x \in {"ok", "error"},
             results' = [results EXCEPT ![g] = Append(results[g], x)]
      PROVE  Taken' = Taken + 1
  <2> DEFINE n == Len(results[g]) + 1
             new == Positions(results', Workers)
  <2>1. results'[g] = Append(results[g], x) /\ \A h \in Workers : h # g => results'[h] = results[h]
    BY <1>7 DEF TeamTypes
  <2>2. /\ DOMAIN results[g] = 1..Len(results[g]) /\ DOMAIN results'[g] = 1..n
        /\ results'[g] \in Seq({"ok", "error"})
        /\ n \notin 1..Len(results[g]) /\ n \in 1..n
        /\ \A k : k \in 1..n <=> k \in 1..Len(results[g]) \/ k = n
    BY <1>3, <2>1, SMTT(20)
  <2>3. \A h \in Workers : results'[h] \in Seq({"ok", "error"})
    BY <1>3, <2>1, <2>2
  <2>4. /\ \A p \in new : p = <<p[1], p[2]>> /\ p[1] \in Workers /\ p[2] \in DOMAIN results'[p[1]]
        /\ \A h \in Workers : \A k \in DOMAIN results'[h] : <<h, k>> \in new
    BY <1>2, <2>3, PositionFacts
  <2> HIDE DEF n, new
  <2>5. new \subseteq P \cup {<<g, n>>}
    <3> SUFFICES ASSUME NEW p \in new
                 PROVE  p \in P \/ p = <<g, n>>
      OBVIOUS
    <3>1. p = <<p[1], p[2]>> /\ p[1] \in Workers /\ p[2] \in DOMAIN results'[p[1]]
      BY <2>4
    <3>2. CASE p[1] = g
      <4>1. p[2] \in DOMAIN results[g] \/ p[2] = n
        BY <2>2, <3>1, <3>2
      <4> QED BY <1>4, <3>1, <3>2, <4>1
    <3>3. CASE p[1] # g
      BY <1>4, <2>1, <3>1, <3>3
    <3> QED BY <3>2, <3>3
  <2>6. <<g, n>> \in new /\ <<g, n>> \notin P
    <3>1. <<g, n>> \in new
      BY <2>2, <2>4
    <3>2. <<g, n>>[1] = g /\ <<g, n>>[2] = n
      OBVIOUS
    <3>3. <<g, n>> \notin P
      BY <1>4, <2>2, <3>2
    <3> QED BY <3>1, <3>3
  <2>7. P \subseteq new
    <3> SUFFICES ASSUME NEW p \in P
                 PROVE  p \in new
      OBVIOUS
    <3>1. p = <<p[1], p[2]>> /\ p[1] \in Workers /\ p[2] \in DOMAIN results[p[1]]
      BY <1>4
    <3>2. p[2] \in DOMAIN results'[p[1]]
      BY <2>1, <2>2, <3>1
    <3> QED BY <2>4, <3>1, <3>2
  <2>8. new = P \cup {<<g, n>>}
    BY <2>5, <2>6, <2>7
  <2>9. Cardinality(new) = Cardinality(P) + 1
    BY <1>4, <2>6, <2>8, FS_AddElement
  <2> QED BY <2>9 DEF Taken, P, new
<1> QED BY <1>5, <1>6, <1>7

\* The next subtask is one more for the worker whose turn it is.
LEMMA TurnNext ==
    ASSUME limit \in Nat, NEW n \in Nat, NEW g \in Int
    PROVE  /\ Cardinality(Turn(g, 0)) = 0
           /\ Cardinality(Turn(g, n + 1)) =
                 IF n % limit = g - 1 THEN Cardinality(Turn(g, n)) + 1 ELSE Cardinality(Turn(g, n))
<1>1. Turn(g, 0) = {}
  BY SMT DEF Turn
<1>2. IsFiniteSet(Turn(g, n)) /\ n + 1 \notin Turn(g, n)
  <2>1. IsFiniteSet(1..n) /\ Turn(g, n) \in SUBSET (1..n) /\ n + 1 \notin 1..n
    BY FS_Interval, SMT DEF Turn
  <2> QED BY <2>1, FS_Subset
<1>3. (n + 1) - 1 = n /\ \A i : i \in 1..(n + 1) <=> i \in 1..n \/ i = n + 1
  BY SMT
<1>4. CASE n % limit = g - 1
  <2>1. Turn(g, n + 1) = Turn(g, n) \cup {n + 1}
    BY <1>3, <1>4 DEF Turn
  <2>2. Cardinality(Turn(g, n) \cup {n + 1}) = Cardinality(Turn(g, n)) + 1
    BY <1>2, FS_AddElement
  <2> QED BY <1>1, <1>4, <2>1, <2>2, FS_EmptySet
<1>5. CASE n % limit # g - 1
  <2>1. Turn(g, n + 1) = Turn(g, n)
    BY <1>3, <1>5 DEF Turn
  <2> QED BY <1>1, <1>5, <2>1, FS_EmptySet
<1> QED BY <1>4, <1>5

\* A step that leaves the plan and the results alone.
LEMMA ResultFrame ==
    ASSUME PlanTypes, ResultInv,
           style' = style, limit' = limit, reply' = reply, groups' = groups, results' = results,
           Splits => (stage' = "plan" => stage = "plan") /\ (Settled' => Settled),
           Splits => \A g \in Workers : ans'[g] = ans[g] \/ (ans[g] = "sent" /\ ans'[g] \in {"ok", "error"})
    PROVE  ResultInv'
<1>1. DOMAIN groups \subseteq Workers /\ Taken' = Taken /\ Subtasks' = Subtasks
  BY DEF PlanTypes, Taken, Subtasks
<1>2. \A g, n : Turn(g, n)' = Turn(g, n)
  BY DEF Turn
<1>3. Splits' /\ stage' = "plan" => \A g \in Workers : ans'[g] = "new" /\ results'[g] = <<>>
  BY DEF ResultInv, Splits
<1>4. ASSUME style = "orchestrator", NEW g \in DOMAIN groups
      PROVE  /\ Len(results[g]) <= Len(groups[g])
             /\ ans'[g] \in {"sent", "ok", "error"} => Len(results[g]) < Len(groups[g])
             /\ ans'[g] = "over" \/ Settled' => Len(results[g]) = Len(groups[g])
  <2>1. ans'[g] = ans[g] \/ (ans[g] = "sent" /\ ans'[g] \in {"ok", "error"})
    BY <1>1, <1>4 DEF Splits
  <2>2. Settled' => Settled
    BY <1>4 DEF Splits
  <2> QED BY <1>4, <2>1, <2>2 DEF ResultInv
<1>5. ASSUME style = "manager"
      PROVE  /\ limit = 0 => Taken = 0
             /\ \A g \in DOMAIN groups : Len(results[g]) = Cardinality(Turn(g, Taken))
             /\ Settled' => Taken = Subtasks
  BY <1>5 DEF ResultInv, Splits
<1> QED BY <1>1, <1>2, <1>3, <1>4, <1>5 DEF ResultInv

\* A plan finds no result.
LEMMA PlanResults ==
    ASSUME TeamTypes, CrewInv, PlanTypes, PlanTypes', ResultInv, PlanStep
    PROVE  ResultInv'
<1>1. /\ stage = "plan" /\ stage' # "plan" /\ style' = style /\ ans' = ans /\ results' = results
      /\ stage' \in {"spawn", "run", "done"} /\ outcome' # "ok"
  BY PlanFacts DEF CrewInv
<1>2. ~Settled' /\ DOMAIN groups' \subseteq Workers /\ groups' \in Plan
  BY <1>1 DEF Settled, PlanTypes
<1>3. CASE Splits
  <2>1. \A g \in Workers : ans[g] = "new" /\ results[g] = <<>>
    BY <1>1, <1>3 DEF ResultInv
  <2>2. Taken = 0 /\ Taken' = 0
    BY <1>1, <2>1, TakenFacts DEF Taken
  <2>3. ASSUME NEW g \in DOMAIN groups'
        PROVE  /\ Len(results'[g]) = 0 /\ ans'[g] = "new" /\ Len(results'[g]) <= Len(groups'[g])
               /\ Cardinality(Turn(g, 0)') = 0
    <3>1. Len(groups'[g]) \in Nat /\ g \in Int /\ results'[g] = <<>> /\ ans'[g] = "new"
      <4>1. groups'[g] \in Seq(Subtask) /\ g \in Int
        BY <1>2, SMTT(20) DEF Plan
      <4>2. Len(groups'[g]) \in Nat
        BY <4>1, SMTT(20)
      <4> QED BY <1>1, <1>2, <2>1, <4>1, <4>2, ZenonT(30)
    <3>2. Len(results'[g]) = 0 /\ Len(results'[g]) <= Len(groups'[g])
      BY <3>1, SMT
    <3>3. Turn(g, 0)' = {}
      BY SMT DEF Turn
    <3> QED BY <3>1, <3>2, <3>3, FS_EmptySet
  <2>4. style = "manager" => \A g \in DOMAIN groups' : Len(results'[g]) = Cardinality(Turn(g, Taken))'
    BY <2>2, <2>3 DEF Turn
  <2> QED BY <1>1, <1>2, <2>2, <2>3, <2>4 DEF ResultInv
<1>4. CASE ~Splits
  BY <1>1, <1>4 DEF ResultInv, Splits
<1> QED BY <1>3, <1>4

\* A group takes an answer and goes on to its next subtask.
LEMMA GroupResults ==
    ASSUME TeamTypes, CrewInv, PlanTypes, ResultInv, NEW g \in Workers, RunGroup(g)
    PROVE  ResultInv'
<1>1. /\ style = "orchestrator" /\ stage = "run" /\ g \in DOMAIN groups /\ ans[g] \in {"new", "ok", "error"}
      /\ Gather(g) /\ style' = style /\ stage' = stage /\ outcome' = outcome /\ groups' = groups
  BY DEF RunGroup, Input
<1>2. ~Settled /\ ~Settled'
  BY <1>1 DEF Settled, CrewInv
<1>3. /\ Len(results[g]) <= Len(groups[g]) /\ Len(results[g]) \in Nat /\ Len(groups[g]) \in Nat
      /\ ans[g] \in {"ok", "error"} => Len(results[g]) < Len(groups[g])
  <2>1. results[g] \in Seq({"ok", "error"}) /\ groups[g] \in Seq(Subtask)
    BY <1>1, PlaceFacts DEF TeamTypes, PlanTypes
  <2>2. Len(results[g]) \in Nat /\ Len(groups[g]) \in Nat
    BY <2>1, SMT
  <2> QED BY <1>1, <2>2 DEF ResultInv
<1>4. Len(results'[g]) \in Nat /\ Len(results'[g]) <= Len(groups[g])
  <2>1. CASE ans[g] \in {"ok", "error"}
    <3>1. results'[g] = Append(results[g], ans[g])
      BY <1>1, <2>1 DEF Gather, TeamTypes
    <3>2. Len(results'[g]) = Len(results[g]) + 1
      BY <2>1, <3>1, SMT DEF TeamTypes
    <3> QED BY <1>3, <2>1, <3>2, SMTT(20)
  <2>2. CASE ans[g] \notin {"ok", "error"}
    BY <1>1, <1>3, <2>2 DEF Gather
  <2> QED BY <2>1, <2>2
<1>5. \A h \in Workers : h # g => results'[h] = results[h] /\ ans'[h] = ans[h]
  BY <1>1 DEF RunGroup, Gather, ExecuteOn, TeamTypes
<1>6. \/ Len(results'[g]) < Len(groups[g]) /\ ans'[g] = "sent"
      \/ ~(Len(results'[g]) < Len(groups[g])) /\ ans'[g] = "over"
  BY DEF RunGroup, ExecuteOn, TeamTypes
<1>7. ASSUME NEW h \in DOMAIN groups
      PROVE  /\ Len(results'[h]) <= Len(groups[h])
             /\ ans'[h] \in {"sent", "ok", "error"} => Len(results'[h]) < Len(groups[h])
             /\ ans'[h] = "over" => Len(results'[h]) = Len(groups[h])
  <2>1. CASE h = g
    <3>1. ~(Len(results'[g]) < Len(groups[g])) => Len(results'[g]) = Len(groups[g])
      BY <1>3, <1>4, SMT
    <3> QED BY <1>4, <1>6, <2>1, <3>1
  <2>2. CASE h # g
    <3>1. results'[h] = results[h] /\ ans'[h] = ans[h]
      BY <1>5, <2>2 DEF PlanTypes
    <3> QED BY <1>1, <3>1 DEF ResultInv
  <2> QED BY <2>1, <2>2
<1> QED BY <1>1, <1>2, <1>7 DEF ResultInv

\* The manager takes an answer and goes on to the next subtask.
LEMMA ManagerResults ==
    ASSUME TeamTypes, CrewInv, PlanTypes, DealInv, ResultInv, NEW g \in Workers, ManagerRun(g)
    PROVE  ResultInv'
<1>1. /\ style = "manager" /\ stage = "run" /\ groups' = groups
      /\ style' = style /\ limit' = limit /\ reply' = reply
      /\ stage' # "plan" /\ ~Settled'
  BY DEF ManagerRun, Input, LeadRaises, Settled, CrewInv
<1>2. limit \in Nat /\ Taken \in Nat /\ limit = crew /\ crew = Len(groups)
  BY <1>1, LimitFacts, TakenFacts DEF DealInv, Goes, Dealt, PlanTypes
<1>3. \A h, n : Turn(h, n)' = Turn(h, n)
  BY <1>1 DEF Turn
<1>4. CASE results' = results
  <2>1. Taken' = Taken
    BY <1>4 DEF Taken
  <2> QED BY <1>1, <1>3, <1>4, <2>1 DEF ResultInv
<1>5. CASE crew > 0 /\ g = NextWorker(Taken) /\ ans[g] = "ok" /\ Gather(g)
  <2>1. results' = [results EXCEPT ![g] = Append(results[g], "ok")]
    BY <1>5 DEF Gather
  <2>2. Taken' = Taken + 1
    BY <2>1, TakenFacts
  <2>3. limit # 0 /\ Taken % limit = g - 1
    BY <1>2, <1>5, SMT DEF NextWorker
  <2>4. ASSUME NEW h \in DOMAIN groups
        PROVE  Len(results'[h]) = Cardinality(Turn(h, Taken + 1))
    <3>1. h \in Workers /\ h \in Int /\ g \in Int /\ results[h] \in Seq({"ok", "error"})
      BY PlaceFacts, WorkersFacts, SMT DEF PlanTypes, TeamTypes
    <3>2. Len(results[h]) = Cardinality(Turn(h, Taken))
      BY <1>1 DEF ResultInv
    <3>3. CASE h = g
      <4>1. results'[h] = Append(results[h], "ok")
        BY <2>1, <3>3 DEF TeamTypes
      <4>2. Len(results'[h]) = Len(results[h]) + 1
        BY <3>1, <4>1, SMT
      <4>3. Cardinality(Turn(h, Taken + 1)) = Cardinality(Turn(h, Taken)) + 1
        BY <1>2, <2>3, <3>1, <3>3, TurnNext
      <4> QED BY <3>2, <4>2, <4>3
    <3>4. CASE h # g
      <4>1. results'[h] = results[h]
        BY <2>1, <3>1, <3>4 DEF TeamTypes
      <4>2. Taken % limit # h - 1
        BY <2>3, <3>1, <3>4, SMTT(20)
      <4>3. Cardinality(Turn(h, Taken + 1)) = Cardinality(Turn(h, Taken))
        BY <1>2, <3>1, <4>2, TurnNext
      <4> QED BY <3>2, <4>1, <4>3
    <3> QED BY <3>3, <3>4
  <2>5. \A h \in DOMAIN groups : Len(results'[h]) = Cardinality(Turn(h, Taken))'
    BY <1>3, <2>2, <2>4
  <2> QED BY <1>1, <2>3, <2>5 DEF ResultInv
<1> QED BY <1>4, <1>5 DEF ManagerRun

\* A step keeps the results in step with the plan.
LEMMA ResultNext ==
    ASSUME TeamTypes, CallInv, CrewInv, PlanTypes, PlanTypes', DealInv, ResultInv, PlanStep \/ LaterStep
    PROVE  ResultInv'
<1>1. CASE PlanStep
  BY <1>1, PlanResults
<1>2. CASE LaterStep
  <2>1. style' = style /\ limit' = limit /\ reply' = reply /\ groups' = groups
    BY <1>2, PlanKept
  <2>2. CASE ~Splits
    BY <2>1, <2>2 DEF ResultInv, Splits
  <2>3. ASSUME Splits
        PROVE  /\ style # "tool" /\ style # "research"
               /\ stage' = "plan" => stage = "plan"
               /\ Settled' => Settled \/ GroupsDone \/ ManagerDone
    BY <1>2, <2>3, GoesFacts DEF Splits
  <2>4. CASE Splits /\ \E g \in Workers : RunStep(g)
    <3>1. PICK g \in Workers : RunGroup(g) \/ ManagerRun(g)
      BY <2>3, <2>4 DEF RunStep, RunSubtask, ResearchRun
    <3> QED BY <3>1, GroupResults, ManagerResults
  <2>5. CASE Splits /\ GroupsDone
    <3>1. /\ style = "orchestrator" /\ results' = results /\ ans' = ans
          /\ \A g \in DOMAIN groups : ans[g] = "over"
      BY <2>5 DEF GroupsDone
    <3> QED BY <2>1, <2>3, <2>5, <3>1 DEF ResultInv, Splits
  <2>6. CASE Splits /\ ManagerDone
    <3>1. style = "manager" /\ results' = results /\ ans' = ans /\ Taken = Subtasks
      BY <2>6 DEF ManagerDone
    <3>2. Taken' = Taken /\ Subtasks' = Subtasks /\ \A g, n : Turn(g, n)' = Turn(g, n)
      BY <2>1, <3>1 DEF Taken, Subtasks, Turn
    <3> QED BY <2>1, <2>3, <2>6, <3>1, <3>2 DEF ResultInv, Splits
  <2>7. CASE /\ Splits /\ ~GroupsDone /\ ~ManagerDone
             /\ SpawnStep \/ MoveStep \/ KillStep \/ Cancel \/ \E i \in Workers : WorkerStep(i)
    <3>1. results' = results
      BY <2>7, SpawnFacts, MoveFacts, KillFacts, WorkerFacts DEF Cancel
    <3>2. \A g \in Workers : ans'[g] = ans[g] \/ (ans[g] = "sent" /\ ans'[g] \in {"ok", "error"})
      BY <2>7, SpawnFacts, MoveFacts, KillFacts, WorkerAnswers DEF Cancel
    <3> QED BY <2>1, <2>3, <2>7, <3>1, <3>2, ResultFrame
  <2> QED BY <1>2, <2>2, <2>4, <2>5, <2>6, <2>7 DEF LaterStep
<1> QED BY <1>1, <1>2

-----------------------------------------------------------------------------
(* Every subtask has one result *)

\* No subtask is dealt out and no result is in before planning.
LEMMA PlanInitInv == TeamInit => PlanInv
<1> SUFFICES ASSUME TeamInit
             PROVE  PlanInv
  OBVIOUS
<1>1. /\ stage = "plan" /\ groups = <<>> /\ crew = 0 /\ outcome = "none"
      /\ ans = [g \in Workers |-> "new"] /\ results = [g \in Workers |-> <<>>]
      /\ style \in Styles /\ limit \in 0..MaxWorkers
  BY DEF TeamInit
<1>2. reply \in Replies \cup {None}
  <2>1. \A r \in Replies : ArchitectPlan(r) \in Replies
    <3>1. <<1>> \in [1..1 -> Missing..MaxItems] /\ 1 \in 0..MaxParts
      BY TeamsAssumption, SMT DEF Missing
    <3>2. <<1>> \in Parts(Missing..MaxItems)
      BY <3>1 DEF Parts
    <3>3. [shape |-> "groups", parts |-> <<1>>] \in Replies
      BY <3>2 DEF Replies
    <3> QED BY <3>3 DEF ArchitectPlan
  <2> QED BY <2>1 DEF TeamInit
<1>3. /\ groups \in Plan /\ DOMAIN groups = {} /\ crew <= Len(groups)
  BY <1>1, SMT DEF Plan
<1>4. PlanTypes
  BY <1>1, <1>2, <1>3 DEF PlanTypes
<1>5. DealInv
  BY <1>1 DEF DealInv, Goes
<1>6. ResultInv
  <2>1. TeamTypes
    BY TeamInitInv DEF TeamInv
  <2>2. Taken = 0
    BY <1>1, <2>1, TakenFacts
  <2>3. ~Settled
    BY <1>1 DEF Settled
  <2> QED BY <1>1, <1>3, <2>2, <2>3 DEF ResultInv
<1> QED BY <1>4, <1>5, <1>6 DEF PlanInv

\* Every step keeps the invariant.
LEMMA PlanNextInv == TeamInv /\ PlanInv /\ [TeamNext]_teamVars => PlanInv'
<1> SUFFICES ASSUME TeamInv, PlanInv, [TeamNext]_teamVars
             PROVE  PlanInv'
  OBVIOUS
<1>1. CASE TeamNext
  <2>1. PlanStep \/ LaterStep
    BY <1>1, TeamSteps DEF LaterStep
  <2> QED BY <2>1, PlanTypesNext, DealNext, ResultNext DEF TeamInv, PlanInv
<1>2. CASE UNCHANGED teamVars
  <2> USE <1>2 DEF teamVars
  <2>1. PlanTypes'
    BY DEF PlanInv, PlanTypes
  <2>2. DealInv'
    BY DEF PlanInv, DealInv, Goes, Dealt, Planned, Subtasks, Turn
  <2>3. ResultInv'
    BY ResultFrame DEF PlanInv, Settled
  <2> QED BY <2>1, <2>2, <2>3 DEF PlanInv
<1> QED BY <1>1, <1>2

\* A lead deals out all of its plan and no more (_parse_groups and its fold of
\* the groups beyond the limit, or the manager's turns), and the results it has
\* are those of the subtasks it has sent, in every reachable state.
THEOREM PlanInvariant == TeamSpec => []PlanInv
BY PlanInitInv, PlanNextInv, TeamInvariant, PTL DEF TeamSpec

\* When an orchestrator or a manager goes on to its synthesis, every subtask of
\* the architect's answer was given to one worker and has one result, whatever
\* the answer was and however many workers were asked for: no group is lost in
\* the fold of _parse_groups or done twice, and no result is dropped by the
\* gather of the groups.
THEOREM SubtasksDoneOnce == TeamSpec => []EverySubtaskOnce
<1>1. TeamInv /\ PlanInv => EverySubtaskOnce
  <2> SUFFICES ASSUME TeamInv, PlanInv, Splits, Collected
               PROVE  /\ Len(groups) <= limit
                      /\ All(groups) = Planned /\ Once(groups)
                      /\ \A g \in DOMAIN groups : Len(results[g]) = Len(groups[g])
    BY DEF EverySubtaskOnce, Splits, All, Once, Places
  <2>1. Settled /\ Goes
    BY DEF Collected, Settled, Goes, TeamInv, CrewInv
  <2>2. PlanTypes /\ Dealt(groups, reply) /\ ResultInv
    BY <2>1 DEF PlanInv, DealInv
  <2>3. CASE style = "orchestrator"
    BY <2>1, <2>2, <2>3 DEF Dealt, ResultInv, Planned
  <2>4. CASE style = "manager"
    <3>1. /\ Len(groups) = limit /\ Once(groups) /\ (limit > 0 => All(groups) = Planned)
          /\ Taken = Subtasks /\ (limit = 0 => Taken = 0)
          /\ \A g \in DOMAIN groups : Len(results[g]) = Len(groups[g])
      BY <2>1, <2>2, <2>4 DEF Dealt, ResultInv
    <3>2. limit \in Nat /\ limit <= limit /\ (limit > 0 \/ limit = 0)
      <4>1. limit \in Nat
        BY <2>2, LimitFacts
      <4> QED BY <4>1, SMT
    <3>3. CASE limit = 0
      <4>1. \A p : p \notin Places(groups)
        <5>1. DOMAIN groups = {}
          BY <2>2, <3>1, <3>3, SMT DEF PlanTypes, Plan
        <5> QED BY <2>2, <5>1, PlaceFacts DEF PlanTypes
      <4>2. Planned = (1..0) \X {1}
        BY <2>4, <3>1, <3>3 DEF Planned
      <4>3. Planned = {}
        BY <4>2, SMT
      <4> QED BY <3>1, <3>2, <4>1, <4>3 DEF All
    <3> QED BY <3>1, <3>2, <3>3
  <2> QED BY <2>3, <2>4 DEF Splits
<1> QED BY <1>1, TeamInvariant, PlanInvariant, PTL
=============================================================================
