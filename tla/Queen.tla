------------------------------- MODULE Queen -------------------------------
(***************************************************************************)
(* The task dispatcher (sdk/python/hivekernel_sdk/queen.py): concurrent    *)
(* tasks that share a pool of idle leads with a reaper and with shutdown.  *)
(*                                                                         *)
(* The queen is one asyncio loop, so a step is the code between two        *)
(* awaits. The pool is a Python list that the reaper and on_shutdown       *)
(* iterate by index across awaits while tasks pop from its front and       *)
(* append at its end. A task is told apart only by what the keyword        *)
(* heuristic makes of its words; tasks with the same words are similar.    *)
(***************************************************************************)
EXTENDS Integers, Sequences, FiniteSetsExt

CONSTANTS
    Tasks,       \* task requests, each sent once
    Texts,       \* what they say: a subset of Descriptions
    MaxPid,      \* bound: processes the queen spawns
    IdleLeads,   \* of these, the leads that earlier tasks have left in the pool
    MaxHistory   \* MAX_HISTORY

Strategies   == {"simple", "complex", "architect"}
Descriptions == Strategies \cup {"vague", "empty"}

ASSUME QueenAssumption ==
    /\ Texts \subseteq Descriptions
    /\ MaxPid \in Nat \ {0}
    /\ IdleLeads \in 0..MaxPid
    /\ MaxHistory \in Nat \ {0}

VARIABLES
    pc,        \* where each task's coroutine waits
    text,      \* its description
    strategy,  \* its complexity, once assessed
    own,       \* the process the coroutine holds, 0 for none
    answer,    \* a result (whatever its exit code), an error, or none yet
    idle,      \* self._idle_leads: records of a PID and when it was released
    clock,     \* the time, as the number of releases so far
    history,   \* self._task_history, as far as it has tasks like these
    reaper,    \* _lead_reaper
    shut,      \* on_shutdown
    proc,      \* the processes spawned: the role of a live one, or "down"
    overlap    \* history: a pop has met a suspended iteration

vars == <<pc, text, strategy, own, answer, idle, clock, history, reaper,
          shut, proc, overlap>>

Pids    == 1..MaxPid
Roles   == {"worker", "lead", "architect"}
Request == <<text, strategy>>
Sweeps  == <<reaper, shut>>

Alive(p) == proc[p] \in Roles

\* The event loop still runs: server.stop has not yet ended the process.
Running == shut.pc # "gone"

\* The iteration is suspended in kill_child.
Suspended(sweep) == sweep.pc \in {"killing", "killed"}

-----------------------------------------------------------------------------
(* Arrival and assessment *)

\* handle_message starts a coroutine of its own, handle_task is called by one.
\* An empty task is refused at once.
Receive(t) ==
    /\ Running
    /\ pc[t] = "unsent"
    /\ \E d \in Texts :
          /\ text' = [text EXCEPT ![t] = d]
          /\ pc' = [pc EXCEPT ![t] = IF d = "empty" THEN "reply" ELSE "assess"]
          /\ answer' = IF d = "empty" THEN [answer EXCEPT ![t] = "error"] ELSE answer
    /\ UNCHANGED <<strategy, own, idle, clock, history, Sweeps, proc, overlap>>

Similar(d) == {i \in 1..Len(history) : history[i].text = d}

\* The LLM's verdict, "complex" when it fails or says something else.
AssessLLM == Strategies

\* Oldest similar task first, then the keywords, then the LLM.
Assess(d) ==
    IF Similar(d) # {} THEN {history[Min(Similar(d))].strategy}
    ELSE IF d \in Strategies THEN {d}
    ELSE AssessLLM

First(s) == CASE s = "simple"    -> "spawnWorker"
              [] s = "architect" -> "spawnArchitect"
              [] s = "complex"   -> "acquire"

\* The maid's report only leads to a log line.
AssessComplexity(t) ==
    /\ Running
    /\ pc[t] = "assess"
    /\ \E s \in Assess(text[t]) :
          /\ strategy' = [strategy EXCEPT ![t] = s]
          /\ pc' = [pc EXCEPT ![t] = First(s)]
    /\ UNCHANGED <<clock, text, own, answer, idle, history, Sweeps, proc, overlap>>

-----------------------------------------------------------------------------
(* Calls of the kernel *)

NewPid == {p \in Pids : proc[p] = "none" /\ \A q \in 1..(p - 1) : proc[q] # "none"}

\* spawn_child answers with a PID, or raises.
SpawnChild(t, role, then) ==
    \E p \in NewPid :
        /\ proc' = [proc EXCEPT ![p] = role]
        /\ own' = [own EXCEPT ![t] = p]
        /\ pc' = [pc EXCEPT ![t] = then]

\* kill_child leaves the process a zombie; an error is ignored.
Kill(p) == proc' = IF p \in Pids THEN [proc EXCEPT ![p] = "down"] ELSE proc

\* An exception no strategy catches: error answer, nothing in the history.
Raise(t) ==
    /\ pc' = [pc EXCEPT ![t] = "reply"]
    /\ answer' = [answer EXCEPT ![t] = "error"]

\* The strategy's result: the task goes into the history, which forgets its
\* oldest entry, before the result is stored and sent.
Finish(t, outcome) ==
    /\ answer' = [answer EXCEPT ![t] = outcome]
    /\ history' = LET h == Append(history, [text |-> text[t], strategy |-> strategy[t]])
                  IN  IF Len(h) > MaxHistory THEN Tail(h) ELSE h
    /\ pc' = [pc EXCEPT ![t] = "reply"]

-----------------------------------------------------------------------------
(* _core_handle_simple *)

SpawnWorker(t) ==
    /\ Running
    /\ pc[t] = "spawnWorker"
    /\ \/ SpawnChild(t, "worker", "work") /\ UNCHANGED <<answer, history>>
       \/ Finish(t, "error") /\ UNCHANGED <<own, proc>>
    /\ UNCHANGED <<clock, Request, idle, Sweeps, overlap>>

\* execute_task answers, fails or times out. Either way the worker is killed.
Work(t) ==
    /\ Running
    /\ pc[t] = "work"
    /\ \E outcome \in {"ok", "error"} :
          /\ outcome = "ok" => Alive(own[t])
          /\ answer' = [answer EXCEPT ![t] = outcome]
    /\ pc' = [pc EXCEPT ![t] = "killWorker"]
    /\ UNCHANGED <<clock, Request, own, idle, history, Sweeps, proc, overlap>>

KillWorker(t) ==
    /\ Running
    /\ pc[t] = "killWorker"
    /\ Kill(own[t])
    /\ Finish(t, answer[t])
    /\ UNCHANGED <<clock, Request, own, idle, Sweeps, overlap>>

-----------------------------------------------------------------------------
(* _core_handle_architect up to the plan *)

SpawnArchitect(t) ==
    /\ Running
    /\ pc[t] = "spawnArchitect"
    /\ \/ SpawnChild(t, "architect", "plan") /\ UNCHANGED answer
       \/ Raise(t) /\ UNCHANGED <<own, proc>>
    /\ UNCHANGED <<clock, Request, idle, history, Sweeps, overlap>>

\* With the plan, or without it as a complex task, on to a lead. The
\* architect has the task role and is left to exit by itself.
Plan(t) ==
    /\ Running
    /\ pc[t] = "plan"
    /\ pc' = [pc EXCEPT ![t] = "acquire"]
    /\ own' = [own EXCEPT ![t] = 0]
    /\ UNCHANGED <<clock, Request, answer, idle, history, Sweeps, proc, overlap>>

-----------------------------------------------------------------------------
(* _acquire_lead, the lead's work, _release_lead *)

\* Slip: the lead stays in the pool until it has been checked.
NextLeadPeek(t) ==
    /\ IF idle = <<>>
       THEN pc' = [pc EXCEPT ![t] = "spawnLead"] /\ own' = [own EXCEPT ![t] = 0]
       ELSE pc' = [pc EXCEPT ![t] = "check"] /\ own' = [own EXCEPT ![t] = Head(idle).pid]
    /\ UNCHANGED <<clock, idle, overlap>>

\* One turn of the loop: take the lead at the front, or none is left.
NextLead(t) ==
    IF idle = <<>>
    THEN /\ pc' = [pc EXCEPT ![t] = "spawnLead"]
         /\ own' = [own EXCEPT ![t] = 0]
         /\ UNCHANGED <<idle, overlap>>
    ELSE /\ pc' = [pc EXCEPT ![t] = "check"]
         /\ own' = [own EXCEPT ![t] = Head(idle).pid]
         /\ idle' = Tail(idle)
         /\ overlap' = (overlap \/ Suspended(reaper) \/ Suspended(shut))

AcquireLead(t) ==
    /\ Running
    /\ pc[t] = "acquire"
    /\ NextLead(t)
    /\ UNCHANGED <<clock, Request, answer, history, Sweeps, proc>>

\* get_process_info: an idle or running lead is reused, any other forgotten.
CheckLead(t) ==
    /\ Running
    /\ pc[t] = "check"
    /\ IF Alive(own[t])
       THEN pc' = [pc EXCEPT ![t] = "lead"] /\ UNCHANGED <<own, idle, overlap>>
       ELSE NextLead(t)
    /\ UNCHANGED <<clock, Request, answer, history, Sweeps, proc>>

\* Slip: the exception of a failed spawn ends the coroutine.
SpawnLeadDies(t) ==
    /\ Running
    /\ pc[t] = "spawnLead"
    /\ SpawnChild(t, "lead", "lead")
    /\ UNCHANGED <<clock, Request, answer, idle, history, Sweeps, overlap>>

\* The call stands outside the try of the strategy.
SpawnLead(t) ==
    /\ Running
    /\ pc[t] = "spawnLead"
    /\ \/ SpawnChild(t, "lead", "lead") /\ UNCHANGED answer
       \/ Raise(t) /\ UNCHANGED <<own, proc>>
    /\ UNCHANGED <<clock, Request, idle, history, Sweeps, overlap>>

\* Slip: the pool keeps one lead at most.
ReleaseLeadOnce(p) ==
    /\ idle' = IF idle = <<>> THEN <<[pid |-> p, since |-> clock]>> ELSE idle
    /\ clock' = clock + 1

ReleaseLead(p) ==
    /\ idle' = Append(idle, [pid |-> p, since |-> clock])
    /\ clock' = clock + 1

\* The lead answers and goes back to the end of the pool.
LeadDone(t) ==
    /\ Running
    /\ pc[t] = "lead"
    /\ Alive(own[t])
    /\ ReleaseLead(own[t])
    /\ own' = [own EXCEPT ![t] = 0]
    /\ Finish(t, "ok")
    /\ UNCHANGED <<Request, Sweeps, proc, overlap>>

\* It fails or runs out of time, and is killed.
LeadFails(t) ==
    /\ Running
    /\ pc[t] = "lead"
    /\ pc' = [pc EXCEPT ![t] = "killLead"]
    /\ UNCHANGED <<clock, Request, own, answer, idle, history, Sweeps, proc, overlap>>

KillLead(t) ==
    /\ Running
    /\ pc[t] = "killLead"
    /\ Kill(own[t])
    /\ Finish(t, "error")
    /\ UNCHANGED <<clock, Request, own, idle, Sweeps, overlap>>

\* The result is stored, then sent with the request's own reply_to, or
\* returned to the Execute stream. What fails here is only logged.
Reply(t) ==
    /\ Running
    /\ pc[t] = "reply"
    /\ pc' = [pc EXCEPT ![t] = "done"]
    /\ UNCHANGED <<clock, Request, own, answer, idle, history, Sweeps, proc, overlap>>

-----------------------------------------------------------------------------
(* _lead_reaper *)

Asleep == [pc |-> "asleep", before |-> 0, at |-> 1, pid |-> 0, still |-> <<>>]

\* From index `at` of the list to the next lead released before the given
\* time, or to the end, where the leads found young replace the pool.
Scan(before, at, still) ==
    LET expired == {i \in at..Len(idle) : idle[i].since < before}
        next    == Min(expired)
    IN  IF expired = {}
        THEN /\ reaper' = Asleep
             /\ idle' = still \o SubSeq(idle, at, Len(idle))
        ELSE /\ reaper' = [pc |-> "killing", before |-> before, at |-> next + 1,
                           pid |-> idle[next].pid,
                           still |-> still \o SubSeq(idle, at, next - 1)]
             /\ UNCHANGED idle

\* The minute is over; now - LEAD_IDLE_TIMEOUT lies after some releases.
ReaperWakes ==
    /\ Running
    /\ reaper.pc = "asleep"
    /\ \E before \in 1..clock : Scan(before, 1, <<>>)
    /\ UNCHANGED <<clock, pc, Request, own, answer, history, shut, proc, overlap>>

ReaperKills ==
    /\ reaper.pc = "killing"
    /\ Kill(reaper.pid)
    /\ reaper' = [reaper EXCEPT !.pc = "killed"]
    /\ UNCHANGED <<clock, pc, Request, own, answer, idle, history, shut, overlap>>

ReaperResumes ==
    /\ Running
    /\ reaper.pc = "killed"
    /\ Scan(reaper.before, reaper.at, reaper.still)
    /\ UNCHANGED <<clock, pc, Request, own, answer, history, shut, proc, overlap>>

-----------------------------------------------------------------------------
(* on_shutdown *)

\* Slip: only the first lead is killed.
ShutNextOnce(at) ==
    IF at = 1 /\ idle # <<>>
    THEN shut' = [pc |-> "killing", at |-> 2, pid |-> idle[1].pid] /\ UNCHANGED idle
    ELSE shut' = [pc |-> "stopped", at |-> 1, pid |-> 0] /\ idle' = <<>>

\* The next lead by index; behind the last one the pool is cleared.
ShutNext(at) ==
    IF at <= Len(idle)
    THEN shut' = [pc |-> "killing", at |-> at + 1, pid |-> idle[at].pid] /\ UNCHANGED idle
    ELSE shut' = [pc |-> "stopped", at |-> 1, pid |-> 0] /\ idle' = <<>>

\* The reaper is cancelled at whichever await it is in.
Shutdown ==
    /\ shut.pc = "none"
    /\ reaper' = [Asleep EXCEPT !.pc = "cancelled"]
    /\ ShutNext(1)
    /\ UNCHANGED <<clock, pc, Request, own, answer, history, proc, overlap>>

ShutKills ==
    /\ shut.pc = "killing"
    /\ Kill(shut.pid)
    /\ shut' = [shut EXCEPT !.pc = "killed"]
    /\ UNCHANGED <<clock, pc, Request, own, answer, idle, history, reaper, overlap>>

ShutResumes ==
    /\ shut.pc = "killed"
    /\ ShutNext(shut.at)
    /\ UNCHANGED <<clock, pc, Request, own, answer, history, reaper, proc, overlap>>

\* server.stop: the process ends, and with it every coroutine.
Leave ==
    /\ shut.pc = "stopped"
    /\ shut' = [shut EXCEPT !.pc = "gone"]
    /\ UNCHANGED <<clock, pc, Request, own, answer, idle, history, reaper, proc, overlap>>

-----------------------------------------------------------------------------
\* A child exits by itself or crashes. A lead is not restarted.
ProcExit(p) ==
    /\ Alive(p)
    /\ proc' = [proc EXCEPT ![p] = "down"]
    /\ UNCHANGED <<clock, pc, Request, own, answer, idle, history, Sweeps, overlap>>

Init ==
    /\ pc = [t \in Tasks |-> "unsent"]
    /\ text = [t \in Tasks |-> "empty"]
    /\ strategy = [t \in Tasks |-> "complex"]
    /\ own = [t \in Tasks |-> 0]
    /\ answer = [t \in Tasks |-> "none"]
    /\ idle = [i \in 1..IdleLeads |-> [pid |-> i, since |-> i - 1]]
    /\ clock = IdleLeads
    /\ history = <<>>
    /\ reaper = Asleep
    /\ shut = [pc |-> "none", at |-> 1, pid |-> 0]
    /\ proc = [p \in Pids |-> IF p <= IdleLeads THEN "lead" ELSE "none"]
    /\ overlap = FALSE

TaskStep(t) ==
    \/ AssessComplexity(t)
    \/ SpawnWorker(t) \/ Work(t) \/ KillWorker(t)
    \/ SpawnArchitect(t) \/ Plan(t)
    \/ AcquireLead(t) \/ CheckLead(t) \/ SpawnLead(t)
    \/ LeadDone(t) \/ LeadFails(t) \/ KillLead(t)
    \/ Reply(t)

Next ==
    \/ \E t \in Tasks : Receive(t) \/ TaskStep(t)
    \/ ReaperWakes \/ ReaperKills \/ ReaperResumes
    \/ Shutdown \/ ShutKills \/ ShutResumes \/ Leave
    \/ \E p \in Pids : ProcExit(p)

Spec == Init /\ [][Next]_vars

\* Calls of the kernel end: each has a deadline, there or in the launch.
Fairness == \A t \in Tasks : WF_vars(TaskStep(t))

FairSpec == Spec /\ Fairness

-----------------------------------------------------------------------------
(* Properties *)

Busy == {"check", "spawnLead", "lead", "killLead"}

PCs == Busy \cup {"unsent", "assess", "spawnWorker", "work", "killWorker",
                  "spawnArchitect", "plan", "acquire", "reply", "done"}

InPool == {idle[i].pid : i \in 1..Len(idle)}

TypeOK ==
    /\ pc \in [Tasks -> PCs]
    /\ text \in [Tasks -> Descriptions]
    /\ strategy \in [Tasks -> Strategies]
    /\ own \in [Tasks -> 0..MaxPid]
    /\ answer \in [Tasks -> {"none", "ok", "error"}]
    /\ Len(history) <= MaxHistory
    /\ proc \in [Pids -> Roles \cup {"none", "down"}]
    /\ \A i \in 1..Len(idle) : idle[i] \in [pid : Pids, since : 0..(clock - 1)]
    /\ reaper.pc \in {"asleep", "killing", "killed", "cancelled"}
    /\ shut.pc \in {"none", "killing", "killed", "stopped", "gone"}
    /\ overlap \in BOOLEAN

\* A lead works for one task at a time, and a working lead is not in the pool.
\* The reaper writes back the leads it has found young, so a lead taken since
\* would come back with it; that cannot happen because the pool is ordered by
\* release: behind the first young lead there is no kill to wait for.
LeadExclusive ==
    \A t \in Tasks :
        pc[t] \in Busy /\ own[t] # 0 =>
            /\ own[t] \notin InPool
            /\ \A u \in Tasks : pc[u] \in Busy /\ own[u] = own[t] => u = t

\* "Knows which leads are alive and available for reuse": a lead that lives is
\* in the pool, works for a task, or is about to be killed, and a worker that
\* lives works for a task; a task that is over, failed or not, leaves neither.
\* This holds as long as no task takes a lead while the reaper or on_shutdown
\* waits for a kill: a pop at that moment shifts the list under the iteration,
\* which then skips a lead and forgets it.
NoLeadLost ==
    ~overlap =>
        \A p \in Pids :
            proc[p] \in {"lead", "worker"} =>
                \/ p \in InPool
                \/ p = reaper.pid
                \/ \E t \in Tasks : own[t] = p /\ pc[t] # "done"

\* "on_shutdown() kills all idle leads": none of the leads in the pool at the
\* time is alive and forgotten, on the same condition.
ShutdownKillsIdle ==
    [][shut.pc = "killed" /\ shut'.pc = "stopped" /\ ~overlap =>
          \A i \in 1..Len(idle) : proc[idle[i].pid] = "down"]_vars

\* Every task the queen takes is answered, by a result or by an error, unless
\* she is stopped first.
EveryTaskAnswered ==
    \A t \in Tasks :
        pc[t] = "assess" ~> \/ pc[t] = "done" /\ answer[t] # "none"
                            \/ ~Running
=============================================================================
