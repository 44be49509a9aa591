---------------------------- MODULE QueenProofs ----------------------------
(***************************************************************************)
(* Proofs about the dispatcher's pool of leads, for any number of tasks,   *)
(* processes and idle leads: no lead is handed out twice, none is lost as  *)
(* long as no task takes one under a suspended iteration, and on_shutdown  *)
(* kills all idle leads on that condition.                                 *)
(***************************************************************************)
EXTENDS Queen, SequenceTheorems, WellFoundedInduction, TLAPS

\* A step is first-order unless it names SMT, for arithmetic and sequences.
USE Zenon

Entry   == [text : Descriptions, strategy : Strategies]
IdleRec == [pid : Pids, since : Nat]

\* The list the reaper writes back begins with nothing it has passed.
Types ==
    /\ pc \in [Tasks -> PCs] /\ own \in [Tasks -> 0..MaxPid]
    /\ text \in [Tasks -> Descriptions] /\ strategy \in [Tasks -> Strategies]
    /\ answer \in [Tasks -> {"none", "ok", "error"}]
    /\ history \in Seq(Entry) /\ Len(history) <= MaxHistory
    /\ idle \in Seq(IdleRec) /\ clock \in Nat
    /\ proc \in [Pids -> Roles \cup {"none", "down"}]
    /\ overlap \in BOOLEAN
    /\ reaper \in [pc : {"asleep", "killing", "killed", "cancelled"}, before : Nat,
                   at : Nat \ {0}, pid : 0..MaxPid, still : {<<>>}]
    /\ shut \in [pc : {"none", "killing", "killed", "stopped", "gone"},
                 at : Nat \ {0}, pid : 0..MaxPid]

\* The pool is ordered by the time of release and holds each lead once.
Ordered(q) ==
    \A i, j \in 1..Len(q) : i < j => q[i].since < q[j].since /\ q[i].pid # q[j].pid

PoolInv ==
    /\ Ordered(idle)
    /\ \A i \in 1..Len(idle) : idle[i].since < clock /\ proc[idle[i].pid] # "none"

\* The task holds a lead, a worker, or no process.
Holding == {"check", "lead", "killLead"}
AtWork  == {"work", "killWorker"}
Empty   == {"unsent", "assess", "spawnWorker", "spawnArchitect", "acquire", "spawnLead"}

HoldInv ==
    \A t \in Tasks :
        /\ pc[t] \in Empty => own[t] = 0
        /\ pc[t] \in Holding \cup AtWork => own[t] # 0
        /\ own[t] # 0 => proc[own[t]] # "none"
        /\ pc[t] \in Holding => own[t] \notin InPool
        /\ \A u \in Tasks : pc[t] \in Holding /\ pc[u] \in Holding /\ own[u] = own[t] => u = t

\* Who answers for a live worker, and for a live lead.
WorkerInv ==
    \A p \in Pids :
        proc[p] = "worker" => \E t \in Tasks : own[t] = p /\ pc[t] \in AtWork

LeadInv ==
    \A p \in Pids :
        proc[p] = "lead" => p \in InPool \/ \E t \in Tasks : own[t] = p /\ pc[t] \in Holding

\* A suspended iteration stands behind the lead it kills, and every lead it has
\* passed is down.
Stands(sweep) ==
    Suspended(sweep) =>
        /\ sweep.at - 1 \in 1..Len(idle)
        /\ idle[sweep.at - 1].pid = sweep.pid
        /\ sweep.pc = "killed" => proc[sweep.pid] = "down"
        /\ \A i \in 1..(sweep.at - 2) : proc[idle[i].pid] = "down"

SweepInv == Stands(reaper) /\ Stands(shut)

\* The reaper is cancelled when the shutdown begins.
TurnInv == shut.pc # "none" => reaper.pc = "cancelled"

Books ==
    /\ PoolInv /\ HoldInv /\ WorkerInv /\ TurnInv
    /\ ~overlap => LeadInv /\ SweepInv

QueenInv == Types /\ Books

-----------------------------------------------------------------------------
(* Types *)

\* The smallest number of a set is one of its members.
LEMMA MinIsMember ==
  ASSUME NEW S, S \subseteq Nat, S # {}
  PROVE  Min(S) \in S /\ \A y \in S : Min(S) <= y
  <1>1. PICK x \in S : \A y \in S : ~(<<y, x>> \in OpToRel(<, Nat))
    BY NatLessThanWellFounded, WFMin
  <1>2. ASSUME NEW y \in S, y < x
        PROVE  <<y, x>> \in OpToRel(<, Nat)
    BY <1>2 DEF OpToRel
  <1>3. \A y \in S : x <= y
    <2> SUFFICES ASSUME NEW y \in S, y < x PROVE FALSE
      BY SMT
    <2> QED
      BY <1>1, <1>2
  <1> QED
    BY <1>3 DEF Min

\* Whatever the history says of a task is a strategy.
LEMMA AssessType ==
  ASSUME Types, NEW d \in Descriptions
  PROVE  Assess(d) \subseteq Strategies
  <1>1. CASE Similar(d) # {}
    <2>1. Similar(d) \subseteq Nat
      BY SMT DEF Similar, Types
    <2>2. Min(Similar(d)) \in 1..Len(history)
      BY <1>1, <2>1, MinIsMember DEF Similar
    <2>3. history[Min(Similar(d))] \in Entry
      BY <2>2, SMT DEF Types
    <2>4. history[Min(Similar(d))].strategy \in Strategies
      BY <2>3 DEF Entry
    <2> QED
      BY <1>1, <2>4 DEF Assess
  <1>2. CASE Similar(d) = {}
    BY <1>2 DEF Assess, AssessLLM
  <1> QED
    BY <1>1, <1>2

LEMMA FirstType ==
  ASSUME NEW s \in Strategies
  PROVE  First(s) \in {"spawnWorker", "spawnArchitect", "acquire"}
  BY DEF Strategies, First

LEMMA Bounds == MaxPid \in Nat /\ 0 \in 0..MaxPid /\ Pids \subseteq Nat /\ Pids \subseteq 0..MaxPid
  BY QueenAssumption, SMT DEF Pids

LEMMA FinishType ==
  ASSUME Types, NEW t \in Tasks, NEW o \in {"ok", "error"} \cup {answer[t]}, Finish(t, o)
  PROVE  /\ history' \in Seq(Entry) /\ Len(history') <= MaxHistory
         /\ answer' \in [Tasks -> {"none", "ok", "error"}]
         /\ pc' \in [Tasks -> PCs]
  <1> DEFINE e == [text |-> text[t], strategy |-> strategy[t]]
             h == Append(history, e)
  <1>1. e \in Entry
    BY DEF Types, Entry
  <1>2. history \in Seq(Entry) /\ Len(history) <= MaxHistory /\ MaxHistory \in Nat
    BY QueenAssumption DEF Types
  <1> HIDE DEF e
  <1>3. h \in Seq(Entry) /\ Len(h) = Len(history) + 1
    BY <1>1, <1>2, SMT
  <1>4. history' = IF Len(h) > MaxHistory THEN Tail(h) ELSE h
    BY DEF Finish, e
  <1> HIDE DEF h
  <1>5. history' \in Seq(Entry) /\ Len(history') <= MaxHistory
    BY <1>2, <1>3, <1>4, SMT
  <1> QED
    BY <1>5 DEF Finish, Types, PCs

LEMMA SpawnType ==
  ASSUME Types, NEW t \in Tasks, NEW role \in Roles, NEW then \in PCs, SpawnChild(t, role, then)
  PROVE  /\ proc' \in [Pids -> Roles \cup {"none", "down"}]
         /\ own' \in [Tasks -> 0..MaxPid] /\ pc' \in [Tasks -> PCs]
  BY SMT DEF SpawnChild, NewPid, Types, Pids

LEMMA KillType ==
  ASSUME Types, NEW p, Kill(p)
  PROVE  proc' \in [Pids -> Roles \cup {"none", "down"}]
  BY DEF Kill, Types

LEMMA NextLeadType ==
  ASSUME Types, NEW t \in Tasks, NextLead(t)
  PROVE  /\ pc' \in [Tasks -> PCs] /\ own' \in [Tasks -> 0..MaxPid]
         /\ idle' \in Seq(IdleRec) /\ overlap' \in BOOLEAN
  <1>1. CASE idle = <<>>
    <2>1. overlap' = overlap /\ overlap \in BOOLEAN
      BY <1>1 DEF NextLead, Types
    <2>2. pc' \in [Tasks -> PCs] /\ idle' \in Seq(IdleRec)
      BY <1>1 DEF NextLead, Types, PCs, Busy
    <2>3. own' = [own EXCEPT ![t] = 0] /\ own \in [Tasks -> 0..MaxPid]
      BY <1>1 DEF NextLead, Types
    <2>4. own' \in [Tasks -> 0..MaxPid]
      BY <2>3, Bounds
    <2> QED
      BY <2>1, <2>2, <2>4
  <1>2. CASE idle # <<>>
    <2>1. Head(idle) \in IdleRec /\ Tail(idle) \in Seq(IdleRec)
      BY <1>2, SMT DEF Types
    <2>2. Head(idle).pid \in 0..MaxPid
      BY <2>1, SMT DEF IdleRec, Pids
    <2>3. pc' \in [Tasks -> PCs] /\ own' \in [Tasks -> 0..MaxPid] /\ idle' \in Seq(IdleRec)
      BY <1>2, <2>1, <2>2 DEF NextLead, Types, PCs, Busy
    <2>4. overlap' \in BOOLEAN
      BY <1>2, Zenon DEF NextLead
    <2> QED
      BY <2>3, <2>4
  <1> QED
    BY <1>1, <1>2

LEMMA IdleTypes ==
  ASSUME Types
  PROVE  \A i \in 1..Len(idle) :
            idle[i].pid \in Pids /\ idle[i].pid \in 0..MaxPid /\ idle[i].since \in Nat
  <1>1. \A i \in 1..Len(idle) : idle[i] \in IdleRec
    BY SMT DEF Types
  <1>2. \A i \in 1..Len(idle) : idle[i].pid \in Pids /\ idle[i].since \in Nat
    BY <1>1 DEF IdleRec
  <1> QED
    BY <1>2, Bounds

\* The rest of the pool from an index on.
LEMMA Suffix ==
  ASSUME NEW q \in Seq(IdleRec), NEW at \in Nat \ {0}
  PROVE  /\ SubSeq(q, at, Len(q)) \in Seq(IdleRec)
         /\ Len(SubSeq(q, at, Len(q))) = IF at <= Len(q) THEN Len(q) - at + 1 ELSE 0
         /\ \A i \in 1..Len(SubSeq(q, at, Len(q))) :
               at + i - 1 \in 1..Len(q) /\ SubSeq(q, at, Len(q))[i] = q[at + i - 1]
  <1>1. Len(q) \in Nat /\ \A i \in at..Len(q) : q[i] \in IdleRec
    BY SMT
  <1>2. /\ SubSeq(q, at, Len(q)) \in Seq(IdleRec)
        /\ Len(SubSeq(q, at, Len(q))) = IF at <= Len(q) THEN Len(q) - at + 1 ELSE 0
        /\ \A i \in 1..(Len(q) - at + 1) : SubSeq(q, at, Len(q))[i] = q[at + i - 1]
    BY <1>1, SubSeqProperties, SMT
  <1>3. ASSUME NEW i \in 1..Len(SubSeq(q, at, Len(q)))
        PROVE  at + i - 1 \in 1..Len(q) /\ SubSeq(q, at, Len(q))[i] = q[at + i - 1]
    <2>1. at <= Len(q) /\ i \in 1..(Len(q) - at + 1)
      BY <1>1, <1>2, SMT
    <2> QED
      BY <1>1, <1>2, <2>1, SMT
  <1> QED
    BY <1>2, <1>3

\* Because the pool is ordered, the reaper finds a lead to kill at the index it
\* stands at, or none behind it: the list it writes back is the rest of the pool.
LEMMA ScanStep ==
  ASSUME Types, Ordered(idle), NEW before \in Nat, NEW at \in Nat \ {0}, Scan(before, at, <<>>)
  PROVE  \/ reaper' = Asleep /\ idle' = SubSeq(idle, at, Len(idle))
         \/ /\ at \in 1..Len(idle) /\ idle' = idle
            /\ reaper' = [pc |-> "killing", before |-> before, at |-> at + 1,
                          pid |-> idle[at].pid, still |-> <<>>]
  <1> DEFINE expired == {i \in at..Len(idle) : idle[i].since < before}
             rest    == SubSeq(idle, at, Len(idle))
  <1>1. idle \in Seq(IdleRec) /\ Len(idle) \in Nat
    BY SMT DEF Types
  <1>2. \A i \in 1..Len(idle) : idle[i].since \in Nat
    BY IdleTypes
  <1>3. rest \in Seq(IdleRec)
    BY <1>1, Suffix
  <1>4. CASE expired = {}
    <2>1. reaper' = Asleep /\ idle' = <<>> \o rest
      BY <1>4 DEF Scan
    <2> QED
      BY <1>3, <2>1, ConcatEmptySeq
  <1>5. CASE expired # {}
    <2>1. PICK i \in expired : TRUE
      BY <1>5
    <2>2. at \in 1..Len(idle) /\ i \in 1..Len(idle) /\ (i = at \/ at < i)
      BY <1>1, <2>1, SMT
    <2>3. idle[at].since < before
      BY <1>2, <2>1, <2>2, SMT DEF Ordered
    <2>4. at \in expired /\ \A y \in expired : at <= y
      BY <1>1, <2>2, <2>3, SMT
    <2>5. Min(expired) = at
      <3>1. expired \subseteq Nat
        BY <1>1, SMT
      <3>2. Min(expired) \in expired /\ \A y \in expired : Min(expired) <= y
        BY <1>5, <3>1, MinIsMember
      <3> QED
        BY <1>1, <2>4, <3>1, <3>2, SMT
    <2>6. SubSeq(idle, at, at - 1) = <<>>
      BY SubSeqEmpty, SMT
    <2>7. <<>> \o SubSeq(idle, at, at - 1) = <<>>
      <3>1. <<>> \in Seq(IdleRec)
        BY SMT
      <3> QED
        BY <2>6, <3>1, ConcatEmptySeq
    <2>8. /\ idle' = idle
          /\ reaper' = [pc |-> "killing", before |-> before, at |-> Min(expired) + 1,
                        pid |-> idle[Min(expired)].pid,
                        still |-> <<>> \o SubSeq(idle, at, Min(expired) - 1)]
      BY <1>5 DEF Scan
    <2> HIDE DEF expired
    <2> QED
      BY <2>2, <2>5, <2>7, <2>8
  <1> QED
    BY <1>4, <1>5

LEMMA TaskTypes ==
  ASSUME Types, HoldInv, NEW t \in Tasks, Receive(t) \/ TaskStep(t)
  PROVE  Types'
  <1>0. /\ \A s \in PCs : [pc EXCEPT ![t] = s] \in [Tasks -> PCs]
        /\ {"killWorker", "killLead", "lead", "done"} \subseteq PCs
    BY DEF Types, PCs, Busy
  <1>1. CASE Receive(t)
    <2>1. PICK d \in Texts :
            /\ text' = [text EXCEPT ![t] = d]
            /\ pc' = [pc EXCEPT ![t] = IF d = "empty" THEN "reply" ELSE "assess"]
            /\ answer' = IF d = "empty" THEN [answer EXCEPT ![t] = "error"] ELSE answer
      BY <1>1 DEF Receive
    <2>2. d \in Descriptions
      BY QueenAssumption
    <2>3. /\ text' \in [Tasks -> Descriptions] /\ pc' \in [Tasks -> PCs]
          /\ answer' \in [Tasks -> {"none", "ok", "error"}]
      BY <2>1, <2>2 DEF Types, PCs
    <2> QED
      BY <1>1, <2>3 DEF Receive, Sweeps, Types
  <1>2. CASE AssessComplexity(t)
    <2>1. PICK s \in Assess(text[t]) :
            strategy' = [strategy EXCEPT ![t] = s] /\ pc' = [pc EXCEPT ![t] = First(s)]
      BY <1>2 DEF AssessComplexity
    <2>2. text[t] \in Descriptions
      BY DEF Types
    <2>3. s \in Strategies /\ First(s) \in PCs
      BY <2>1, <2>2, AssessType, FirstType DEF PCs
    <2>4. strategy' \in [Tasks -> Strategies] /\ pc' \in [Tasks -> PCs]
      BY <2>1, <2>3 DEF Types
    <2> QED
      BY <1>2, <2>4 DEF AssessComplexity, Sweeps, Types
  <1>3. CASE SpawnWorker(t)
    <2>1. CASE SpawnChild(t, "worker", "work") /\ UNCHANGED <<answer, history>>
      BY <1>3, <2>1, SpawnType DEF SpawnWorker, Request, Sweeps, Types, Roles, PCs
    <2>2. CASE Finish(t, "error") /\ UNCHANGED <<own, proc>>
      BY <1>3, <2>2, FinishType DEF SpawnWorker, Request, Sweeps, Types
    <2> QED
      BY <1>3, <2>1, <2>2 DEF SpawnWorker
  <1>4. CASE Work(t) \/ LeadFails(t) \/ Reply(t)
    <2>1. pc' \in [Tasks -> PCs]
      BY <1>0, <1>4 DEF Work, LeadFails, Reply
    <2>2. answer' \in [Tasks -> {"none", "ok", "error"}]
      BY <1>4 DEF Work, LeadFails, Reply, Types
    <2>3. UNCHANGED <<clock, text, strategy, own, idle, history, reaper, shut, proc, overlap>>
      BY <1>4 DEF Work, LeadFails, Reply, Request, Sweeps
    <2> QED
      BY <2>1, <2>2, <2>3 DEF Types
  <1>5. CASE KillWorker(t)
    BY <1>5, FinishType, KillType DEF KillWorker, Request, Sweeps, Types
  <1>6. CASE SpawnArchitect(t)
    <2>1. CASE SpawnChild(t, "architect", "plan") /\ UNCHANGED answer
      BY <1>6, <2>1, SpawnType DEF SpawnArchitect, Request, Sweeps, Types, Roles, PCs
    <2>2. CASE Raise(t) /\ UNCHANGED <<own, proc>>
      <3>1. pc' \in [Tasks -> PCs] /\ answer' \in [Tasks -> {"none", "ok", "error"}]
        BY <2>2 DEF Raise, Types, PCs
      <3> QED
        BY <1>6, <2>2, <3>1 DEF SpawnArchitect, Request, Sweeps, Types
    <2> QED
      BY <1>6, <2>1, <2>2 DEF SpawnArchitect
  <1>7. CASE Plan(t)
    <2>1. pc' \in [Tasks -> PCs] /\ own' \in [Tasks -> 0..MaxPid]
      BY <1>7, Bounds DEF Plan, Types, PCs
    <2> QED
      BY <1>7, <2>1 DEF Plan, Request, Sweeps, Types
  <1>8. CASE AcquireLead(t)
    BY <1>8, NextLeadType DEF AcquireLead, Request, Sweeps, Types
  <1>9. CASE CheckLead(t)
    <2>1. CASE Alive(own[t])
      <3>1. pc' \in [Tasks -> PCs]
        BY <1>0, <1>9, <2>1 DEF CheckLead
      <3> QED
        BY <1>9, <2>1, <3>1 DEF CheckLead, Request, Sweeps, Types
    <2>2. CASE ~Alive(own[t])
      BY <1>9, <2>2, NextLeadType DEF CheckLead, Request, Sweeps, Types
    <2> QED
      BY <2>1, <2>2
  <1>10. CASE SpawnLead(t)
    <2>1. CASE SpawnChild(t, "lead", "lead") /\ UNCHANGED answer
      BY <1>10, <2>1, SpawnType DEF SpawnLead, Request, Sweeps, Types, Roles, PCs, Busy
    <2>2. CASE Raise(t) /\ UNCHANGED <<own, proc>>
      <3>1. pc' \in [Tasks -> PCs] /\ answer' \in [Tasks -> {"none", "ok", "error"}]
        BY <2>2 DEF Raise, Types, PCs
      <3> QED
        BY <1>10, <2>2, <3>1 DEF SpawnLead, Request, Sweeps, Types
    <2> QED
      BY <1>10, <2>1, <2>2 DEF SpawnLead
  <1>11. CASE LeadDone(t)
    <2>1. own[t] \in Pids /\ clock \in Nat /\ idle \in Seq(IdleRec)
      BY <1>11, Bounds, SMT DEF LeadDone, HoldInv, Holding, Types, Pids
    <2>2. [pid |-> own[t], since |-> clock] \in IdleRec
      BY <2>1 DEF IdleRec
    <2>3. idle' \in Seq(IdleRec) /\ clock' \in Nat
      BY <1>11, <2>1, <2>2, SMT DEF LeadDone, ReleaseLead
    <2>4. own' \in [Tasks -> 0..MaxPid]
      BY <1>11, Bounds DEF LeadDone, Types
    <2> QED
      BY <1>11, <2>3, <2>4, FinishType DEF LeadDone, Request, Sweeps, Types
  <1>12. CASE KillLead(t)
    BY <1>12, FinishType, KillType DEF KillLead, Request, Sweeps, Types
  <1> QED
    BY <1>1, <1>2, <1>3, <1>4, <1>5, <1>6, <1>7, <1>8, <1>9, <1>10, <1>11, <1>12 DEF TaskStep

LEMMA ReaperTypes ==
  ASSUME Types, PoolInv, ReaperWakes \/ ReaperKills \/ ReaperResumes
  PROVE  Types'
  <1> DEFINE Reapers == [pc : {"asleep", "killing", "killed", "cancelled"}, before : Nat,
                         at : Nat \ {0}, pid : 0..MaxPid, still : {<<>>}]
  <1>0. reaper \in Reapers
    BY DEF Types
  <1>1. ASSUME NEW before \in Nat, NEW at \in Nat \ {0}, Scan(before, at, <<>>)
        PROVE  reaper' \in Reapers /\ idle' \in Seq(IdleRec)
    <2>1. CASE reaper' = Asleep /\ idle' = SubSeq(idle, at, Len(idle))
      <3>1. idle' \in Seq(IdleRec)
        BY <2>1, Suffix DEF Types
      <3> QED
        BY <2>1, <3>1, Bounds, SMT DEF Asleep
    <2>2. CASE /\ at \in 1..Len(idle) /\ idle' = idle
               /\ reaper' = [pc |-> "killing", before |-> before, at |-> at + 1,
                             pid |-> idle[at].pid, still |-> <<>>]
      <3>1. idle[at].pid \in 0..MaxPid
        BY <2>2, IdleTypes
      <3>2. reaper' \in Reapers
        BY <2>2, <3>1, SMT
      <3> QED
        BY <2>2, <3>2 DEF Types
    <2> QED
      BY <1>1, <2>1, <2>2, ScanStep DEF PoolInv
  <1>2. CASE ReaperWakes
    <2>1. reaper' \in Reapers /\ idle' \in Seq(IdleRec)
      BY <1>1, <1>2, SMT DEF ReaperWakes
    <2> QED
      BY <1>2, <2>1 DEF ReaperWakes, Request, Types
  <1>3. CASE ReaperKills
    <2>1. reaper' \in Reapers
      BY <1>0, <1>3 DEF ReaperKills
    <2> QED
      BY <1>3, <2>1, KillType DEF ReaperKills, Request, Types
  <1>4. CASE ReaperResumes
    <2>1. reaper.before \in Nat /\ reaper.at \in Nat \ {0} /\ reaper.still = <<>>
      BY <1>0
    <2>2. reaper' \in Reapers /\ idle' \in Seq(IdleRec)
      BY <1>1, <1>4, <2>1 DEF ReaperResumes
    <2> QED
      BY <1>4, <2>2 DEF ReaperResumes, Request, Types
  <1> QED
    BY <1>2, <1>3, <1>4

LEMMA ShutTypes ==
  ASSUME Types, Shutdown \/ ShutKills \/ ShutResumes \/ Leave \/ \E p \in Pids : ProcExit(p)
  PROVE  Types'
  <1> DEFINE Shuts == [pc : {"none", "killing", "killed", "stopped", "gone"},
                       at : Nat \ {0}, pid : 0..MaxPid]
  <1>0. shut \in Shuts
    BY DEF Types
  <1>1. ASSUME NEW at \in Nat \ {0}, ShutNext(at)
        PROVE  shut' \in Shuts /\ idle' \in Seq(IdleRec)
    <2>1. CASE at <= Len(idle)
      <3>1. at \in 1..Len(idle)
        BY <2>1, SMT DEF Types
      <3>2. idle[at].pid \in 0..MaxPid
        BY <3>1, IdleTypes
      <3> QED
        BY <1>1, <2>1, <3>2, SMT DEF ShutNext, Types
    <2>2. CASE ~(at <= Len(idle))
      <3>1. idle' = <<>> /\ shut' = [pc |-> "stopped", at |-> 1, pid |-> 0]
        BY <1>1, <2>2 DEF ShutNext
      <3>2. idle' \in Seq(IdleRec)
        BY <3>1, SMT
      <3> QED
        BY <3>1, <3>2, Bounds, SMT
    <2> QED
      BY <2>1, <2>2
  <1>2. CASE Shutdown
    <2>1. shut' \in Shuts /\ idle' \in Seq(IdleRec)
      BY <1>1, <1>2, SMT DEF Shutdown
    <2>2. reaper' = [pc |-> "cancelled", before |-> 0, at |-> 1, pid |-> 0, still |-> <<>>]
      BY <1>2 DEF Shutdown, Asleep
    <2>3. reaper' \in [pc : {"asleep", "killing", "killed", "cancelled"}, before : Nat,
                       at : Nat \ {0}, pid : 0..MaxPid, still : {<<>>}]
      BY <2>2, Bounds, SMT
    <2> QED
      BY <1>2, <2>1, <2>3 DEF Shutdown, Request, Types
  <1>3. CASE ShutKills
    <2>1. shut' \in Shuts
      BY <1>0, <1>3 DEF ShutKills
    <2> QED
      BY <1>3, <2>1, KillType DEF ShutKills, Request, Types
  <1>4. CASE ShutResumes
    <2>1. shut' \in Shuts /\ idle' \in Seq(IdleRec)
      BY <1>0, <1>1, <1>4 DEF ShutResumes
    <2> QED
      BY <1>4, <2>1 DEF ShutResumes, Request, Types
  <1>5. CASE Leave
    <2>1. shut' \in Shuts
      BY <1>0, <1>5 DEF Leave
    <2> QED
      BY <1>5, <2>1 DEF Leave, Request, Types
  <1>6. ASSUME NEW p \in Pids, ProcExit(p) PROVE Types'
    <2>1. proc' \in [Pids -> Roles \cup {"none", "down"}]
      BY <1>6 DEF ProcExit, Types
    <2> QED
      BY <1>6, <2>1 DEF ProcExit, Request, Sweeps, Types
  <1> QED
    BY <1>2, <1>3, <1>4, <1>5, <1>6

-----------------------------------------------------------------------------
(* The steps of a task *)

\* A step that moves no process and no lead.
LEMMA QuietTask ==
  ASSUME Types, Books, NEW t \in Tasks, NEW s \in PCs, pc' = [pc EXCEPT ![t] = s],
         UNCHANGED <<own, idle, clock, reaper, shut, proc, overlap>>,
         s \in Holding <=> pc[t] \in Holding, s \in AtWork <=> pc[t] \in AtWork,
         s \in Empty => pc[t] \in Empty
  PROVE  Books'
  <1> USE DEF Books
  <1>1. pc'[t] = s /\ \A u \in Tasks : u # t => pc'[u] = pc[u]
    BY DEF Types
  <1>2. \A u \in Tasks : /\ pc'[u] \in Holding <=> pc[u] \in Holding
                         /\ pc'[u] \in AtWork <=> pc[u] \in AtWork
                         /\ pc'[u] \in Empty => pc[u] \in Empty
    BY <1>1
  <1>3. PoolInv'
    BY DEF PoolInv, Ordered
  <1>4. HoldInv'
    BY <1>2 DEF HoldInv, InPool
  <1>5. WorkerInv' /\ TurnInv'
    BY <1>2 DEF WorkerInv, TurnInv
  <1>6. LeadInv => LeadInv'
    BY <1>2, SMT DEF LeadInv, InPool
  <1>7. SweepInv => SweepInv'
    BY DEF SweepInv, Stands, Suspended
  <1> QED
    BY <1>3, <1>4, <1>5, <1>6, <1>7

\* A process goes down.
LEMMA DownKeeps ==
  ASSUME Types, Books, NEW p \in Pids, proc' = [proc EXCEPT ![p] = "down"],
         UNCHANGED <<own, idle, clock, pc, overlap>>
  PROVE  /\ PoolInv' /\ HoldInv' /\ WorkerInv'
         /\ LeadInv => LeadInv'
  <1> USE DEF Books
  <1>1. proc'[p] = "down" /\ \A q \in Pids : q # p => proc'[q] = proc[q]
    BY DEF Types
  <1>2. PoolInv'
    BY <1>1, IdleTypes DEF PoolInv, Ordered
  <1>3. \A t \in Tasks : own[t] # 0 => own[t] \in Pids
    BY Bounds, SMT DEF Types, Pids
  <1>4. HoldInv'
    BY <1>1, <1>3, SMT DEF HoldInv, InPool
  <1>5. WorkerInv'
    BY <1>1, SMT DEF WorkerInv
  <1>6. LeadInv => LeadInv'
    BY <1>1, SMT DEF LeadInv, InPool
  <1> QED
    BY <1>2, <1>4, <1>5, <1>6

LEMMA SweepTypes ==
  ASSUME Types
  PROVE  /\ reaper.at \in Nat \ {0} /\ reaper.pid \in 0..MaxPid
         /\ reaper.before \in Nat /\ reaper.still = <<>>
         /\ shut.at \in Nat \ {0} /\ shut.pid \in 0..MaxPid
  BY DEF Types

\* An iteration that is left alone stands where it stood.
LEMMA StandsOn ==
  ASSUME Types, NEW sweep, sweep.at \in Nat, Stands(sweep), idle' = idle,
         \A p \in Pids : proc[p] = "down" => proc'[p] = "down"
  PROVE  Suspended(sweep) =>
            /\ sweep.at - 1 \in 1..Len(idle')
            /\ idle'[sweep.at - 1].pid = sweep.pid
            /\ sweep.pc = "killed" => proc'[sweep.pid] = "down"
            /\ \A i \in 1..(sweep.at - 2) : i \in 1..Len(idle') /\ proc'[idle'[i].pid] = "down"
  <1> SUFFICES ASSUME Suspended(sweep)
               PROVE  /\ sweep.at - 1 \in 1..Len(idle')
                      /\ idle'[sweep.at - 1].pid = sweep.pid
                      /\ sweep.pc = "killed" => proc'[sweep.pid] = "down"
                      /\ \A i \in 1..(sweep.at - 2) :
                            i \in 1..Len(idle') /\ proc'[idle'[i].pid] = "down"
    OBVIOUS
  <1>1. /\ sweep.at - 1 \in 1..Len(idle) /\ idle[sweep.at - 1].pid = sweep.pid
        /\ sweep.pc = "killed" => proc[sweep.pid] = "down"
        /\ \A i \in 1..(sweep.at - 2) : proc[idle[i].pid] = "down"
    BY DEF Stands
  <1>2. sweep.pid \in Pids
    BY <1>1, IdleTypes
  <1>3. \A i \in 1..(sweep.at - 2) : i \in 1..Len(idle)
    <2>1. Len(idle) \in Nat
      BY SMT DEF Types
    <2> QED
      BY <1>1, <2>1, SMT
  <1> QED
    BY <1>1, <1>2, <1>3, IdleTypes

LEMMA SweepOn ==
  ASSUME Types, SweepInv, UNCHANGED <<idle, reaper, shut>>,
         \A p \in Pids : proc[p] = "down" => proc'[p] = "down"
  PROVE  SweepInv'
  BY SweepTypes, StandsOn DEF SweepInv, Stands, Suspended

LEMMA KillTask ==
  ASSUME Types, Books, NEW t \in Tasks, pc[t] \in {"killWorker", "killLead"}, Kill(own[t]),
         pc' = [pc EXCEPT ![t] = "reply"], UNCHANGED <<own, idle, clock, reaper, shut, overlap>>
  PROVE  Books'
  <1> USE DEF Books
  <1>1. own[t] \in Pids
    BY Bounds, SMT DEF HoldInv, Holding, AtWork, Types, Pids
  <1>2. proc' = [proc EXCEPT ![own[t]] = "down"]
    BY <1>1 DEF Kill
  <1>3. proc'[own[t]] = "down" /\ \A q \in Pids : q # own[t] => proc'[q] = proc[q]
    BY <1>1, <1>2 DEF Types
  <1>4. pc'[t] = "reply" /\ \A u \in Tasks : u # t => pc'[u] = pc[u]
    BY DEF Types
  <1>5. PoolInv'
    BY <1>3, IdleTypes DEF PoolInv, Ordered
  <1>6. \A u \in Tasks : own[u] # 0 => own[u] \in Pids
    BY Bounds, SMT DEF Types, Pids
  <1>7. HoldInv'
    BY <1>3, <1>4, <1>6, SMT DEF HoldInv, InPool, Holding, AtWork, Empty
  <1>8. WorkerInv' /\ TurnInv'
    BY <1>3, <1>4 DEF WorkerInv, TurnInv
  <1>9. LeadInv => LeadInv'
    BY <1>3, <1>4, SMT DEF LeadInv, InPool
  <1>10. SweepInv => SweepInv'
    BY <1>3, SweepOn
  <1> QED
    BY <1>5, <1>7, <1>8, <1>9, <1>10

LEMMA SpawnTask ==
  ASSUME Types, Books, NEW t \in Tasks, NEW role, NEW then, SpawnChild(t, role, then),
         pc[t] \in Empty, UNCHANGED <<idle, clock, reaper, shut, overlap>>,
         \/ role = "worker" /\ then = "work"
         \/ role = "architect" /\ then = "plan"
         \/ role = "lead" /\ then = "lead"
  PROVE  Books'
  <1> USE DEF Books
  <1>1. PICK p \in Pids : /\ proc[p] = "none" /\ proc' = [proc EXCEPT ![p] = role]
                          /\ own' = [own EXCEPT ![t] = p] /\ pc' = [pc EXCEPT ![t] = then]
    BY DEF SpawnChild, NewPid
  <1>2. proc'[p] = role /\ \A q \in Pids : q # p => proc'[q] = proc[q]
    BY <1>1 DEF Types
  <1>3. /\ pc'[t] = then /\ \A u \in Tasks : u # t => pc'[u] = pc[u]
        /\ own'[t] = p /\ \A u \in Tasks : u # t => own'[u] = own[u]
    BY <1>1 DEF Types
  <1>4. p # 0 /\ own[t] = 0
    BY SMT DEF HoldInv, Pids
  <1>5. p \notin InPool /\ InPool' = InPool
    BY <1>1 DEF PoolInv, InPool
  <1>6. \A u \in Tasks : own[u] # p
    BY <1>1, <1>4 DEF HoldInv
  <1>7. role # "none" /\ role # "down"
    OBVIOUS
  <1>8. PoolInv'
    BY <1>2, <1>7, IdleTypes DEF PoolInv, Ordered
  <1>9. \A u \in Tasks : own[u] # 0 => own[u] \in Pids
    BY Bounds, SMT DEF Types, Pids
  <1>10. then \notin Empty /\ (then \in Holding <=> role = "lead") /\ (then \in AtWork <=> role = "worker")
    BY DEF Empty, Holding, AtWork
  <1>11. HoldInv'
    <2> SUFFICES ASSUME NEW v \in Tasks
                 PROVE  /\ pc'[v] \in Empty => own'[v] = 0
                        /\ pc'[v] \in Holding \cup AtWork => own'[v] # 0
                        /\ own'[v] # 0 => proc'[own'[v]] # "none"
                        /\ pc'[v] \in Holding => own'[v] \notin InPool'
                        /\ \A u \in Tasks :
                              pc'[v] \in Holding /\ pc'[u] \in Holding /\ own'[u] = own'[v] => u = v
      BY DEF HoldInv
    <2>1. CASE v = t
      BY <1>2, <1>3, <1>4, <1>5, <1>6, <1>7, <1>10, <2>1
    <2>2. CASE v # t
      BY <1>2, <1>3, <1>5, <1>6, <1>7, <1>9, <2>2, SMTT(20) DEF HoldInv
    <2> QED
      BY <2>1, <2>2
  <1>12. WorkerInv' /\ TurnInv'
    <2>1. \A q \in Pids : proc[q] = "worker" => \E u \in Tasks : u # t /\ own[u] = q /\ pc[u] \in AtWork
      BY <1>4, Bounds, SMT DEF WorkerInv, Pids
    <2> QED
      BY <1>2, <1>3, <1>10, <2>1, SMT DEF WorkerInv, TurnInv
  <1>13. LeadInv => LeadInv'
    <2>1. ASSUME LeadInv
          PROVE  \A q \in Pids : proc[q] = "lead" =>
                    q \in InPool \/ \E u \in Tasks : u # t /\ own[u] = q /\ pc[u] \in Holding
      BY <1>4, <2>1, Bounds, SMT DEF LeadInv, Pids
    <2> QED
      BY <1>2, <1>3, <1>5, <1>10, <2>1, SMT DEF LeadInv
  <1>14. SweepInv => SweepInv'
    BY <1>1, <1>2, SweepOn
  <1> QED
    BY <1>8, <1>11, <1>12, <1>13, <1>14

LEMMA PlanTask ==
  ASSUME Types, Books, NEW t \in Tasks, Plan(t)
  PROVE  Books'
  <1> USE DEF Books
  <1>1. /\ UNCHANGED <<clock, idle, reaper, shut, proc, overlap>>
        /\ pc[t] = "plan" /\ pc'[t] = "acquire" /\ \A u \in Tasks : u # t => pc'[u] = pc[u]
        /\ own'[t] = 0 /\ \A u \in Tasks : u # t => own'[u] = own[u]
    BY DEF Plan, Sweeps, Types
  <1>2. /\ "plan" \notin Holding /\ "plan" \notin AtWork
        /\ "acquire" \in Empty /\ "acquire" \notin Holding /\ "acquire" \notin AtWork
    BY DEF Holding, AtWork, Empty
  <1>3. PoolInv' /\ TurnInv'
    BY <1>1 DEF PoolInv, Ordered, TurnInv
  <1>4. HoldInv'
    BY <1>1, <1>2, SMT DEF HoldInv, InPool
  <1>5. WorkerInv'
    BY <1>1, <1>2, SMT DEF WorkerInv
  <1>6. LeadInv => LeadInv'
    BY <1>1, <1>2, SMT DEF LeadInv, InPool
  <1>7. SweepInv => SweepInv'
    BY <1>1 DEF SweepInv, Stands, Suspended
  <1> QED
    BY <1>1, <1>3, <1>4, <1>5, <1>6, <1>7

\* The lead at the front leaves the pool.
LEMMA PopFront ==
  ASSUME Types, PoolInv, idle # <<>>, idle' = Tail(idle)
  PROVE  /\ idle[1].pid \in Pids /\ Head(idle) = idle[1] /\ 1 \in 1..Len(idle)
         /\ Ordered(idle')
         /\ \A i \in 1..Len(idle') : i + 1 \in 1..Len(idle) /\ idle'[i] = idle[i + 1]
         /\ \A p : p \in InPool <=> p = idle[1].pid \/ p \in InPool'
         /\ idle[1].pid \notin InPool'
  <1>1. /\ Len(idle) \in Nat \ {0} /\ Len(idle') = Len(idle) - 1 /\ Head(idle) = idle[1]
        /\ \A i \in 1..Len(idle') : idle'[i] = idle[i + 1]
    BY SMT DEF Types
  <1>2. 1 \in 1..Len(idle) /\ \A i \in 1..Len(idle') : i + 1 \in 1..Len(idle)
    BY <1>1, SMT
  <1>3. idle[1].pid \in Pids
    BY <1>2, IdleTypes
  <1>4. Ordered(idle')
    BY <1>1, <1>2, SMT DEF PoolInv, Ordered
  <1>5. idle[1].pid \notin InPool'
    BY <1>1, <1>2, SMT DEF PoolInv, Ordered, InPool
  <1>6. ASSUME NEW p
        PROVE  p \in InPool <=> p = idle[1].pid \/ p \in InPool'
    <2>1. ASSUME NEW i \in 1..Len(idle), idle[i].pid = p, i # 1
          PROVE  p \in InPool'
      <3>1. i - 1 \in 1..Len(idle') /\ idle'[i - 1] = idle[i]
        BY <1>1, <2>1, SMT
      <3> QED
        BY <2>1, <3>1 DEF InPool
    <2> QED
      BY <1>1, <1>2, <2>1, SMT DEF InPool
  <1> QED
    BY <1>1, <1>2, <1>3, <1>4, <1>5, <1>6

LEMMA NextLeadTask ==
  ASSUME Types, Books, NEW t \in Tasks, NextLead(t), UNCHANGED <<clock, reaper, shut, proc>>,
         \/ pc[t] = "acquire"
         \/ pc[t] = "check" /\ ~Alive(own[t])
  PROVE  Books'
  <1> USE DEF Books
  <1>1. CASE idle = <<>>
    <2>1. /\ UNCHANGED <<idle, overlap>>
          /\ pc'[t] = "spawnLead" /\ \A u \in Tasks : u # t => pc'[u] = pc[u]
          /\ own'[t] = 0 /\ \A u \in Tasks : u # t => own'[u] = own[u]
      BY <1>1 DEF NextLead, Types
    <2>2. "spawnLead" \in Empty /\ "spawnLead" \notin Holding /\ "spawnLead" \notin AtWork
      BY DEF Holding, AtWork, Empty
    <2>3. pc[t] \notin AtWork
      BY DEF AtWork
    <2>4. \A p \in Pids : own[t] = p /\ pc[t] \in Holding => proc[p] # "lead"
      BY DEF Holding, Alive, Roles
    <2>5. PoolInv' /\ TurnInv'
      BY <2>1, ZenonT(30) DEF PoolInv, Ordered, TurnInv
    <2>6. HoldInv'
      BY <2>1, <2>2, SMT DEF HoldInv, InPool
    <2>7. WorkerInv'
      BY <2>1, <2>3, SMT DEF WorkerInv
    <2>8. LeadInv => LeadInv'
      BY <2>1, <2>4, SMT DEF LeadInv, InPool
    <2>9. SweepInv => SweepInv'
      BY <2>1, SweepOn
    <2> QED
      BY <2>1, <2>5, <2>6, <2>7, <2>8, <2>9
  <1>2. CASE idle # <<>>
    <2> DEFINE lead == idle[1].pid
    <2>1. idle' = Tail(idle)
      BY <1>2 DEF NextLead
    <2>2. /\ lead \in Pids /\ Head(idle) = idle[1] /\ 1 \in 1..Len(idle) /\ Ordered(idle')
          /\ \A i \in 1..Len(idle') : i + 1 \in 1..Len(idle) /\ idle'[i] = idle[i + 1]
          /\ \A p : p \in InPool <=> p = lead \/ p \in InPool'
          /\ lead \notin InPool'
      BY <1>2, <2>1, PopFront
    <2>3. /\ pc'[t] = "check" /\ \A u \in Tasks : u # t => pc'[u] = pc[u]
          /\ own'[t] = lead /\ \A u \in Tasks : u # t => own'[u] = own[u]
      BY <1>2, <2>2, SMT DEF NextLead, Types
    <2>4. overlap' = (overlap \/ Suspended(reaper) \/ Suspended(shut))
      BY <1>2 DEF NextLead
    <2>5. ~overlap' => ~overlap /\ ~Suspended(reaper) /\ ~Suspended(shut)
      BY <2>4, Zenon
    <2>6. proc[lead] # "none" /\ lead # 0
      BY <2>2, SMT DEF PoolInv, Pids
    <2>7. "check" \notin Empty /\ "check" \in Holding /\ "check" \notin AtWork /\ pc[t] \notin AtWork
      BY DEF Holding, AtWork, Empty
    <2> HIDE DEF lead
    <2>8. PoolInv' /\ TurnInv'
      BY <2>2 DEF PoolInv, TurnInv
    <2>9. HoldInv'
      <3> SUFFICES ASSUME NEW v \in Tasks
                   PROVE  /\ pc'[v] \in Empty => own'[v] = 0
                          /\ pc'[v] \in Holding \cup AtWork => own'[v] # 0
                          /\ own'[v] # 0 => proc'[own'[v]] # "none"
                          /\ pc'[v] \in Holding => own'[v] \notin InPool'
                          /\ \A u \in Tasks :
                                pc'[v] \in Holding /\ pc'[u] \in Holding /\ own'[u] = own'[v] => u = v
        BY DEF HoldInv
      <3>1. \A u \in Tasks : pc[u] \in Holding => own[u] # lead
        BY <2>2 DEF HoldInv
      <3>2. CASE v = t
        BY <2>2, <2>3, <2>6, <2>7, <3>1, <3>2
      <3>3. CASE v # t
        BY <2>2, <2>3, <3>1, <3>3 DEF HoldInv
      <3> QED
        BY <3>2, <3>3
    <2>10. WorkerInv'
      BY <2>3, <2>7, SMT DEF WorkerInv
    <2>11. LeadInv => LeadInv'
      <3>1. \A p \in Pids : own[t] = p /\ pc[t] \in Holding => proc[p] # "lead"
        BY DEF Holding, Alive, Roles
      <3> QED
        BY <2>2, <2>3, <2>7, <3>1, SMT DEF LeadInv
    <2>12. ~overlap' => SweepInv'
      BY <2>5 DEF SweepInv, Stands, Suspended
    <2> QED
      BY <2>5, <2>8, <2>9, <2>10, <2>11, <2>12
  <1> QED
    BY <1>1, <1>2

LEMMA LeadDoneTask ==
  ASSUME Types, Books, NEW t \in Tasks, LeadDone(t)
  PROVE  Books'
  <1> USE DEF Books
  <1> DEFINE p == own[t]
             e == [pid |-> p, since |-> clock]
  <1>1. p \in Pids /\ p # 0 /\ pc[t] = "lead" /\ clock \in Nat /\ idle \in Seq(IdleRec)
    BY Bounds, SMT DEF LeadDone, HoldInv, Holding, Types, Pids
  <1>2. e \in IdleRec /\ e.pid = p /\ e.since = clock
    BY <1>1 DEF IdleRec
  <1>3. /\ idle' = Append(idle, e) /\ clock' = clock + 1
        /\ UNCHANGED <<reaper, shut, proc, overlap>>
        /\ pc'[t] = "reply" /\ \A u \in Tasks : u # t => pc'[u] = pc[u]
        /\ own'[t] = 0 /\ \A u \in Tasks : u # t => own'[u] = own[u]
    BY DEF LeadDone, ReleaseLead, Finish, Sweeps, Types
  <1> HIDE DEF e
  <1>4. /\ Len(idle) \in Nat /\ Len(idle') = Len(idle) + 1
        /\ \A i \in 1..Len(idle) : idle'[i] = idle[i]
        /\ idle'[Len(idle) + 1] = e
    BY <1>1, <1>2, <1>3, SMT
  <1>5. \A i \in 1..Len(idle') : i \in 1..Len(idle) \/ i = Len(idle) + 1
    BY <1>4, SMT
  <1>6. p \notin InPool /\ proc[p] # "none"
    BY <1>1 DEF HoldInv, Holding
  <1> HIDE DEF p
  <1>7. \A q : q \in InPool' <=> q \in InPool \/ q = p
    <2>1. Len(idle) + 1 \in 1..Len(idle') /\ \A i \in 1..Len(idle) : i \in 1..Len(idle')
      BY <1>4, SMT
    <2> QED
      BY <1>2, <1>4, <1>5, <2>1 DEF InPool
  <1>8. PoolInv'
    <2>1. Ordered(idle')
      <3> SUFFICES ASSUME NEW i \in 1..Len(idle'), NEW j \in 1..Len(idle'), i < j
                   PROVE  idle'[i].since < idle'[j].since /\ idle'[i].pid # idle'[j].pid
        BY DEF Ordered
      <3>1. i \in 1..Len(idle)
        BY <1>4, SMT
      <3>2. CASE j \in 1..Len(idle)
        BY <1>4, <3>1, <3>2, SMT DEF PoolInv, Ordered
      <3>3. CASE j = Len(idle) + 1
        <4>1. idle[i].since < clock /\ idle[i].pid # p
          BY <1>6, <3>1 DEF PoolInv, InPool
        <4> QED
          BY <1>2, <1>4, <3>1, <3>3, <4>1
      <3> QED
        BY <1>5, <3>2, <3>3
    <2>2. ASSUME NEW i \in 1..Len(idle')
          PROVE  idle'[i].since < clock' /\ proc'[idle'[i].pid] # "none"
      <3>1. CASE i \in 1..Len(idle)
        BY <1>1, <1>3, <1>4, <3>1, IdleTypes, SMT DEF PoolInv
      <3>2. CASE i = Len(idle) + 1
        BY <1>1, <1>2, <1>3, <1>4, <1>6, <3>2, SMT
      <3> QED
        BY <1>5, <3>1, <3>2
    <2> QED
      BY <2>1, <2>2 DEF PoolInv
  <1>9. "reply" \notin Empty /\ "reply" \notin Holding /\ "reply" \notin AtWork /\ "lead" \in Holding
        /\ "lead" \notin AtWork
    BY DEF Holding, AtWork, Empty
  <1>10. HoldInv'
    <2>1. \A u \in Tasks : u # t /\ pc[u] \in Holding => own[u] # p
      BY <1>1, <1>9 DEF HoldInv, p
    <2> QED
      BY <1>3, <1>7, <1>9, <2>1, SMT DEF HoldInv
  <1>11. WorkerInv' /\ TurnInv'
    BY <1>1, <1>3, <1>9, SMT DEF WorkerInv, TurnInv
  <1>12. LeadInv => LeadInv'
    BY <1>1, <1>3, <1>7, <1>9, SMTT(20) DEF LeadInv, p
  <1>13. ASSUME NEW sweep, sweep.at \in Nat, Stands(sweep), Suspended(sweep)
         PROVE  /\ sweep.at - 1 \in 1..Len(idle')
                /\ idle'[sweep.at - 1].pid = sweep.pid
                /\ sweep.pc = "killed" => proc'[sweep.pid] = "down"
                /\ \A i \in 1..(sweep.at - 2) : proc'[idle'[i].pid] = "down"
    <2>1. sweep.at - 1 \in 1..Len(idle)
      BY <1>13 DEF Stands
    <2>2. \A i \in 1..(sweep.at - 2) : i \in 1..Len(idle)
      BY <1>4, <1>13, <2>1, SMTT(20)
    <2> QED
      BY <1>3, <1>4, <1>13, <2>1, <2>2, SMT DEF Stands
  <1>14. SweepInv => SweepInv'
    BY <1>3, <1>13, SweepTypes, SMTT(20) DEF SweepInv, Stands, Suspended
  <1> QED
    BY <1>3, <1>8, <1>10, <1>11, <1>12, <1>14

LEMMA TaskBooks ==
  ASSUME Types, Books, NEW t \in Tasks, Receive(t) \/ TaskStep(t)
  PROVE  Books'
  <1>1. CASE Receive(t)
    BY <1>1, QuietTask DEF Receive, Sweeps, Holding, AtWork, Empty, PCs
  <1>2. CASE AssessComplexity(t)
    <2>1. PICK s \in Assess(text[t]) : pc' = [pc EXCEPT ![t] = First(s)]
      BY <1>2 DEF AssessComplexity
    <2>2. text[t] \in Descriptions
      BY DEF Types
    <2>3. First(s) \in {"spawnWorker", "spawnArchitect", "acquire"}
      BY <2>1, <2>2, AssessType, FirstType
    <2> QED
      BY <1>2, <2>1, <2>3, QuietTask DEF AssessComplexity, Sweeps, Holding, AtWork, Empty, PCs
  <1>3. CASE SpawnWorker(t)
    <2>1. CASE SpawnChild(t, "worker", "work")
      BY <1>3, <2>1, SpawnTask DEF SpawnWorker, Sweeps, Empty
    <2>2. CASE Finish(t, "error") /\ UNCHANGED <<own, proc>>
      BY <1>3, <2>2, QuietTask DEF SpawnWorker, Finish, Sweeps, Holding, AtWork, Empty, PCs
    <2> QED
      BY <1>3, <2>1, <2>2 DEF SpawnWorker
  <1>4. CASE Work(t) \/ LeadFails(t) \/ Reply(t)
    BY <1>4, QuietTask DEF Work, LeadFails, Reply, Sweeps, Holding, AtWork, Empty, PCs, Busy
  <1>5. CASE KillWorker(t)
    BY <1>5, KillTask DEF KillWorker, Finish, Sweeps
  <1>6. CASE SpawnArchitect(t)
    <2>1. CASE SpawnChild(t, "architect", "plan")
      BY <1>6, <2>1, SpawnTask DEF SpawnArchitect, Sweeps, Empty
    <2>2. CASE Raise(t) /\ UNCHANGED <<own, proc>>
      BY <1>6, <2>2, QuietTask DEF SpawnArchitect, Raise, Sweeps, Holding, AtWork, Empty, PCs
    <2> QED
      BY <1>6, <2>1, <2>2 DEF SpawnArchitect
  <1>7. CASE Plan(t)
    BY <1>7, PlanTask
  <1>8. CASE AcquireLead(t)
    BY <1>8, NextLeadTask DEF AcquireLead, Sweeps
  <1>9. CASE CheckLead(t)
    <2>1. CASE Alive(own[t])
      BY <1>9, <2>1, QuietTask DEF CheckLead, Sweeps, Holding, AtWork, Empty, PCs, Busy
    <2>2. CASE ~Alive(own[t])
      BY <1>9, <2>2, NextLeadTask DEF CheckLead, Sweeps
    <2> QED
      BY <2>1, <2>2
  <1>10. CASE SpawnLead(t)
    <2>1. CASE SpawnChild(t, "lead", "lead")
      BY <1>10, <2>1, SpawnTask DEF SpawnLead, Sweeps, Empty
    <2>2. CASE Raise(t) /\ UNCHANGED <<own, proc>>
      BY <1>10, <2>2, QuietTask DEF SpawnLead, Raise, Sweeps, Holding, AtWork, Empty, PCs
    <2> QED
      BY <1>10, <2>1, <2>2 DEF SpawnLead
  <1>11. CASE LeadDone(t)
    BY <1>11, LeadDoneTask
  <1>12. CASE KillLead(t)
    BY <1>12, KillTask DEF KillLead, Finish, Sweeps
  <1> QED
    BY <1>1, <1>2, <1>3, <1>4, <1>5, <1>6, <1>7, <1>8, <1>9, <1>10, <1>11, <1>12 DEF TaskStep

-----------------------------------------------------------------------------
(* The reaper and the shutdown *)

\* Every lead before the index is down.
Passed(at) == \A i \in 1..Len(idle) : i < at => proc[idle[i].pid] = "down"

\* An iteration goes on from where it stands when its kill has been done.
LEMMA KilledPassed ==
  ASSUME Types, NEW sweep, sweep.at \in Nat \ {0}, sweep.pc = "killed", Stands(sweep)
  PROVE  Passed(sweep.at) /\ sweep.at - 1 \in 1..Len(idle)
  <1>1. /\ sweep.at - 1 \in 1..Len(idle) /\ proc[idle[sweep.at - 1].pid] = "down"
        /\ \A i \in 1..(sweep.at - 2) : proc[idle[i].pid] = "down"
    BY DEF Stands, Suspended
  <1>2. ASSUME NEW i \in 1..Len(idle), i < sweep.at
        PROVE  i = sweep.at - 1 \/ i \in 1..(sweep.at - 2)
    BY <1>2, SMT
  <1> QED
    BY <1>1, <1>2 DEF Passed

LEMMA ScanBooks ==
  ASSUME Types, Books, NEW before \in Nat, NEW at \in Nat \ {0}, Scan(before, at, <<>>),
         reaper.pc # "cancelled", ~overlap => Passed(at),
         UNCHANGED <<clock, pc, own, shut, proc, overlap>>
  PROVE  Books'
  <1> USE DEF Books
  <1>0. Ordered(idle) /\ shut.pc = "none" /\ Len(idle) \in Nat
    BY SMT DEF PoolInv, TurnInv, Types
  <1>1. WorkerInv' /\ TurnInv'
    BY <1>0 DEF WorkerInv, TurnInv
  <1>2. CASE reaper' = Asleep /\ idle' = SubSeq(idle, at, Len(idle))
    <2>1. /\ Len(idle') = IF at <= Len(idle) THEN Len(idle) - at + 1 ELSE 0
          /\ \A i \in 1..Len(idle') : at + i - 1 \in 1..Len(idle) /\ idle'[i] = idle[at + i - 1]
      BY <1>2, Suffix, SMTT(20) DEF Types
    <2>2. PoolInv'
      <3>1. Ordered(idle')
        <4> SUFFICES ASSUME NEW i \in 1..Len(idle'), NEW j \in 1..Len(idle'), i < j
                     PROVE  idle'[i].since < idle'[j].since /\ idle'[i].pid # idle'[j].pid
          BY DEF Ordered
        <4> DEFINE a == at + i - 1
                   b == at + j - 1
        <4>1. a \in 1..Len(idle) /\ b \in 1..Len(idle) /\ idle'[i] = idle[a] /\ idle'[j] = idle[b]
          BY <2>1
        <4>2. a < b
          BY <1>0, <2>1, SMT
        <4> HIDE DEF a, b
        <4> QED
          BY <1>0, <4>1, <4>2 DEF Ordered
      <3> QED
        BY <2>1, <3>1 DEF PoolInv
    <2>3. InPool' \subseteq InPool
      BY <2>1 DEF InPool
    <2>4. HoldInv'
      BY <2>3 DEF HoldInv
    <2>5. ASSUME ~overlap
          PROVE  LeadInv'
      <3> SUFFICES ASSUME NEW p \in Pids, proc[p] = "lead", NEW i \in 1..Len(idle), idle[i].pid = p
                   PROVE  p \in InPool'
        BY <2>5, SMT DEF LeadInv, InPool
      <3>1. at <= i
        BY <1>0, <2>5, SMT DEF Passed
      <3>2. i - at + 1 \in 1..Len(idle') /\ at + (i - at + 1) - 1 = i
        BY <1>0, <2>1, <3>1, SMT
      <3>3. idle'[i - at + 1] = idle[i]
        BY <2>1, <3>2
      <3> QED
        BY <3>2, <3>3 DEF InPool
    <2>6. SweepInv'
      BY <1>0, <1>2 DEF SweepInv, Stands, Suspended, Asleep
    <2> QED
      BY <1>1, <2>2, <2>4, <2>5, <2>6
  <1>3. CASE /\ at \in 1..Len(idle) /\ idle' = idle
             /\ reaper' = [pc |-> "killing", before |-> before, at |-> at + 1,
                           pid |-> idle[at].pid, still |-> <<>>]
    <2>1. PoolInv' /\ HoldInv' /\ (LeadInv => LeadInv')
      BY <1>3, SMT DEF PoolInv, Ordered, HoldInv, LeadInv, InPool
    <2>2. ASSUME ~overlap
          PROVE  SweepInv'
      <3>1. reaper'.at - 1 = at /\ reaper'.at - 2 = at - 1 /\ reaper'.pid = idle[at].pid
            /\ reaper'.pc = "killing"
        BY <1>3, SMT
      <3>2. \A i \in 1..(at - 1) : proc[idle[i].pid] = "down"
        BY <1>0, <1>3, <2>2, SMT DEF Passed
      <3>3. Stands(reaper)'
        BY <1>3, <3>1, <3>2 DEF Stands
      <3> QED
        BY <1>0, <3>3 DEF SweepInv, Stands, Suspended
    <2> QED
      BY <1>1, <2>1, <2>2
  <1> QED
    BY <1>0, <1>2, <1>3, ScanStep

\* The kill of a suspended iteration is done.
LEMMA SweepKillBooks ==
  ASSUME Types, Books, NEW p \in 0..MaxPid, Kill(p),
         UNCHANGED <<clock, pc, own, idle, overlap>>
  PROVE  /\ PoolInv' /\ HoldInv' /\ WorkerInv' /\ (LeadInv => LeadInv')
         /\ \A q \in Pids : proc[q] = "down" => proc'[q] = "down"
         /\ p \in Pids => proc'[p] = "down"
  <1>1. CASE p \in Pids
    <2>1. proc' = [proc EXCEPT ![p] = "down"]
      BY <1>1 DEF Kill
    <2>2. proc'[p] = "down" /\ \A q \in Pids : proc[q] = "down" => proc'[q] = "down"
      BY <1>1, <2>1 DEF Types
    <2> QED
      BY <1>1, <2>1, <2>2, DownKeeps
  <1>2. CASE p \notin Pids
    <2>1. proc' = proc
      BY <1>2 DEF Kill
    <2> QED
      BY <1>2, <2>1, SMT DEF Books, PoolInv, Ordered, HoldInv, WorkerInv, LeadInv, InPool
  <1> QED
    BY <1>1, <1>2

LEMMA ReaperBooks ==
  ASSUME Types, Books, ReaperWakes \/ ReaperKills \/ ReaperResumes
  PROVE  Books'
  <1> USE DEF Books
  <1>1. CASE ReaperWakes
    <2>1. PICK before \in 1..clock : Scan(before, 1, <<>>)
      BY <1>1 DEF ReaperWakes
    <2>2. before \in Nat /\ Passed(1)
      BY SMT DEF Passed, Types
    <2> QED
      BY <1>1, <2>1, <2>2, ScanBooks, SMT DEF ReaperWakes
  <1>2. CASE ReaperKills
    <2>1. /\ UNCHANGED <<clock, pc, own, idle, shut, overlap>> /\ Kill(reaper.pid)
          /\ reaper.pc = "killing" /\ reaper'.pc = "killed"
          /\ reaper'.at = reaper.at /\ reaper'.pid = reaper.pid
      BY <1>2 DEF ReaperKills, Types
    <2>2. /\ PoolInv' /\ HoldInv' /\ WorkerInv' /\ (LeadInv => LeadInv')
          /\ \A q \in Pids : proc[q] = "down" => proc'[q] = "down"
          /\ reaper.pid \in Pids => proc'[reaper.pid] = "down"
      BY <2>1, SweepKillBooks, SweepTypes
    <2>3. TurnInv'
      BY <2>1 DEF TurnInv
    <2>4. ASSUME SweepInv
          PROVE  SweepInv'
      <3>1. /\ reaper.at - 1 \in 1..Len(idle)
            /\ idle[reaper.at - 1].pid = reaper.pid
            /\ \A i \in 1..(reaper.at - 2) : i \in 1..Len(idle) /\ proc'[idle[i].pid] = "down"
        BY <2>1, <2>2, <2>4, SweepTypes, StandsOn DEF SweepInv, Suspended
      <3>2. proc'[reaper.pid] = "down"
        BY <2>2, <3>1, IdleTypes
      <3>3. Stands(reaper)'
        BY <2>1, <3>1, <3>2 DEF Stands
      <3>4. Stands(shut)'
        BY <2>1, <2>2, <2>4, SweepTypes, StandsOn DEF SweepInv, Stands, Suspended
      <3> QED
        BY <3>3, <3>4 DEF SweepInv
    <2> QED
      BY <2>1, <2>2, <2>3, <2>4
  <1>3. CASE ReaperResumes
    <2>1. ~overlap => Passed(reaper.at)
      BY <1>3, SweepTypes, KilledPassed DEF ReaperResumes, SweepInv
    <2> QED
      BY <1>3, <2>1, SweepTypes, ScanBooks DEF ReaperResumes
  <1> QED
    BY <1>1, <1>2, <1>3

LEMMA ShutBooks ==
  ASSUME Types, Books, Shutdown \/ ShutKills \/ ShutResumes \/ Leave
  PROVE  Books'
  <1> USE DEF Books
  <1>1. ASSUME NEW at \in Nat \ {0}, ShutNext(at), ~overlap => Passed(at),
               UNCHANGED <<clock, pc, own, proc, overlap>>, reaper'.pc = "cancelled"
        PROVE  Books'
    <2>0. Len(idle) \in Nat
      BY SMT DEF Types
    <2>1. WorkerInv' /\ TurnInv'
      BY <1>1 DEF WorkerInv, TurnInv
    <2>2. CASE at <= Len(idle)
      <3>1. /\ at \in 1..Len(idle) /\ idle' = idle
            /\ shut' = [pc |-> "killing", at |-> at + 1, pid |-> idle[at].pid]
        BY <1>1, <2>0, <2>2, SMTT(20) DEF ShutNext
      <3>2. PoolInv' /\ HoldInv' /\ (LeadInv => LeadInv')
        BY <1>1, <3>1, SMT DEF PoolInv, Ordered, HoldInv, LeadInv, InPool
      <3>3. ASSUME ~overlap
            PROVE  SweepInv'
        <4>1. shut'.at - 1 = at /\ shut'.at - 2 = at - 1 /\ shut'.pid = idle[at].pid
              /\ shut'.pc = "killing"
          BY <3>1, SMT
        <4>2. \A i \in 1..(at - 1) : proc[idle[i].pid] = "down"
          BY <1>1, <2>0, <3>1, <3>3, SMT DEF Passed
        <4>3. Stands(shut)'
          BY <1>1, <3>1, <4>1, <4>2 DEF Stands
        <4> QED
          BY <1>1, <4>3 DEF SweepInv, Stands, Suspended
      <3> QED
        BY <1>1, <2>1, <3>2, <3>3
    <2>3. CASE ~(at <= Len(idle))
      <3>1. idle' = <<>> /\ shut' = [pc |-> "stopped", at |-> 1, pid |-> 0]
        BY <1>1, <2>3 DEF ShutNext
      <3>2. Len(idle') = 0 /\ InPool' = {}
        BY <3>1, SMTT(20) DEF InPool
      <3>3. PoolInv' /\ HoldInv'
        BY <1>1, <3>2, SMT DEF PoolInv, Ordered, HoldInv
      <3>4. ASSUME ~overlap
            PROVE  LeadInv'
        <4>1. \A p \in InPool : proc[p] = "down"
          BY <1>1, <2>0, <2>3, <3>4, SMT DEF Passed, InPool
        <4> QED
          BY <1>1, <3>4, <4>1 DEF LeadInv
      <3>5. SweepInv'
        BY <1>1, <3>1 DEF SweepInv, Stands, Suspended
      <3> QED
        BY <1>1, <2>1, <3>3, <3>4, <3>5
    <2> QED
      BY <2>2, <2>3
  <1>2. CASE Shutdown
    <2>1. reaper'.pc = "cancelled" /\ Passed(1)
      BY <1>2, SMT DEF Shutdown, Asleep, Passed
    <2> QED
      BY <1>1, <1>2, <2>1, SMT DEF Shutdown
  <1>3. CASE ShutKills
    <2>1. /\ UNCHANGED <<clock, pc, own, idle, reaper, overlap>> /\ Kill(shut.pid)
          /\ shut.pc = "killing" /\ shut'.pc = "killed"
          /\ shut'.at = shut.at /\ shut'.pid = shut.pid
      BY <1>3 DEF ShutKills, Types
    <2>2. /\ PoolInv' /\ HoldInv' /\ WorkerInv' /\ (LeadInv => LeadInv')
          /\ \A q \in Pids : proc[q] = "down" => proc'[q] = "down"
          /\ shut.pid \in Pids => proc'[shut.pid] = "down"
      BY <2>1, SweepKillBooks, SweepTypes
    <2>3. TurnInv'
      BY <2>1 DEF TurnInv
    <2>4. ASSUME SweepInv
          PROVE  SweepInv'
      <3>1. /\ shut.at - 1 \in 1..Len(idle)
            /\ idle[shut.at - 1].pid = shut.pid
            /\ \A i \in 1..(shut.at - 2) : i \in 1..Len(idle) /\ proc'[idle[i].pid] = "down"
        BY <2>1, <2>2, <2>4, SweepTypes, StandsOn DEF SweepInv, Suspended
      <3>2. proc'[shut.pid] = "down"
        BY <2>2, <3>1, IdleTypes
      <3>3. Stands(shut)'
        BY <2>1, <3>1, <3>2 DEF Stands
      <3>4. Stands(reaper)'
        BY <2>1, <2>2, <2>4, SweepTypes, StandsOn DEF SweepInv, Stands, Suspended
      <3> QED
        BY <3>3, <3>4 DEF SweepInv
    <2> QED
      BY <2>1, <2>2, <2>3, <2>4
  <1>4. CASE ShutResumes
    <2>1. ~overlap => Passed(shut.at)
      BY <1>4, SweepTypes, KilledPassed DEF ShutResumes, SweepInv
    <2>2. reaper'.pc = "cancelled"
      BY <1>4 DEF ShutResumes, TurnInv
    <2> QED
      BY <1>1, <1>4, <2>1, <2>2, SweepTypes DEF ShutResumes
  <1>5. CASE Leave
    <2>1. /\ UNCHANGED <<clock, pc, own, idle, reaper, proc, overlap>>
          /\ shut.pc = "stopped" /\ shut'.pc = "gone"
      BY <1>5 DEF Leave, Types
    <2>2. PoolInv' /\ HoldInv' /\ WorkerInv' /\ TurnInv' /\ (LeadInv => LeadInv')
      BY <2>1, SMT DEF PoolInv, Ordered, HoldInv, WorkerInv, TurnInv, LeadInv, InPool
    <2>3. SweepInv => SweepInv'
      BY <2>1 DEF SweepInv, Stands, Suspended
    <2> QED
      BY <2>1, <2>2, <2>3
  <1> QED
    BY <1>2, <1>3, <1>4, <1>5

LEMMA ExitBooks ==
  ASSUME Types, Books, NEW p \in Pids, ProcExit(p)
  PROVE  Books'
  <1>1. proc' = [proc EXCEPT ![p] = "down"] /\ UNCHANGED <<clock, pc, own, idle, reaper, shut, overlap>>
    BY DEF ProcExit, Sweeps
  <1>2. /\ PoolInv' /\ HoldInv' /\ WorkerInv'
        /\ LeadInv => LeadInv'
    BY <1>1, DownKeeps
  <1>3. \A q \in Pids : proc[q] = "down" => proc'[q] = "down"
    BY <1>1 DEF Types
  <1>4. SweepInv => SweepInv'
    BY <1>1, <1>3, SweepOn
  <1>5. TurnInv'
    BY <1>1 DEF Books, TurnInv
  <1> QED
    BY <1>1, <1>2, <1>4, <1>5 DEF Books

-----------------------------------------------------------------------------
(* The theorems *)

LEMMA QueenInit == Init => QueenInv
  <1> SUFFICES ASSUME Init PROVE QueenInv
    OBVIOUS
  <1> USE DEF Init
  <1>1. /\ IdleLeads \in Nat /\ 1..IdleLeads \subseteq Pids /\ MaxHistory \in Nat
        /\ \A i \in 1..IdleLeads : i - 1 \in Nat
    BY QueenAssumption, SMT DEF Pids
  <1>2. idle \in [1..IdleLeads -> IdleRec]
    BY <1>1 DEF IdleRec
  <1>3. idle \in Seq(IdleRec) /\ Len(idle) = IdleLeads
    BY <1>1, <1>2, SMT
  <1>4. \A i \in 1..Len(idle) : idle[i].pid = i /\ idle[i].since = i - 1
    BY <1>3
  <1>5. history \in Seq(Entry) /\ Len(history) <= MaxHistory
    <2>1. history \in Seq(Entry) /\ Len(history) = 0
      BY SMT
    <2> QED
      BY <1>1, <2>1, SMT
  <1>6. /\ pc \in [Tasks -> PCs] /\ text \in [Tasks -> Descriptions]
        /\ strategy \in [Tasks -> Strategies] /\ answer \in [Tasks -> {"none", "ok", "error"}]
    BY DEF PCs, Descriptions, Strategies
  <1>7. /\ own \in [Tasks -> 0..MaxPid] /\ clock \in Nat
        /\ proc \in [Pids -> Roles \cup {"none", "down"}]
    BY <1>1, Bounds DEF Roles
  <1>8. /\ reaper \in [pc : {"asleep", "killing", "killed", "cancelled"}, before : Nat,
                       at : Nat \ {0}, pid : 0..MaxPid, still : {<<>>}]
        /\ shut \in [pc : {"none", "killing", "killed", "stopped", "gone"},
                     at : Nat \ {0}, pid : 0..MaxPid]
    BY Bounds, SMT DEF Asleep
  <1>9. Types
    BY <1>3, <1>5, <1>6, <1>7, <1>8 DEF Types
  <1>10. PoolInv
    BY <1>1, <1>3, <1>4, SMT DEF PoolInv, Ordered
  <1>11. HoldInv /\ WorkerInv /\ TurnInv
    BY DEF HoldInv, WorkerInv, TurnInv, Holding, AtWork
  <1>12. LeadInv
    <2> SUFFICES ASSUME NEW p \in Pids, proc[p] = "lead" PROVE p \in InPool
      BY DEF LeadInv
    <2>1. p \in 1..Len(idle)
      BY <1>1, <1>3, SMT DEF Pids
    <2> QED
      BY <1>4, <2>1 DEF InPool
  <1>13. SweepInv
    BY DEF SweepInv, Stands, Suspended, Asleep
  <1> QED
    BY <1>9, <1>10, <1>11, <1>12, <1>13 DEF QueenInv, Books

LEMMA QueenNext == QueenInv /\ [Next]_vars => QueenInv'
  <1> SUFFICES ASSUME QueenInv, [Next]_vars PROVE QueenInv'
    OBVIOUS
  <1>0. Types /\ Books /\ PoolInv /\ HoldInv
    BY DEF QueenInv, Books
  <1>1. ASSUME NEW t \in Tasks, Receive(t) \/ TaskStep(t) PROVE QueenInv'
    BY <1>0, <1>1, TaskTypes, TaskBooks DEF QueenInv
  <1>2. CASE ReaperWakes \/ ReaperKills \/ ReaperResumes
    BY <1>0, <1>2, ReaperTypes, ReaperBooks DEF QueenInv
  <1>3. CASE Shutdown \/ ShutKills \/ ShutResumes \/ Leave
    BY <1>0, <1>3, ShutTypes, ShutBooks DEF QueenInv
  <1>4. ASSUME NEW p \in Pids, ProcExit(p) PROVE QueenInv'
    BY <1>0, <1>4, ShutTypes, ExitBooks DEF QueenInv
  <1>5. CASE UNCHANGED vars
    <2>1. Types'
      BY <1>0, <1>5 DEF vars, Types
    <2>2. PoolInv' /\ HoldInv' /\ WorkerInv' /\ TurnInv' /\ (LeadInv => LeadInv')
      BY <1>0, <1>5, SMT DEF vars, Books, PoolInv, Ordered, HoldInv, WorkerInv, TurnInv, LeadInv, InPool
    <2>3. SweepInv => SweepInv'
      BY <1>5 DEF vars, SweepInv, Stands, Suspended
    <2>4. overlap' = overlap
      BY <1>5 DEF vars
    <2> QED
      BY <1>0, <2>1, <2>2, <2>3, <2>4 DEF QueenInv, Books
  <1> QED
    BY <1>1, <1>2, <1>3, <1>4, <1>5 DEF Next

\* The dispatcher's books are in order: the pool is sorted by release, each
\* lead is in it once or held by one task, and an iteration no pop has met
\* stands behind leads that are all down (queen.py, _acquire_lead,
\* _release_lead, _lead_reaper and on_shutdown).
THEOREM QueenInvariant == Spec => []QueenInv
  BY QueenInit, QueenNext, PTL DEF Spec

\* The variables of the dispatcher stay in their types; the history never
\* exceeds MAX_HISTORY.
THEOREM QueenTypes == Spec => []TypeOK
  <1>1. QueenInv => TypeOK
    <2> SUFFICES ASSUME QueenInv PROVE TypeOK
      OBVIOUS
    <2>0. Types /\ PoolInv
      BY DEF QueenInv, Books
    <2>1. ASSUME NEW i \in 1..Len(idle)
          PROVE  idle[i] \in [pid : Pids, since : 0..(clock - 1)]
      <3>1. idle[i] \in IdleRec /\ idle[i].since < clock /\ clock \in Nat
        BY <2>0, SMT DEF Types, PoolInv
      <3>2. idle[i].since \in Nat
        BY <3>1 DEF IdleRec
      <3>3. idle[i].since \in 0..(clock - 1)
        BY <3>1, <3>2, SMT
      <3> QED
        BY <3>1, <3>3 DEF IdleRec
    <2> QED
      BY <2>0, <2>1 DEF Types, TypeOK
  <1> QED
    BY <1>1, QueenInvariant, PTL

\* A lead works for one task at a time, and is not in the pool while it works:
\* two tasks never get the same lead, whatever the reaper writes back
\* (queen.py, _acquire_lead and _lead_reaper).
THEOREM LeadsAreExclusive == Spec => []LeadExclusive
  <1>1. QueenInv => LeadExclusive
    <2> SUFFICES ASSUME QueenInv, NEW t \in Tasks, pc[t] \in Busy, own[t] # 0
                 PROVE  /\ own[t] \notin InPool
                        /\ \A u \in Tasks : pc[u] \in Busy /\ own[u] = own[t] => u = t
      BY DEF LeadExclusive
    <2>1. \A u \in Tasks : pc[u] \in Busy /\ own[u] # 0 => pc[u] \in Holding
      BY DEF QueenInv, Books, HoldInv, Busy, Holding, Empty
    <2> QED
      BY <2>1 DEF QueenInv, Books, HoldInv
  <1> QED
    BY <1>1, QueenInvariant, PTL

\* No lead or worker that lives is forgotten as long as no task takes a lead
\* while the reaper or on_shutdown waits for a kill (queen.py, _lead_reaper).
THEOREM LeadsAreKept == Spec => []NoLeadLost
  <1>1. QueenInv => NoLeadLost
    <2>1. "done" \notin Holding /\ "done" \notin AtWork
      BY DEF Holding, AtWork
    <2> QED
      BY <2>1 DEF QueenInv, Books, LeadInv, WorkerInv, NoLeadLost
  <1> QED
    BY <1>1, QueenInvariant, PTL

\* On the same condition on_shutdown has killed every lead of the pool when it
\* clears the list (queen.py, on_shutdown).
THEOREM ShutdownIsThorough == Spec => ShutdownKillsIdle
  <1>1. ASSUME QueenInv, [Next]_vars
        PROVE  [shut.pc = "killed" /\ shut'.pc = "stopped" /\ ~overlap =>
                   \A i \in 1..Len(idle) : proc[idle[i].pid] = "down"]_vars
    <2> SUFFICES ASSUME Next, shut.pc = "killed", shut'.pc = "stopped", ~overlap
                 PROVE  \A i \in 1..Len(idle) : proc[idle[i].pid] = "down"
      BY <1>1
    <2>0. Types /\ SweepInv /\ Len(idle) \in Nat
      BY <1>1, SMT DEF QueenInv, Books, Types
    <2>1. Passed(shut.at)
      BY <2>0, SweepTypes, KilledPassed DEF SweepInv
    <2>2. ShutResumes
      <3>1. ASSUME NEW t \in Tasks, Receive(t) \/ TaskStep(t) PROVE shut' = shut
        BY <3>1 DEF TaskStep, Receive, AssessComplexity, SpawnWorker, Work, KillWorker,
           SpawnArchitect, Plan, AcquireLead, CheckLead, SpawnLead, LeadDone, LeadFails,
           KillLead, Reply, Sweeps
      <3>2. CASE ReaperWakes \/ ReaperKills \/ ReaperResumes \/ \E p \in Pids : ProcExit(p)
        BY <3>2 DEF ReaperWakes, ReaperKills, ReaperResumes, ProcExit, Sweeps
      <3> QED
        BY <3>1, <3>2 DEF Next, Shutdown, ShutKills, Leave
    <2>3. shut.at > Len(idle)
      BY <2>0, <2>2, SweepTypes, SMT DEF ShutResumes, ShutNext
    <2> QED
      BY <2>0, <2>1, <2>3, SweepTypes, SMT DEF Passed
  <1> QED
    BY <1>1, QueenInvariant, PTL DEF Spec, ShutdownKillsIdle
=============================================================================
