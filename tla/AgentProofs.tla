---------------------------- MODULE AgentProofs ----------------------------
(***************************************************************************)
(* Proofs about an agent's mailbox, for any number of requests and of      *)
(* copies of a reply, and about two agents that have it: the one that      *)
(* executes a task over a stream, with the order and the number of the     *)
(* messages on it, and the chat assistant, for any number of turns and     *)
(* delegations: no accepted result is lost, and a delegation reported as   *)
(* timed out has not been answered before. Each uses its mailbox as        *)
(* Mailbox says, so it has the mailbox's properties.                       *)
(***************************************************************************)
EXTENDS HiveAgent, Assistant, TLAPS

\* A step is first-order unless it names SMT, for arithmetic and sequences.
USE Zenon

-----------------------------------------------------------------------------
(* The mailbox: the inductive invariant MailInv, the two invariants that   *)
(* follow from it, and the refinement of RequestReply.                     *)

\* How far a request has come in the kernel. A reply exists only for a request
\* that has been made, and only a reply is kept.
NetInv ==
    \A r \in Requests :
        /\ call[r] = "new" => r \notin routed
        /\ r \notin routed => style[r] = "none"
        /\ style[r] = "none" => copies[r] = 0 /\ r \notin results /\ r \notin accepted

\* The coroutine, its future and the register agree about a request that waits
\* for its reply.
WaitInv ==
    \A r \in Waiting :
        /\ call[r] # "posted"
        /\ call[r] = "new" => fut[r] = "open" /\ r \notin pending
        /\ call[r] \in {"sending", "waiting"} /\ fut[r] = "open" => r \in pending
        /\ call[r] = "replied" => fut[r] = "set"
        /\ call[r] = "timedout" => fut[r] = "cancelled"
        /\ fut[r] = "cancelled" => call[r] \in {"waiting", "cancelled", "timedout"}
        /\ fut[r] = "set" => r \notin pending /\ r \in accepted
        /\ r \in accepted /\ fut[r] = "open" => call[r] \in {"raised", "cancelled"}

\* A posted request has no future.
PostInv ==
    \A r \in Posted : fut[r] = "open" /\ call[r] \in {"new", "sending", "posted", "raised", "cancelled"}

MailInv == MailTypeOK /\ NoStaleEntry /\ NetInv /\ WaitInv /\ PostInv

MailStep(r) ==
    \/ Call(r) \/ Post(r) \/ SendReturns(r) \/ SendRaises(r) \/ Cancel(r)
    \/ Return(r) \/ Expire(r) \/ TimedOut(r)
    \/ Route(r) \/ PeerReplies(r) \/ Lose(r) \/ OnMessage(r)

\* MailInit establishes the invariant.
LEMMA MailInitInv == MailInit => MailInv
BY MailboxAssumption, SMT DEF MailInit, MailInv, MailTypeOK, NoStaleEntry, NetInv, WaitInv, PostInv, Requests

\* Every step of a request keeps the types; a copy counted down was there.
LEMMA MailTypeStep ==
    ASSUME MailTypeOK, NEW r \in Requests, MailStep(r)
    PROVE  MailTypeOK'
<1> USE MailboxAssumption DEF MailTypeOK, Requests, net
<1>1. CASE Call(r) \/ Post(r) \/ SendReturns(r) \/ SendRaises(r)
  BY <1>1 DEF Call, Post, SendReturns, SendRaises
<1>2. CASE Cancel(r)
  BY <1>2 DEF Cancel
<1>3. CASE Return(r) \/ Expire(r) \/ TimedOut(r)
  BY <1>3 DEF Return, Expire, TimedOut
<1>4. CASE Route(r)
  BY <1>4 DEF Route
<1>5. CASE PeerReplies(r)
  BY <1>5, SMT DEF PeerReplies
<1>6. CASE Lose(r)
  BY <1>6, SMT DEF Lose
<1>7. CASE OnMessage(r)
  BY <1>7, SMT DEF OnMessage, Resolve, Stash
<1> QED BY <1>1, <1>2, <1>3, <1>4, <1>5, <1>6, <1>7 DEF MailStep

\* One request's step keeps the invariant of every request.
LEMMA MailStepInv ==
    ASSUME MailInv, NEW r \in Requests, MailStep(r)
    PROVE  MailInv'
<1> USE MailboxAssumption DEF MailInv, MailTypeOK, Requests, net
<1>0. MailTypeOK'
  BY MailTypeStep
<1>1. NoStaleEntry'
  BY <1>0, SMTT(20) DEF MailStep, NoStaleEntry, Call, Post, SendReturns, SendRaises, Cancel, Return,
         Expire, TimedOut, Route, PeerReplies, Lose, OnMessage, Resolve, Stash, WaitInv
<1>2. NetInv'
  BY <1>0, SMT DEF MailStep, NetInv, Call, Post, SendReturns, SendRaises, Cancel, Return,
         Expire, TimedOut, Route, PeerReplies, Lose, OnMessage, Resolve, Stash
<1>3. WaitInv'
  BY <1>0, SMT DEF MailStep, NetInv, WaitInv, NoStaleEntry, Call, Post, SendReturns, SendRaises,
         Cancel, Return, Expire, TimedOut, Route, PeerReplies, Lose, OnMessage, Resolve, Stash
<1>4. PostInv'
  BY <1>0, SMT DEF MailStep, PostInv, Call, Post, SendReturns, SendRaises, Cancel, Return,
         Expire, TimedOut, Route, PeerReplies, Lose, OnMessage, Resolve, Stash
<1> QED BY <1>0, <1>1, <1>2, <1>3, <1>4

\* A step of the mailbox, or none, keeps the invariant.
LEMMA MailNextInv == MailInv /\ [MailNext]_mailVars => MailInv'
<1> SUFFICES ASSUME MailInv, [MailNext]_mailVars
             PROVE  MailInv'
  OBVIOUS
<1>1. CASE \E r \in Requests : MailStep(r)
  BY <1>1, MailStepInv
<1>2. CASE Drain
  BY <1>2 DEF Drain, net, MailInv, MailTypeOK, NoStaleEntry, NetInv, WaitInv, PostInv
<1>3. CASE UNCHANGED mailVars
  BY <1>3 DEF mailVars, MailInv, MailTypeOK, NoStaleEntry, NetInv, WaitInv, PostInv
<1> QED BY <1>1, <1>2, <1>3 DEF MailNext, MailStep

\* The mailbox always satisfies its inductive invariant.
THEOREM MailboxInvariant == MailSpec => []MailInv
BY MailInitInv, MailNextInv, PTL DEF MailSpec

\* A request that was answered or timed out leaves no entry in
\* _pending_requests (agent.py, send_and_wait and on_message).
THEOREM NothingStale == MailSpec => []NoStaleEntry
<1>1. MailInv => NoStaleEntry
  BY DEF MailInv
<1> QED BY <1>1, MailboxInvariant, PTL

\* A reply accepted by on_message reaches a caller that has not given up.
THEOREM AcceptedIsSeen == MailSpec => []AcceptedReachesCaller
<1>1. MailInv => AcceptedReachesCaller
  BY DEF MailInv, MailTypeOK, WaitInv, AcceptedReachesCaller, GaveUp, Requests
<1> QED BY <1>1, MailboxInvariant, PTL

-----------------------------------------------------------------------------
(* The refinement *)

SameKept(r) == r \in Kept' <=> r \in Kept

Moves(r, from, to) == Status(r) \in from /\ Status(r)' = to /\ SameKept(r)

\* A step of one request is not seen at another.
LEMMA OthersUnseen ==
    ASSUME MailInv, NEW r \in Requests, MailStep(r), NEW q \in Requests, q # r
    PROVE  Status(q)' = Status(q) /\ SameKept(q)
BY SMTT(30) DEF MailInv, MailTypeOK, MailStep, Call, Post, SendReturns, SendRaises, Cancel, Return, Expire,
       TimedOut, Route, PeerReplies, Lose, OnMessage, Resolve, Stash, net, Status, GaveUp, SameKept, Kept

\* What a step of a request is at that request in the abstract specification.
LEMMA SeenAs ==
    ASSUME MailInv, NEW r \in Requests, MailStep(r)
    PROVE  \/ Moves(r, {Status(r)}, Status(r))
           \/ Moves(r, {"new"}, "open") \/ Moves(r, {"new"}, "posted")
           \/ Moves(r, {"open"}, "answered") \/ Moves(r, {"open", "answered"}, "over")
           \/ /\ Status(r) \in {"answered", "over", "posted"} /\ Status(r)' = Status(r)
              /\ r \in Kept'
<1> USE MailboxAssumption DEF MailInv, MailTypeOK, Requests, Status, GaveUp, Moves, SameKept, Kept, net
<1>1. CASE Call(r)
  BY <1>1 DEF Call, WaitInv, NetInv
<1>2. CASE Post(r)
  BY <1>2 DEF Post, PostInv
<1>3. CASE SendReturns(r)
  BY <1>3 DEF SendReturns, WaitInv, PostInv
<1>4. CASE SendRaises(r)
  BY <1>4 DEF SendRaises, WaitInv
<1>5. CASE Cancel(r)
  BY <1>5 DEF Cancel, WaitInv
<1>6. CASE Return(r)
  BY SMTT(30), <1>6 DEF Return, WaitInv, PostInv
<1>7. CASE Expire(r)
  BY SMTT(30), <1>7 DEF Expire, WaitInv, PostInv
<1>8. CASE TimedOut(r)
  BY SMTT(30), <1>8 DEF TimedOut, WaitInv, PostInv
<1>9. CASE Route(r) \/ Lose(r)
  BY <1>9 DEF Route, Lose
<1>10. CASE PeerReplies(r)
  BY SMTT(30), <1>10 DEF PeerReplies, NetInv
<1>11. CASE OnMessage(r)
  <2>1. call[r] # "new" /\ style[r] # "none"
    BY SMTT(30), <1>11 DEF OnMessage, NetInv
  <2>2. CASE style[r] = "echo" /\ r \in pending
    BY SMTT(30), <1>11, <2>1, <2>2 DEF OnMessage, Resolve, WaitInv, NoStaleEntry
  <2>3. CASE ~(style[r] = "echo" /\ r \in pending)
    BY SMTT(30), <1>11, <2>1, <2>3 DEF OnMessage, Stash, WaitInv
  <2> QED BY <2>2, <2>3
<1> QED BY <1>1, <1>2, <1>3, <1>4, <1>5, <1>6, <1>7, <1>8, <1>9, <1>10, <1>11 DEF MailStep

\* A step of a request is a step of the abstract specification or stutters.
LEMMA StepRefines ==
    ASSUME MailInv, NEW r \in Requests, MailStep(r)
    PROVE  [Promise!RRNext]_(Promise!rrVars)
<1> DEFINE status == [q \in Requests |-> Status(q)]
<1>1. \A q \in Requests : q # r => Status(q)' = Status(q) /\ SameKept(q)
  BY OthersUnseen
<1>2. Kept \subseteq Requests /\ Kept' \subseteq Requests
  BY MailStepInv DEF Kept, MailInv, MailTypeOK
<1>3. ASSUME NEW from, NEW to, Moves(r, from, to)
      PROVE  status[r] \in from /\ status' = [status EXCEPT ![r] = to] /\ Kept' = Kept
  <2>1. Kept' = Kept
    BY <1>1, <1>2, <1>3, SMT DEF Moves, SameKept
  <2>2. \A q \in Requests : status'[q] = [status EXCEPT ![r] = to][q]
    BY <1>1, <1>3 DEF Moves
  <2> QED BY <2>1, <2>2, <1>3 DEF Moves
<1>4. CASE Moves(r, {Status(r)}, Status(r))
  <2>1. Kept' = Kept /\ \A q \in Requests : Status(q)' = Status(q)
    BY <1>1, <1>2, <1>4, SMT DEF Moves, SameKept
  <2>2. status' = status
    BY <2>1
  <2> QED BY <2>1, <2>2 DEF Promise!rrVars
<1>5. CASE Moves(r, {"new"}, "open") \/ Moves(r, {"new"}, "posted")
  BY <1>3, <1>5 DEF Promise!RRNext, Promise!Ask, Promise!Post, Promise!Become
<1>6. CASE Moves(r, {"open"}, "answered")
  BY <1>3, <1>6 DEF Promise!RRNext, Promise!Answer, Promise!Become
<1>7. CASE Moves(r, {"open", "answered"}, "over")
  BY <1>3, <1>7 DEF Promise!RRNext, Promise!GiveUp, Promise!Become
<1>8. CASE Status(r) \in {"answered", "over", "posted"} /\ Status(r)' = Status(r) /\ r \in Kept'
  <2>1. Kept' = Kept \cup {r}
    BY <1>1, <1>2, <1>8 DEF SameKept
  <2>2. \A q \in Requests : Status(q)' = Status(q)
    BY <1>1, <1>8
  <2>3. status' = status
    BY <2>2
  <2> QED BY <2>1, <2>3, <1>8 DEF Promise!RRNext, Promise!Keep
<1> QED BY <1>4, <1>5, <1>6, <1>7, <1>8, SeenAs

\* The mailbox implements RequestReply: a request is answered at most once and
\* by its own reply, and a reply is kept exactly when nobody waits for it
\* (agent.py, on_message, send_and_wait, drain_pending_results).
THEOREM MailboxKeepsPromise == MailSpec => KeepsPromise
<1>1. MailInit => Promise!RRInit
  BY DEF MailInit, Promise!RRInit, Status, Kept
<1>2. MailInv /\ [MailNext]_mailVars => [Promise!RRNext]_(Promise!rrVars)
  <2> SUFFICES ASSUME MailInv, [MailNext]_mailVars
               PROVE  [Promise!RRNext]_(Promise!rrVars)
    OBVIOUS
  <2>1. CASE \E r \in Requests : MailStep(r)
    BY <2>1, StepRefines
  <2>2. CASE Drain
    BY <2>2 DEF Drain, net, Kept, Status, GaveUp, Promise!RRNext, Promise!Collect
  <2>3. CASE UNCHANGED mailVars
    BY <2>3 DEF mailVars, Kept, Status, GaveUp, Promise!rrVars
  <2> QED BY <2>1, <2>2, <2>3 DEF MailNext, MailStep
<1> QED BY <1>1, <1>2, MailboxInvariant, PTL DEF MailSpec, KeepsPromise, Promise!RRSpec

-----------------------------------------------------------------------------
(* The agent *)

Syscalls == [kind : {"syscall"}, call : Requests]
Results  == [kind : {"completed", "failed"}]
EndMarks == [kind : {"none"}]
Written  == Syscalls \cup Results \cup EndMarks

Answers  == [kind : {"delivered", "refused"}, call : Requests]
Received == [kind : {"task"}] \cup Answers

Calls(q, n) == \A i \in 1..n : q[i].kind = "syscall"

\* Before the task is over only syscalls are queued and written. When it is
\* over, its result is in the queue, behind syscalls and before the end mark;
\* or it has been written and the end mark is what the writer takes next.
OrderInv ==
    /\ exec \in {"waiting", "running", "unwinding"} => Calls(out, Len(out)) /\ Calls(up, Len(up))
    /\ exec = "flushing" =>
          \/ /\ Calls(up, Len(up))
             /\ \E k \in 1..(Len(out) - 1) :
                   Calls(out, k - 1) /\ out[k] \in Results /\ out[k + 1] \in EndMarks
          \/ out # <<>> /\ out[1] \in EndMarks

\* The task is the first message from the kernel, and comes once.
TaskInv ==
    /\ down \in Seq(Received)
    /\ \A i \in 1..Len(down) : down[i].kind = "task" => i = 1 /\ exec \in {"waiting", "aborted"}
    /\ kernel = "idle" => exec = "waiting" /\ down = <<>>

StreamInv ==
    /\ exec \in {"waiting", "running", "flushing", "closed", "unwinding", "aborted", "exited"}
    /\ out \in Seq(Written) /\ up \in Seq(Written)
    /\ syscalls \subseteq Requests
    /\ TaskInv
    /\ OrderInv
    /\ ResultIsLast

\* Kinds tell the written messages apart.
LEMMA WrittenKinds ==
    \A m \in Written :
        /\ m.kind = "syscall" => m.call \in Requests
        /\ m.kind = "none" <=> m \in EndMarks
        /\ m.kind \in {"completed", "failed"} <=> m \in Results
BY DEF Written, Syscalls, Results, EndMarks

\* Init establishes the order.
LEMMA StreamInitInv == Init => StreamInv
BY SMT DEF Init, StreamInv, TaskInv, OrderInv, Calls, ResultIsLast

\* Another syscall is queued.
LEMMA DoSyscallInv ==
    ASSUME StreamInv, NEW r \in Requests, DoSyscall(r)
    PROVE  StreamInv'
<1> DEFINE m == Msg("syscall", r)
<1>1. m \in Written /\ m.kind = "syscall"
  BY DEF Msg, Written, Syscalls
<1>2. out' = Append(out, m) /\ out' \in Seq(Written) /\ Len(out') = Len(out) + 1
  BY <1>1, SMT DEF DoSyscall, StreamInv
<1>3. \A i \in 1..Len(out) : out'[i] = out[i]
  BY <1>2, SMT DEF StreamInv
<1>4. out'[Len(out) + 1] = m
  BY <1>2, SMT DEF StreamInv
<1>5. exec' = exec /\ up' = up /\ syscalls' \subseteq Requests
  BY DEF DoSyscall, StreamInv
<1>6. OrderInv'
  BY <1>1, <1>2, <1>3, <1>4, <1>5, SMTT(20) DEF StreamInv, OrderInv, Calls
<1>7. ResultIsLast'
  BY <1>5 DEF StreamInv, ResultIsLast
<1>8. TaskInv'
  BY DEF DoSyscall, StreamInv, TaskInv
<1> QED BY <1>2, <1>5, <1>6, <1>7, <1>8 DEF StreamInv

\* The task ends.
LEMMA RunTaskEndsInv ==
    ASSUME StreamInv, RunTaskEnds
    PROVE  StreamInv'
<1>1. PICK kind \in {"completed", "failed"} : out' = out \o <<Plain(kind), Plain("none")>>
  BY DEF RunTaskEnds
<1> DEFINE a == Plain(kind)
           b == Plain("none")
<1>2. a \in Results /\ b \in EndMarks /\ a \in Written /\ b \in Written
  BY DEF Plain, Results, EndMarks, Written
<1>3. out \in Seq(Written) /\ <<a, b>> \in Seq(Written) /\ Len(<<a, b>>) = 2
  BY <1>2, SMT DEF StreamInv
<1>4. out' \in Seq(Written) /\ Len(out') = Len(out) + 2
  BY <1>1, <1>3, SMT
<1>5. \A i \in 1..Len(out) : out'[i] = out[i]
  BY <1>1, <1>3, SMT
<1>6. out'[Len(out) + 1] = a /\ out'[Len(out) + 2] = b
  BY <1>1, <1>3, SMT
<1>7. exec = "running" /\ exec' = "flushing" /\ up' = up /\ syscalls' = syscalls
  BY DEF RunTaskEnds
<1>8. OrderInv'
  <2>1. Calls(out', Len(out)) /\ Calls(up', Len(up'))
    BY <1>5, <1>7 DEF StreamInv, OrderInv, Calls
  <2>2. Len(out) + 1 \in 1..(Len(out') - 1)
    BY <1>3, <1>4, SMT
  <2>3. (Len(out) + 1) - 1 = Len(out) /\ (Len(out) + 1) + 1 = Len(out) + 2
    BY <1>3, SMT
  <2> QED BY <2>1, <2>2, <2>3, <1>2, <1>6, <1>7 DEF OrderInv
<1>9. ResultIsLast'
  BY <1>7 DEF StreamInv, ResultIsLast
<1>10. TaskInv'
  BY DEF RunTaskEnds, StreamInv, TaskInv
<1> QED BY <1>4, <1>7, <1>8, <1>9, <1>10 DEF StreamInv

\* The writer takes the next message.
LEMMA StreamWriterInv ==
    ASSUME StreamInv, StreamWriter
    PROVE  StreamInv'
<1> DEFINE m == out[1]
<1>1. /\ out \in Seq(Written) /\ out # <<>> /\ Head(out) = m /\ m \in Written
      /\ out' = Tail(out) /\ syscalls' = syscalls
  BY SMT DEF StreamWriter, StreamInv
<1>2. out' \in Seq(Written) /\ Len(out') = Len(out) - 1 /\ Len(out) \in Nat \ {0}
  BY <1>1, SMT
<1>3. \A i \in 1..Len(out') : out'[i] = out[i + 1]
  BY <1>1, <1>2, SMT
<1>t. TaskInv'
  BY DEF StreamWriter, StreamInv, TaskInv
<1>4. CASE m.kind = "none"
  <2>1. exec' = "closed" /\ up' = up
    BY <1>1, <1>4 DEF StreamWriter
  <2> QED BY <2>1, <1>1, <1>2, <1>t DEF StreamInv, OrderInv, ResultIsLast
<1>5. CASE m.kind # "none"
  <2>1. exec' = exec /\ up' = Append(up, m) /\ exec \in {"running", "flushing"}
    BY <1>1, <1>5 DEF StreamWriter
  <2>2. up \in Seq(Written) /\ up' \in Seq(Written) /\ Len(up') = Len(up) + 1
    BY <1>1, <2>1, SMT DEF StreamInv
  <2>3. (\A i \in 1..Len(up) : up'[i] = up[i]) /\ up'[Len(up) + 1] = m
    BY <2>1, <2>2, SMT
  <2>4. m \notin EndMarks
    BY <1>1, <1>5, WrittenKinds
  <2>5. Calls(up, Len(up))
    BY <2>1, <2>4 DEF StreamInv, OrderInv
  <2>6. ResultIsLast'
    BY <2>2, <2>3, <2>5, SMT DEF ResultIsLast, Calls
  <2>7. CASE exec = "running"
    <3>1. Calls(out', Len(out')) /\ m.kind = "syscall"
      BY <2>7, <1>1, <1>2, <1>3, SMT DEF StreamInv, OrderInv, Calls
    <3>2. Calls(up', Len(up'))
      BY <3>1, <2>2, <2>3, <2>5, SMT DEF Calls
    <3>3. OrderInv'
      BY <3>1, <3>2, <2>1, <2>7 DEF OrderInv
    <3> QED BY <3>3, <2>1, <2>2, <2>6, <1>1, <1>2, <1>t DEF StreamInv
  <2>8. CASE exec = "flushing"
    <3>1. PICK k \in 1..(Len(out) - 1) :
             Calls(out, k - 1) /\ out[k] \in Results /\ out[k + 1] \in EndMarks
      BY <2>8, <2>4 DEF StreamInv, OrderInv
    <3>2. CASE k = 1
      <4>1. out' # <<>> /\ out'[1] \in EndMarks
        BY <3>1, <3>2, <1>2, <1>3, SMT
      <4>2. OrderInv'
        BY <4>1, <2>1, <2>8 DEF OrderInv
      <4> QED BY <4>2, <2>1, <2>2, <2>6, <1>1, <1>2, <1>t DEF StreamInv
    <3>3. CASE k # 1
      <4>1. m.kind = "syscall"
        BY <3>1, <3>3, SMT DEF Calls
      <4>2. Calls(up', Len(up'))
        BY <4>1, <2>2, <2>3, <2>5, SMT DEF Calls
      <4>3. k - 1 \in 1..(Len(out') - 1) /\ (k - 1) + 1 = k
        BY <3>1, <3>3, <1>2, SMT
      <4>4. Calls(out', (k - 1) - 1) /\ out'[k - 1] \in Results /\ out'[k] \in EndMarks
        <5>1. \A i \in 1..((k - 1) - 1) : i \in 1..Len(out') /\ i + 1 \in 1..(k - 1)
          BY <4>3, <3>1, <1>2, SMT
        <5>2. out'[k - 1] = out[k] /\ out'[k] = out[k + 1]
          BY <4>3, <3>1, <1>2, <1>3, SMT
        <5>3. Calls(out', (k - 1) - 1)
          BY <5>1, <3>1, <1>3 DEF Calls
        <5> QED BY <5>2, <5>3, <3>1
      <4>5. OrderInv'
        BY <4>2, <4>3, <4>4, <2>1, <2>8 DEF OrderInv
      <4> QED BY <4>5, <2>1, <2>2, <2>6, <1>1, <1>2, <1>t DEF StreamInv
    <3> QED BY <3>2, <3>3
  <2> QED BY <2>1, <2>7, <2>8
<1> QED BY <1>4, <1>5

\* The kernel takes the next message.
LEMMA KernelLoopInv ==
    ASSUME StreamInv, KernelLoop
    PROVE  StreamInv'
<1>1. up \in Seq(Written) /\ up # <<>> /\ up' = Tail(up)
  BY DEF KernelLoop, StreamInv
<1>2. up' \in Seq(Written) /\ Len(up') = Len(up) - 1 /\ Len(up) \in Nat \ {0}
  BY <1>1, SMT
<1>3. \A i \in 1..Len(up') : up'[i] = up[i + 1]
  BY <1>1, <1>2, SMT
<1>4. UNCHANGED <<exec, out, syscalls>>
  BY DEF KernelLoop
<1>5. OrderInv'
  <2>1. Calls(up, Len(up)) => Calls(up', Len(up'))
    BY <1>2, <1>3, SMT DEF Calls
  <2>2. ASSUME NEW n PROVE Calls(out', n) = Calls(out, n)
    BY <1>4 DEF Calls
  <2> QED BY <2>1, <2>2, <1>4 DEF StreamInv, OrderInv
<1>6. ResultIsLast'
  BY <1>2, <1>3, SMTT(20) DEF StreamInv, ResultIsLast
<1>7. TaskInv'
  <2>1. CASE Head(up).kind = "syscall"
    <3>1. Head(up) \in Written /\ Head(up).call \in Requests
      BY <1>1, <2>1, WrittenKinds, SMT
    <3>2. PICK m \in {Msg("delivered", Head(up).call), Msg("refused", Head(up).call)} :
             down' = Append(down, m)
      BY <2>1 DEF KernelLoop
    <3>3. m \in Received /\ m.kind # "task"
      BY <3>1, <3>2, SMT DEF Msg, Received, Answers
    <3>4. kernel' # "idle"
      BY <2>1 DEF KernelLoop
    <3>5. down \in Seq(Received)
      BY DEF StreamInv, TaskInv
    <3>6. down' \in Seq(Received) /\ Len(down') = Len(down) + 1
      BY <3>2, <3>3, <3>5, SMT
    <3>7. (\A i \in 1..Len(down) : down'[i] = down[i]) /\ down'[Len(down) + 1] = m
      BY <3>2, <3>3, <3>5, SMT
    <3>8. \A i \in 1..Len(down') : i = Len(down) + 1 \/ i \in 1..Len(down)
      BY <3>5, <3>6, SMT
    <3>9. \A i \in 1..Len(down') : down'[i].kind = "task" => i = 1 /\ exec' \in {"waiting", "aborted"}
      BY <3>3, <3>7, <3>8, <1>4 DEF StreamInv, TaskInv
    <3> QED BY <3>4, <3>6, <3>9 DEF TaskInv
  <2>2. CASE Head(up).kind # "syscall"
    BY <2>2, <1>4, SMT DEF KernelLoop, StreamInv, TaskInv
  <2> QED BY <2>1, <2>2
<1> QED BY <1>2, <1>4, <1>5, <1>6, <1>7 DEF StreamInv

\* The reader takes the next message.
LEMMA StreamReaderInv ==
    ASSUME StreamInv, StreamReader
    PROVE  StreamInv'
<1>1. down \in Seq(Received) /\ down # <<>> /\ down' = Tail(down) /\ Head(down) = down[1]
  BY SMT DEF StreamReader, StreamInv, TaskInv
<1>2. down' \in Seq(Received) /\ Len(down') = Len(down) - 1 /\ Len(down) \in Nat \ {0}
  BY <1>1, SMT
<1>3. \A i \in 1..Len(down') : down'[i] = down[i + 1]
  BY <1>1, <1>2, SMT
<1>4. \A i \in 1..Len(down') : down'[i].kind # "task"
  BY SMTT(30), <1>2, <1>3 DEF StreamInv, TaskInv
<1>5. exec' = exec \/ (exec = "waiting" /\ exec' = "running")
  BY <1>1, <1>2, SMT DEF StreamReader, StreamInv, TaskInv
<1>6. UNCHANGED <<out, up, kernel>> /\ syscalls' \subseteq Requests
  BY DEF StreamReader, StreamInv
<1>7. kernel # "idle"
  BY <1>1 DEF StreamReader, StreamInv, TaskInv
<1>8. TaskInv'
  BY <1>2, <1>4, <1>6, <1>7 DEF TaskInv
<1>9. OrderInv' /\ ResultIsLast'
  BY <1>5, <1>6 DEF StreamInv, OrderInv, Calls, ResultIsLast
<1> QED BY <1>5, <1>6, <1>8, <1>9 DEF StreamInv

\* Every step keeps the order.
LEMMA StreamNextInv == StreamInv /\ [Next]_vars => StreamInv'
<1> SUFFICES ASSUME StreamInv, [Next]_vars
             PROVE  StreamInv'
  OBVIOUS
<1>1. ASSUME NEW r \in Requests, DoSyscall(r)
      PROVE  StreamInv'
  BY <1>1, DoSyscallInv
<1>2. ASSUME NEW r \in Requests,
             Unwind(r) \/ Coroutine(r) \/ DeliverMessage(r) \/ PeerStep(r)
      PROVE  UNCHANGED streamVars
  BY <1>2 DEF Unwind, Coroutine, DeliverMessage, PeerStep, streamVars
<1>3. CASE DrainPendingResults \/ KernelGivesUp \/ UNCHANGED vars
  BY <1>3 DEF DrainPendingResults, KernelGivesUp, vars, streamVars,
              StreamInv, TaskInv, OrderInv, Calls, ResultIsLast
<1>4. CASE SendTask
  BY <1>4, SMT DEF SendTask, Plain, Received, StreamInv, TaskInv, OrderInv, Calls, ResultIsLast
<1>5. CASE Abort \/ Unwound \/ AutoExit
  BY <1>5 DEF Abort, Unwound, AutoExit, StreamInv, TaskInv, OrderInv, Calls, ResultIsLast
<1>6. CASE UNCHANGED streamVars
  BY <1>6 DEF streamVars, StreamInv, TaskInv, OrderInv, Calls, ResultIsLast
<1> QED BY <1>1, <1>2, <1>3, <1>4, <1>5, <1>6, RunTaskEndsInv, StreamWriterInv,
       StreamReaderInv, KernelLoopInv DEF Next

\* The kernel gets the task's result behind every syscall that handle_task made
\* before it, and nothing behind the result (agent.py, run_task, stream_writer).
THEOREM ResultComesLast == Spec => []ResultIsLast
<1>1. StreamInv => ResultIsLast
  BY DEF StreamInv
<1> QED BY <1>1, StreamInitInv, StreamNextInv, PTL DEF Spec

-----------------------------------------------------------------------------
(* The mailbox in the agent *)

\* A step of the agent, of the kernel or of the peer is a step of the mailbox
\* or leaves it alone.
LEMMA AgentStep == StreamInv /\ [Next]_vars => [MailNext]_mailVars
<1> SUFFICES ASSUME StreamInv, [Next]_vars
             PROVE  [MailNext]_mailVars
  OBVIOUS
<1>1. ASSUME NEW r \in Requests,
             DoSyscall(r) \/ Unwind(r) \/ Coroutine(r) \/ DeliverMessage(r) \/ PeerStep(r)
      PROVE  MailNext
  BY <1>1 DEF DoSyscall, Unwind, Coroutine, DeliverMessage, PeerStep, MailNext
<1>2. CASE StreamReader
  BY <1>2 DEF StreamReader, StreamInv, ResolveSyscall, MailNext
<1>3. CASE KernelLoop
  <2>1. Head(up) \in Written
    BY <1>3, SMT DEF KernelLoop, StreamInv
  <2> QED BY <1>3, <2>1, WrittenKinds DEF KernelLoop, MailNext
<1>4. CASE DrainPendingResults
  BY <1>4 DEF DrainPendingResults, MailNext
<1>5. CASE RunTaskEnds \/ StreamWriter \/ SendTask \/ KernelGivesUp \/ Abort \/ Unwound \/ AutoExit
  BY <1>5 DEF RunTaskEnds, StreamWriter, SendTask, KernelGivesUp, Abort, Unwound, AutoExit
<1>6. CASE UNCHANGED vars
  BY <1>6 DEF vars
<1> QED BY <1>1, <1>2, <1>3, <1>4, <1>5, <1>6 DEF Next

\* An agent that executes a task uses its mailbox as Mailbox specifies.
THEOREM AgentUsesMailbox == Spec => MailSpec
<1>1. Init => MailInit
  BY DEF Init
<1> QED BY <1>1, StreamInitInv, StreamNextInv, AgentStep, PTL DEF Spec, MailSpec

\* So its requests are answered as RequestReply promises, whatever the stream,
\* the kernel and the peer do.
THEOREM AgentKeepsPromise == Spec => KeepsPromise
BY AgentUsesMailbox, MailboxKeepsPromise, PTL

-----------------------------------------------------------------------------
(* One message for each syscall *)

\* The message m belongs to the call of r, and a queue has no or one such message.
Mine(m, r)   == m \in {Msg(k, r) : k \in {"syscall", "delivered", "refused"}}
None(q, r)   == Of(q, r) = {}
Single(q, r) == \E i \in 1..Len(q) : Of(q, r) = {i}

\* The message of a registered syscall is in exactly one of the three queues.
OneMessage(r) ==
    \/ Single(out, r) /\ None(up, r) /\ None(down, r)
    \/ None(out, r) /\ Single(up, r) /\ None(down, r)
    \/ None(out, r) /\ None(up, r) /\ Single(down, r)

\* A request not made yet has no message anywhere, so that its syscall, when it
\* is made, is the only one; nothing is registered before the task has come.
FlightInv ==
    /\ \A r \in Requests : call[r] = "new" => None(out, r) /\ None(up, r) /\ None(down, r)
    /\ exec = "waiting" => syscalls = {}
    /\ exec \in {"running", "flushing"} /\ kernel = "loop" => \A r \in syscalls : OneMessage(r)

\* What is put at the end of a queue adds to its own call only.
LEMMA OfAppend ==
    ASSUME NEW S, NEW q \in Seq(S), NEW m \in S, NEW r
    PROVE  /\ ~Mine(m, r) => Of(Append(q, m), r) = Of(q, r)
           /\ ~Mine(m, r) /\ Single(q, r) => Single(Append(q, m), r)
           /\ Mine(m, r) /\ None(q, r) => Single(Append(q, m), r)
<1> DEFINE p == Append(q, m)
<1>1. Len(p) = Len(q) + 1 /\ Len(q) \in Nat
  BY SMT
<1>2. \A i \in 1..Len(p) : p[i] = IF i = Len(q) + 1 THEN m ELSE q[i]
  BY SMT
<1>3. Of(p, r) = {i \in 1..Len(p) : Mine(p[i], r)} /\ Of(q, r) = {i \in 1..Len(q) : Mine(q[i], r)}
  BY DEF Of, Mine
<1> HIDE DEF p
<1>4. Of(p, r) = Of(q, r) \cup (IF Mine(m, r) THEN {Len(q) + 1} ELSE {})
  BY <1>1, <1>2, <1>3, SMT
<1>5. ~Mine(m, r) /\ Single(q, r) => Single(p, r)
  BY <1>1, <1>4, SMT DEF Single
<1>6. Mine(m, r) /\ None(q, r) => Single(p, r)
  BY <1>1, <1>4, SMT DEF Single, None
<1> QED BY <1>4, <1>5, <1>6 DEF p

\* What is taken from its front takes from its own call only.
LEMMA OfTail ==
    ASSUME NEW S, NEW q \in Seq(S), q # <<>>, NEW r
    PROVE  /\ None(q, r) => None(Tail(q), r) /\ ~Mine(q[1], r)
           /\ Mine(q[1], r) /\ Single(q, r) => None(Tail(q), r)
           /\ ~Mine(q[1], r) /\ Single(q, r) => Single(Tail(q), r)
<1> DEFINE p == Tail(q)
<1>1. Len(p) = Len(q) - 1 /\ Len(q) \in Nat \ {0}
  BY SMT
<1>2. \A i \in 1..Len(p) : p[i] = q[i + 1]
  BY SMT
<1>3. Of(p, r) = {i \in 1..Len(p) : Mine(p[i], r)} /\ Of(q, r) = {i \in 1..Len(q) : Mine(q[i], r)}
  BY DEF Of, Mine
<1> HIDE DEF p
<1>4. \A i \in 1..Len(p) : i \in Of(p, r) <=> i + 1 \in Of(q, r)
  BY <1>1, <1>2, <1>3, SMT
<1>5. 1 \in Of(q, r) <=> Mine(q[1], r)
  BY <1>1, <1>3, SMT
<1>6. Of(p, r) \subseteq 1..Len(p)
  BY <1>3
<1>7. None(q, r) => None(p, r) /\ ~Mine(q[1], r)
  BY <1>4, <1>5, <1>6 DEF None
<1>8. ASSUME NEW i \in 1..Len(q), Of(q, r) = {i}
      PROVE  /\ Mine(q[1], r) => None(p, r)
             /\ ~Mine(q[1], r) => Single(p, r)
  <2>1. CASE i = 1
    BY <1>1, <1>4, <1>5, <1>6, <1>8, <2>1, SMT DEF None
  <2>2. CASE i # 1
    <3>1. i - 1 \in 1..Len(p)
      BY <1>1, <2>2, SMT
    <3>2. \A j \in 1..Len(p) : j \in Of(p, r) <=> j = i - 1
      BY <1>1, <1>4, <1>8, SMT
    <3>3. Of(p, r) = {i - 1}
      BY <1>6, <3>1, <3>2
    <3> QED BY <1>5, <1>8, <2>2, <3>1, <3>3 DEF Single
  <2> QED BY <2>1, <2>2
<1> QED BY <1>7, <1>8 DEF Single, p

\* Whose a message is.
LEMMA Owners ==
    /\ \A m \in Syscalls \cup Answers : \A r : Mine(m, r) <=> m.call = r
    /\ \A m \in Results \cup EndMarks \cup [kind : {"task"}] : \A r : ~Mine(m, r)
<1>1. ASSUME NEW m \in Syscalls \cup Answers, NEW r
      PROVE  Mine(m, r) <=> m.call = r
  BY SMT DEF Syscalls, Answers, Mine, Msg
<1>2. ASSUME NEW m \in Results \cup EndMarks \cup [kind : {"task"}], NEW r
      PROVE  ~Mine(m, r)
  BY SMT DEF Results, EndMarks, Mine, Msg
<1> QED BY <1>1, <1>2

\* A request that has been made stays made.
LEMMA NewIsOld ==
    ASSUME MailInv, [MailNext]_mailVars
    PROVE  \A r \in Requests : call'[r] = "new" => call[r] = "new"
<1> SUFFICES ASSUME NEW q \in Requests, call'[q] = "new", call[q] # "new" PROVE FALSE
  OBVIOUS
<1> USE DEF MailInv, MailTypeOK
<1>1. ASSUME NEW r \in Requests, Call(r) \/ Post(r) \/ SendReturns(r) \/ SendRaises(r)
      PROVE  FALSE
  BY <1>1 DEF Call, Post, SendReturns, SendRaises
<1>2. ASSUME NEW r \in Requests, Cancel(r) \/ Return(r) \/ Expire(r) \/ TimedOut(r)
      PROVE  FALSE
  BY <1>2 DEF Cancel, Return, Expire, TimedOut
<1>3. ASSUME NEW r \in Requests, Route(r) \/ PeerReplies(r) \/ Lose(r) \/ OnMessage(r)
      PROVE  FALSE
  BY <1>3 DEF Route, PeerReplies, Lose, OnMessage
<1>4. CASE Drain \/ UNCHANGED mailVars
  BY <1>4 DEF Drain, mailVars
<1> QED BY <1>1, <1>2, <1>3, <1>4 DEF MailNext

\* A syscall is queued: the first message of a request that was new.
LEMMA DoSyscallFlight ==
    ASSUME StreamInv, MailInv, FlightInv, NEW r \in Requests, DoSyscall(r)
    PROVE  FlightInv'
<1> DEFINE m == Msg("syscall", r)
<1>1. m \in Syscalls /\ m \in Written /\ m.call = r
  BY DEF Msg, Written, Syscalls
<1>2. /\ out' = Append(out, m) /\ UNCHANGED <<exec, up, down, kernel>>
      /\ syscalls' = syscalls \cup {r} /\ exec # "waiting"
  BY DEF DoSyscall
<1>3. /\ call[r] = "new" /\ call'[r] # "new"
      /\ \A q \in Requests : call'[q] = "new" => call[q] = "new"
  BY DEF DoSyscall, Call, Post, MailInv, MailTypeOK
<1>4. out \in Seq(Written) /\ syscalls \subseteq Requests
  BY DEF StreamInv
<1>5. \A q : Mine(m, q) <=> q = r
  BY <1>1, Owners
<1> HIDE DEF m
<1>6. ASSUME NEW q, q # r
      PROVE  (None(out, q) => None(out', q)) /\ (Single(out, q) => Single(out', q))
  BY <1>1, <1>2, <1>4, <1>5, <1>6, OfAppend, SMT DEF None
<1>7. Single(out', r)
  BY <1>1, <1>2, <1>3, <1>4, <1>5, OfAppend DEF FlightInv
<1>8. \A q \in Requests : call'[q] = "new" => None(out', q) /\ None(up', q) /\ None(down', q)
  BY <1>2, <1>3, <1>6 DEF FlightInv
<1>9. None(up', r) /\ None(down', r)
  BY <1>2, <1>3 DEF FlightInv
<1>10. ASSUME exec' \in {"running", "flushing"} /\ kernel' = "loop", NEW q \in syscalls'
       PROVE  OneMessage(q)'
  <2>1. CASE q = r
    BY <1>7, <1>9, <2>1 DEF OneMessage
  <2>2. CASE q # r
    <3>1. OneMessage(q)
      BY <1>2, <1>10, <2>2 DEF FlightInv
    <3> QED BY <1>2, <1>6, <2>2, <3>1 DEF OneMessage
  <2> QED BY <2>1, <2>2
<1> QED BY <1>2, <1>8, <1>10 DEF FlightInv

\* The result and the end mark belong to no call.
LEMMA RunTaskEndsFlight ==
    ASSUME StreamInv, MailInv, FlightInv, RunTaskEnds
    PROVE  FlightInv'
<1>1. PICK kind \in {"completed", "failed"} : out' = out \o <<Plain(kind), Plain("none")>>
  BY DEF RunTaskEnds
<1> DEFINE a == Plain(kind)
           b == Plain("none")
           p == Append(out, a)
<1>2. a \in Results /\ b \in EndMarks /\ a \in Written /\ b \in Written
  BY DEF Plain, Results, EndMarks, Written
<1>3. out \in Seq(Written) /\ p \in Seq(Written)
  BY <1>2, SMT DEF StreamInv
<1>4. out' = Append(p, b)
  <2> HIDE DEF a, b
  <2> QED BY <1>1, <1>2, <1>3, SMT DEF a, b
<1>5. \A r : ~Mine(a, r) /\ ~Mine(b, r)
  BY <1>2, Owners
<1> HIDE DEF a, b
<1>6. ASSUME NEW r
      PROVE  (None(out, r) => None(out', r)) /\ (Single(out, r) => Single(out', r))
  <2>1. (None(out, r) => None(p, r)) /\ (Single(out, r) => Single(p, r))
    BY <1>2, <1>3, <1>5, OfAppend, SMT DEF None
  <2> HIDE DEF p
  <2>2. (None(p, r) => None(out', r)) /\ (Single(p, r) => Single(out', r))
    BY <1>2, <1>3, <1>4, <1>5, OfAppend, SMT DEF None
  <2> QED BY <2>1, <2>2
<1>7. UNCHANGED <<call, up, down, syscalls, kernel>> /\ exec = "running" /\ exec' = "flushing"
  BY DEF RunTaskEnds, mailVars
<1>8. \A r : OneMessage(r) => OneMessage(r)'
  BY <1>6, <1>7 DEF OneMessage
<1> QED BY <1>6, <1>7, <1>8 DEF FlightInv

\* The writer moves a message from the queue to the stream.
LEMMA StreamWriterFlight ==
    ASSUME StreamInv, MailInv, FlightInv, StreamWriter
    PROVE  FlightInv'
<1> DEFINE m == out[1]
<1>1. /\ out \in Seq(Written) /\ up \in Seq(Written) /\ out # <<>> /\ Head(out) = m /\ m \in Written
      /\ out' = Tail(out) /\ UNCHANGED <<call, down, syscalls, kernel>> /\ exec # "waiting"
  BY SMT DEF StreamWriter, StreamInv, mailVars
<1>2. CASE m.kind = "none"
  <2>1. exec' = "closed" /\ up' = up
    BY <1>1, <1>2 DEF StreamWriter
  <2>2. \A r : None(out, r) => None(out', r)
    BY <1>1, OfTail
  <2> QED BY <1>1, <2>1, <2>2 DEF FlightInv
<1>3. CASE m.kind # "none"
  <2>1. exec' = exec /\ up' = Append(up, m)
    BY <1>1, <1>3 DEF StreamWriter
  <2> HIDE DEF m
  <2>2. ASSUME NEW r
        PROVE  /\ None(out, r) => None(out', r) /\ Of(up', r) = Of(up, r)
               /\ None(out, r) /\ Single(up, r) => Single(up', r)
               /\ Single(out, r) /\ None(up, r) =>
                     \/ None(out', r) /\ Single(up', r)
                     \/ Single(out', r) /\ None(up', r)
    <3>1. /\ None(out, r) => None(out', r) /\ ~Mine(m, r)
          /\ Mine(m, r) /\ Single(out, r) => None(out', r)
          /\ ~Mine(m, r) /\ Single(out, r) => Single(out', r)
      BY <1>1, OfTail DEF m
    <3>2. /\ ~Mine(m, r) => Of(up', r) = Of(up, r)
          /\ ~Mine(m, r) /\ Single(up, r) => Single(up', r)
          /\ Mine(m, r) /\ None(up, r) => Single(up', r)
      BY <1>1, <2>1, OfAppend
    <3> QED BY <3>1, <3>2 DEF None
  <2>3. \A r : OneMessage(r) => OneMessage(r)'
    BY <1>1, <2>2 DEF OneMessage, None
  <2> QED BY <1>1, <2>1, <2>2, <2>3 DEF FlightInv, None
<1> QED BY <1>2, <1>3

\* The kernel takes a syscall off the stream and answers it.
LEMMA KernelLoopFlight ==
    ASSUME StreamInv, MailInv, FlightInv, KernelLoop
    PROVE  FlightInv'
<1> DEFINE m == up[1]
<1>1. /\ up \in Seq(Written) /\ down \in Seq(Received) /\ up # <<>> /\ Head(up) = m /\ m \in Written
      /\ up' = Tail(up) /\ UNCHANGED <<exec, out, syscalls>> /\ kernel = "loop"
  BY SMT DEF KernelLoop, StreamInv, TaskInv
<1>2. call' = call
  BY DEF KernelLoop, Route, mailVars
<1>3. CASE m.kind = "syscall"
  <2>1. m \in Syscalls /\ m.call \in Requests
    BY <1>1, <1>3 DEF Written, Syscalls, Results, EndMarks
  <2>2. PICK a \in {Msg("delivered", m.call), Msg("refused", m.call)} : down' = Append(down, a)
    BY <1>1, <1>3 DEF KernelLoop
  <2>3. a \in Answers /\ a \in Received /\ a.call = m.call
    BY <2>1, <2>2, SMT DEF Msg, Received, Answers
  <2>4. \A r : Mine(a, r) <=> Mine(m, r)
    BY <2>1, <2>3, Owners
  <2>5. kernel' = "loop"
    BY <1>1, <1>3 DEF KernelLoop
  <2> HIDE DEF m
  <2>6. ASSUME NEW r
        PROVE  /\ None(up, r) => None(up', r) /\ Of(down', r) = Of(down, r)
               /\ None(up, r) /\ Single(down, r) => Single(down', r)
               /\ Single(up, r) /\ None(down, r) =>
                     \/ None(up', r) /\ Single(down', r)
                     \/ Single(up', r) /\ None(down', r)
    <3>1. /\ None(up, r) => None(up', r) /\ ~Mine(m, r)
          /\ Mine(m, r) /\ Single(up, r) => None(up', r)
          /\ ~Mine(m, r) /\ Single(up, r) => Single(up', r)
      BY <1>1, OfTail DEF m
    <3>2. /\ ~Mine(a, r) => Of(down', r) = Of(down, r)
          /\ ~Mine(a, r) /\ Single(down, r) => Single(down', r)
          /\ Mine(a, r) /\ None(down, r) => Single(down', r)
      BY <1>1, <2>2, <2>3, OfAppend
    <3> QED BY <2>4, <3>1, <3>2 DEF None
  <2>7. \A r : OneMessage(r) => OneMessage(r)'
    BY <1>1, <2>6 DEF OneMessage, None
  <2> QED BY <1>1, <1>2, <2>5, <2>6, <2>7 DEF FlightInv, None
<1>4. CASE m.kind # "syscall"
  <2>1. kernel' = "result" /\ down' = down
    BY <1>1, <1>4 DEF KernelLoop
  <2>2. \A r : None(up, r) => None(up', r)
    BY <1>1, OfTail
  <2> QED BY <1>1, <1>2, <2>1, <2>2 DEF FlightInv
<1> QED BY <1>3, <1>4

\* The reader takes the task, or an answer and the registration with it.
LEMMA StreamReaderFlight ==
    ASSUME StreamInv, MailInv, FlightInv, StreamReader
    PROVE  FlightInv'
<1> DEFINE m == down[1]
<1>1. /\ down \in Seq(Received) /\ down # <<>> /\ Head(down) = m /\ m \in Received
      /\ down' = Tail(down) /\ UNCHANGED <<out, up, kernel>> /\ syscalls' \subseteq syscalls
      /\ syscalls \subseteq Requests
  BY SMT DEF StreamReader, StreamInv, TaskInv
<1>2. \A r \in Requests : call'[r] = "new" => call[r] = "new"
  <2>1. [MailNext]_mailVars
    BY AgentStep DEF Next
  <2> QED BY <2>1, NewIsOld
<1>3. \A r : /\ None(down, r) => None(down', r)
             /\ ~Mine(m, r) /\ Single(down, r) => Single(down', r)
  BY <1>1, OfTail
<1>4. CASE m.kind = "task"
  <2>1. exec' = "running" /\ syscalls' = syscalls /\ exec = "waiting"
    <3>1. exec' = "running" /\ syscalls' = syscalls
      BY <1>1, <1>4 DEF StreamReader
    <3>2. 1 \in 1..Len(down)
      BY <1>1, SMT
    <3> QED BY <1>4, <3>1, <3>2 DEF StreamInv, TaskInv, StreamReader
  <2> QED BY <1>1, <1>2, <1>3, <2>1 DEF FlightInv
<1>5. CASE m.kind # "task"
  <2>1. exec' = exec /\ syscalls' = syscalls \ {m.call}
    BY <1>1, <1>5 DEF StreamReader
  <2>2. m \in Answers
    BY <1>1, <1>5 DEF Received
  <2>3. \A r \in syscalls' : ~Mine(m, r)
    BY <2>1, <2>2, Owners
  <2> HIDE DEF m
  <2>4. \A r \in syscalls' : OneMessage(r) => OneMessage(r)'
    BY <1>1, <1>3, <2>3 DEF OneMessage
  <2> QED BY <1>1, <1>2, <1>3, <2>1, <2>4 DEF FlightInv
<1> QED BY <1>4, <1>5

\* Every step keeps one message for each registered syscall.
LEMMA FlightNextInv == StreamInv /\ MailInv /\ FlightInv /\ [Next]_vars => FlightInv'
<1> SUFFICES ASSUME StreamInv, MailInv, FlightInv, [Next]_vars
             PROVE  FlightInv'
  OBVIOUS
<1>1. \A r \in Requests : call'[r] = "new" => call[r] = "new"
  BY AgentStep, NewIsOld
<1>2. ASSUME UNCHANGED streamVars
      PROVE  FlightInv'
  BY <1>1, <1>2 DEF streamVars, FlightInv, OneMessage, None, Single
<1>3. ASSUME NEW r \in Requests, DoSyscall(r)
      PROVE  FlightInv'
  BY <1>3, DoSyscallFlight
<1>4. ASSUME NEW r \in Requests,
             Unwind(r) \/ Coroutine(r) \/ DeliverMessage(r) \/ PeerStep(r)
      PROVE  UNCHANGED streamVars
  BY <1>4 DEF Unwind, Coroutine, DeliverMessage, PeerStep, streamVars
<1>5. CASE DrainPendingResults \/ UNCHANGED vars
  BY <1>2, <1>5 DEF DrainPendingResults, vars
<1>6. CASE SendTask
  <2>1. /\ down' = <<Plain("task")>> /\ UNCHANGED <<exec, out, up, syscalls>>
        /\ exec = "waiting"
    BY <1>6 DEF SendTask, StreamInv, TaskInv
  <2>2. \A r : ~Mine(Plain("task"), r)
    BY DEF Plain, Mine, Msg
  <2>3. \A r : None(down', r)
    BY <2>1, <2>2, SMT DEF None, Of, Mine
  <2> QED BY <1>1, <2>1, <2>3 DEF FlightInv
<1>7. CASE KernelGivesUp \/ Abort \/ Unwound \/ AutoExit
  <2>1. UNCHANGED <<call, out, up, down, syscalls>>
    BY <1>7 DEF KernelGivesUp, Abort, Unwound, AutoExit, mailVars
  <2>2. exec' \in {"unwinding", "aborted", "exited"} \/ (exec' = exec /\ kernel' = "error")
    BY <1>7 DEF KernelGivesUp, Abort, Unwound, AutoExit
  <2> QED BY <2>1, <2>2 DEF FlightInv
<1> QED BY <1>2, <1>3, <1>4, <1>5, <1>6, <1>7, RunTaskEndsFlight, StreamWriterFlight,
       KernelLoopFlight, StreamReaderFlight DEF Next

\* A registered syscall has exactly one message on its way as long as the stream
\* lives, so it is answered once and its future is not left waiting (agent.py,
\* Execute; syscall.py, _do_syscall and resolve_syscall; the kernel's
\* ExecuteTask).
THEOREM SyscallsAreInFlight == Spec => []SyscallInFlight
<1>1. Init => FlightInv
  BY SMT DEF Init, MailInit, FlightInv, None, Of
<1>2. FlightInv => SyscallInFlight
  <2> SUFFICES ASSUME NEW r, OneMessage(r)
               PROVE  \E m \in Messages(r) : Messages(r) = {m}
    BY DEF FlightInv, SyscallInFlight
  <2>1. CASE Single(out, r) /\ None(up, r) /\ None(down, r)
    <3>1. PICK i \in 1..Len(out) : Of(out, r) = {i}
      BY <2>1 DEF Single
    <3>2. Messages(r) = {<<"out", i>>}
      BY <2>1, <3>1, SMT DEF Messages, None
    <3> QED BY <3>2
  <2>2. CASE None(out, r) /\ Single(up, r) /\ None(down, r)
    <3>1. PICK i \in 1..Len(up) : Of(up, r) = {i}
      BY <2>2 DEF Single
    <3>2. Messages(r) = {<<"up", i>>}
      BY <2>2, <3>1, SMT DEF Messages, None
    <3> QED BY <3>2
  <2>3. CASE None(out, r) /\ None(up, r) /\ Single(down, r)
    <3>1. PICK i \in 1..Len(down) : Of(down, r) = {i}
      BY <2>3 DEF Single
    <3>2. Messages(r) = {<<"down", i>>}
      BY <2>3, <3>1, SMT DEF Messages, None
    <3> QED BY <3>2
  <2> QED BY <2>1, <2>2, <2>3 DEF OneMessage
<1>3. Spec => []MailInv
  BY AgentUsesMailbox, MailboxInvariant, PTL
<1> QED BY <1>1, <1>2, <1>3, StreamInitInv, StreamNextInv, FlightNextInv, PTL DEF Spec

-----------------------------------------------------------------------------
(* The assistant *)

\* How far a delegation has come in the kernel. Nothing is accepted, kept or
\* collected of a delegation nobody has replied to.
ReplyInv ==
    \A d \in Posted :
        /\ call[d] = "new" => d \notin routed
        /\ d \notin routed => style[d] = "none"
        /\ style[d] = "none" => /\ copies[d] = 0
                                /\ d \notin results /\ d \notin accepted
                                /\ \A u \in Turns : d \notin got[u]

\* A turn collects once, and knows the delegation it is sending.
TurnInv ==
    \A u \in Turns :
        /\ turn[u] = "new" => got[u] = {}
        /\ turn[u] = "sending" => mine[u] \in Posted

\* Every accepted reply is in the mailbox or was collected, and every correlated
\* reply there was accepted.
CollectedInv ==
    /\ \A d \in accepted : d \in results \/ \E u \in Turns : d \in got[u]
    /\ \A d \in Posted :
          style[d] = "echo" /\ (d \in results \/ \E u \in Turns : d \in got[u]) => d \in accepted

\* Every accepted reply has an artifact under its key, or a reason not to.
RecordedInv ==
    /\ storing \subseteq accepted
    /\ \A d \in accepted :
          d \in untracked \cup unstored \cup storing \/ artifact[key[d]] \in accepted

\* A delegation is entered when its send has returned. Until then its reply is
\* untracked; from then on it is entered only as long as nobody has its reply.
BookInv ==
    /\ \A d \in active : call[d] = "posted"
    /\ \A d \in accepted : call[d] = "sending" => d \in untracked
    /\ \A d \in active : style[d] = "echo" /\ d \notin untracked => \A u \in Turns : d \notin got[u]

\* The assistant makes no request that waits.
PostsOnly == pending = {} /\ results \subseteq Posted /\ accepted \subseteq Posted

AssistantInv == AssistantTypeOK /\ PostsOnly /\ ReplyInv /\ TurnInv /\ CollectedInv /\ RecordedInv /\ BookInv

-----------------------------------------------------------------------------
(* Types *)

LEMMA OnlyPosted == Posted \subseteq Requests /\ (\A d \in Posted : d \notin Waiting) /\ MaxCopies \in Nat
  BY MailboxAssumption DEF Requests

Types == AssistantTypeOK /\ PostsOnly

LEMMA MailStepTypes ==
  ASSUME Types, NEW d \in Posted,
         \/ Post(d) \/ SendReturns(d) \/ SendRaises(d) \/ Cancel(d)
         \/ Route(d) \/ PeerReplies(d) \/ Lose(d) \/ OnMessage(d)
  PROVE  MailTypeOK' /\ PostsOnly'
  <1> USE OnlyPosted DEF Types, AssistantTypeOK, PostsOnly, MailTypeOK, net
  <1>1. CASE Post(d) \/ SendReturns(d) \/ SendRaises(d)
    BY <1>1, SMT DEF Post, SendReturns, SendRaises
  <1>2. CASE Cancel(d)
    BY <1>2 DEF Cancel
  <1>3. CASE Route(d)
    BY <1>3 DEF Route
  <1>4. CASE PeerReplies(d)
    BY <1>4, SMT DEF PeerReplies
  <1>5. CASE Lose(d)
    BY <1>5, SMT DEF Lose
  <1>6. CASE OnMessage(d)
    BY <1>6, SMT DEF OnMessage, Resolve, Stash
  <1> QED
    BY <1>1, <1>2, <1>3, <1>4, <1>5, <1>6

LEMMA TurnTypes ==
  ASSUME Types, TurnInv, NEW u \in Turns, StartTurn(u) \/ TurnStep(u) \/ CancelTurn(u)
  PROVE  Types'
  <1> USE OnlyPosted DEF Types, AssistantTypeOK, PostsOnly
  <1>1. CASE StartTurn(u)
    <2>1. MailTypeOK' /\ PostsOnly'
      BY <1>1 DEF StartTurn, Collect, MailTypeOK, net
    <2>2. results \in SUBSET Posted
      BY DEF MailTypeOK
    <2>3. got' \in [Turns -> SUBSET Posted] /\ told' \in [Turns -> SUBSET Posted] /\ active' \subseteq Posted
      BY <1>1, <2>2 DEF StartTurn, Collect
    <2> QED
      BY <1>1, <2>1, <2>3 DEF StartTurn, stored
  <1>2. ASSUME NEW o \in {"answered", "failed"}, EndTurn(u, o)
        PROVE  /\ turn' \in [Turns -> {"new", "asking", "acting", "delegating", "sending",
                                       "closing", "answered", "failed"}]
               /\ got' \in [Turns -> SUBSET Posted] /\ told' \in [Turns -> SUBSET Posted]
               /\ mine' \in [Turns -> Posted \cup {NoDelegation}]
    BY <1>2 DEF EndTurn
  <1>3. ASSUME UNCHANGED mailVars PROVE MailTypeOK' /\ PostsOnly'
    BY <1>3 DEF mailVars, MailTypeOK
  <1>4. CASE AskLLM(u)
    <2>1. CASE EndTurn(u, "failed")
      BY <1>2, <1>3, <1>4, <2>1 DEF AskLLM, bookVars
    <2>2. CASE turn' = [turn EXCEPT ![u] = "acting"] /\ UNCHANGED <<got, told, mine>>
      BY <1>3, <1>4, <2>2 DEF AskLLM, bookVars
    <2> QED
      BY <1>4, <2>1, <2>2 DEF AskLLM
  <1>5. CASE HandleSchedule(u)
    BY <1>3, <1>5 DEF HandleSchedule, bookVars
  <1>6. CASE HandleDelegation(u)
    <2>1. PICK d \in Posted, k \in Keys :
            /\ Post(d) /\ mine' = [mine EXCEPT ![u] = d] /\ key' = [key EXCEPT ![d] = k]
      BY <1>6 DEF HandleDelegation
    <2>2. MailTypeOK' /\ PostsOnly'
      BY <2>1, MailStepTypes
    <2> QED
      BY <1>6, <2>1, <2>2 DEF HandleDelegation, stored
  <1>7. CASE Delegated(u)
    <2>1. mine[u] \in Posted
      BY <1>7 DEF Delegated, TurnInv
    <2>2. MailTypeOK' /\ PostsOnly'
      BY <1>7, <2>1, MailStepTypes DEF Delegated
    <2>3. active' \subseteq Posted
      BY <1>7, <2>1 DEF Delegated
    <2> QED
      BY <1>7, <2>2, <2>3 DEF Delegated, stored
  <1>8. CASE AnswerUser(u)
    BY <1>2, <1>3, <1>8 DEF AnswerUser, bookVars
  <1>9. CASE CancelTurn(u)
    <2>1. turn[u] = "sending" => mine[u] \in Posted
      BY DEF TurnInv
    <2>2. MailTypeOK' /\ PostsOnly'
      BY <1>3, <1>9, <2>1, MailStepTypes DEF CancelTurn
    <2> QED
      BY <1>2, <1>9, <2>2 DEF CancelTurn, bookVars
  <1> QED
    BY <1>1, <1>4, <1>5, <1>6, <1>7, <1>8, <1>9 DEF TurnStep

LEMMA WorldTypes ==
  ASSUME Types, NEW d \in Posted, DeliverReply(d) \/ RecordResult(d) \/ Peer(d) \/ Age(d)
  PROVE  Types'
  <1> USE DEF Types, AssistantTypeOK
  <1>0. ASSUME UNCHANGED mailVars PROVE MailTypeOK' /\ PostsOnly'
    BY <1>0 DEF mailVars, MailTypeOK, PostsOnly
  <1>1. CASE DeliverReply(d)
    <2>1. MailTypeOK' /\ PostsOnly'
      BY <1>1, MailStepTypes DEF DeliverReply, OnDelegationResult
    <2> QED
      BY <1>1, <2>1, SMT DEF DeliverReply, OnDelegationResult, turnVars
  <1>2. CASE RecordResult(d)
    <2>1. artifact' \in [Keys -> Posted \cup {NoDelegation}]
      BY <1>2 DEF RecordResult
    <2> QED
      BY <1>0, <1>2, <2>1 DEF RecordResult, turnVars
  <1>3. CASE Peer(d)
    <2>1. MailTypeOK' /\ PostsOnly'
      BY <1>3, MailStepTypes DEF Peer
    <2> QED
      BY <1>3, <2>1 DEF Peer, turnVars, bookVars
  <1>4. CASE Age(d)
    BY <1>0, <1>4 DEF Age, turnVars, stored
  <1> QED
    BY <1>1, <1>2, <1>3, <1>4

LEMMA TaskTypes ==
  ASSUME Types, NEW m \in Inbox, ReceiveTask(m) \/ ProcessTask(m)
  PROVE  Types'
  <1>1. MailTypeOK'
    BY DEF Types, AssistantTypeOK, ReceiveTask, ProcessTask, mailVars, MailTypeOK
  <1>2. ipc' \in [Inbox -> {"new", "asking", "replying", "over"}]
    BY DEF Types, AssistantTypeOK, ReceiveTask, ProcessTask
  <1> QED
    BY <1>1, <1>2 DEF Types, AssistantTypeOK, PostsOnly, ReceiveTask, ProcessTask, mailVars, turnVars, bookVars

-----------------------------------------------------------------------------
(* The steps of a turn *)

LEMMA StartTurnStep ==
  ASSUME AssistantInv, NEW u \in Turns, StartTurn(u)
  PROVE  ReplyInv' /\ TurnInv' /\ CollectedInv' /\ RecordedInv' /\ BookInv'
  <1> USE OnlyPosted DEF AssistantInv, PostsOnly
  <1>1. /\ call' = call /\ style' = style /\ copies' = copies /\ routed' = routed
        /\ accepted' = accepted /\ results' = {} /\ mine' = mine
        /\ turn[u] = "new" /\ turn'[u] \notin {"new", "sending"}
        /\ storing' = storing /\ untracked' = untracked /\ unstored' = unstored
        /\ artifact' = artifact /\ key' = key
        /\ active' \subseteq active \ Correlated
        /\ got' = [got EXCEPT ![u] = results]
    BY DEF StartTurn, Collect, net, stored, AssistantTypeOK
  <1>2. \A v \in Turns : v # u => turn'[v] = turn[v]
    BY DEF StartTurn, Collect, AssistantTypeOK
  <1>3. /\ got'[u] = results
        /\ \A v \in Turns : v # u => got'[v] = got[v]
    BY <1>1 DEF AssistantTypeOK
  <1>4. got[u] = {}
    BY <1>1 DEF TurnInv
  <1>5. ReplyInv'
    BY <1>1, <1>3 DEF ReplyInv
  <1>6. TurnInv'
    BY <1>1, <1>2, <1>3 DEF TurnInv
  <1>7. \A d : (\E v \in Turns : d \in got'[v]) <=> d \in results \/ \E v \in Turns : d \in got[v]
    BY <1>3, <1>4
  <1>8. CollectedInv'
    BY <1>1, <1>7 DEF CollectedInv
  <1>9. RecordedInv'
    BY <1>1 DEF RecordedInv
  <1>10. \A d \in active' : style[d] = "echo" => d \notin results
    BY <1>1 DEF Correlated
  <1>11. BookInv'
    BY <1>1, <1>3, <1>10 DEF BookInv
  <1> QED
    BY <1>5, <1>6, <1>8, <1>9, <1>11

\* What a turn collected is kept when it ends.
LEMMA EndTurnStep ==
  ASSUME Types, TurnInv, NEW u \in Turns, NEW o \in {"answered", "failed"}, EndTurn(u, o)
  PROVE  TurnInv' /\ got' = got
  BY DEF Types, AssistantTypeOK, EndTurn, TurnInv

\* Steps that leave the mailbox and the books alone.
LEMMA QuietStep ==
  ASSUME AssistantInv, UNCHANGED <<mailVars, active, key, stored, untracked, got>>
  PROVE  ReplyInv' /\ CollectedInv' /\ RecordedInv' /\ BookInv'
  BY DEF AssistantInv, ReplyInv, CollectedInv, RecordedInv, BookInv, mailVars, stored

\* A request moves on in its caller: sent, returned, raised or cancelled.
LEMMA SenderStep ==
  ASSUME AssistantInv, NEW d \in Posted, NEW s \in {"posted", "raised", "cancelled"},
         call[d] \in {"sending", "waiting"}, call' = [call EXCEPT ![d] = s],
         UNCHANGED <<results, net, accepted, got, key, stored, untracked>>,
         active' = IF s = "posted" /\ call[d] = "sending" THEN active \cup {d} ELSE active
  PROVE  ReplyInv' /\ CollectedInv' /\ RecordedInv' /\ BookInv'
  <1> USE OnlyPosted DEF AssistantInv, PostsOnly
  <1>1. /\ call'[d] = s
        /\ \A e \in Posted : e # d => call'[e] = call[e]
    BY DEF AssistantTypeOK, MailTypeOK
  <1>2. ReplyInv'
    BY <1>1 DEF ReplyInv, net
  <1>3. CollectedInv' /\ RecordedInv'
    BY DEF CollectedInv, RecordedInv, net, stored
  <1>4. call[d] = "sending" => (style[d] = "echo" /\ d \notin untracked => \A v \in Turns : d \notin got[v])
    BY DEF BookInv, CollectedInv
  <1>5. d \notin active
    BY DEF BookInv
  <1>6. accepted \subseteq Posted /\ active \subseteq Posted
    BY DEF AssistantTypeOK, MailTypeOK
  <1>7. /\ \A e \in active' : call'[e] = "posted"
        /\ \A e \in accepted' : call'[e] = "sending" => e \in untracked'
    BY <1>1, <1>5, <1>6 DEF BookInv
  <1>8. \A e \in active' : style'[e] = "echo" /\ e \notin untracked' => \A v \in Turns : e \notin got'[v]
    BY <1>4 DEF BookInv, net
  <1> QED
    BY <1>2, <1>3, <1>7, <1>8 DEF BookInv

LEMMA DelegationStep ==
  ASSUME AssistantInv, NEW u \in Turns, HandleDelegation(u)
  PROVE  ReplyInv' /\ TurnInv' /\ CollectedInv' /\ RecordedInv' /\ BookInv'
  <1> USE OnlyPosted DEF AssistantInv, PostsOnly
  <1>1. PICK d \in Posted, k \in Keys :
          /\ Post(d) /\ mine' = [mine EXCEPT ![u] = d] /\ key' = [key EXCEPT ![d] = k]
    BY DEF HandleDelegation
  <1>2. /\ call[d] = "new" /\ call'[d] = "sending"
        /\ \A e \in Posted : e # d => call'[e] = call[e] /\ key'[e] = key[e]
        /\ UNCHANGED <<results, routed, style, copies, accepted, got, artifact, storing, unstored>>
        /\ UNCHANGED <<active, untracked>>
    BY <1>1, SMTT(20) DEF HandleDelegation, Post, AssistantTypeOK, MailTypeOK, net, stored
  <1>3. style[d] = "none" /\ d \notin accepted
    BY <1>2 DEF ReplyInv
  <1>4. ReplyInv'
    BY <1>2 DEF ReplyInv
  <1>5. TurnInv'
    BY <1>1, <1>2, SMT DEF HandleDelegation, TurnInv, AssistantTypeOK
  <1>6. CollectedInv'
    BY <1>2 DEF CollectedInv
  <1>7. RecordedInv'
    BY <1>2, <1>3, SMT DEF RecordedInv, AssistantTypeOK, MailTypeOK
  <1>8. BookInv'
    BY <1>2, <1>3 DEF BookInv, AssistantTypeOK, MailTypeOK
  <1> QED
    BY <1>4, <1>5, <1>6, <1>7, <1>8

LEMMA TurnSteps ==
  ASSUME AssistantInv, NEW u \in Turns, StartTurn(u) \/ TurnStep(u) \/ CancelTurn(u)
  PROVE  ReplyInv' /\ TurnInv' /\ CollectedInv' /\ RecordedInv' /\ BookInv'
  <1> USE OnlyPosted DEF AssistantInv, PostsOnly
  <1>0. Types
    BY DEF Types
  <1>1. CASE StartTurn(u)
    BY <1>1, StartTurnStep
  <1>2. CASE AskLLM(u)
    <2>1. got' = got /\ TurnInv'
      <3>1. CASE EndTurn(u, "failed")
        BY <1>0, <3>1, EndTurnStep
      <3>2. CASE turn' = [turn EXCEPT ![u] = "acting"] /\ UNCHANGED <<got, told, mine>>
        BY <3>2 DEF TurnInv, AssistantTypeOK
      <3> QED
        BY <1>2, <3>1, <3>2 DEF AskLLM
    <2> QED
      BY <1>2, <2>1, QuietStep DEF AskLLM, bookVars, stored
  <1>3. CASE HandleSchedule(u)
    <2>1. got' = got /\ TurnInv'
      BY <1>3 DEF HandleSchedule, TurnInv, AssistantTypeOK
    <2> QED
      BY <1>3, <2>1, QuietStep DEF HandleSchedule, bookVars, stored
  <1>4. CASE HandleDelegation(u)
    BY <1>4, DelegationStep
  <1>5. CASE Delegated(u)
    <2>1. mine[u] \in Posted
      BY <1>5 DEF Delegated, TurnInv
    <2>2. TurnInv'
      BY <1>5 DEF Delegated, TurnInv, AssistantTypeOK
    <2>3. CASE SendReturns(mine[u]) /\ active' = active \cup {mine[u]}
      <3>1. /\ call[mine[u]] = "sending"
            /\ call' = [call EXCEPT ![mine[u]] = "posted"]
            /\ UNCHANGED <<results, net, accepted>>
        BY <2>1, <2>3 DEF SendReturns
      <3>2. UNCHANGED <<results, net, accepted, got, key, stored, untracked>>
        BY <1>5, <3>1 DEF Delegated
      <3> QED
        BY <2>1, <2>2, <2>3, <3>1, <3>2, SenderStep
    <2>4. CASE SendRaises(mine[u]) /\ UNCHANGED active
      <3>1. /\ call[mine[u]] = "sending"
            /\ call' = [call EXCEPT ![mine[u]] = "raised"]
            /\ UNCHANGED <<results, net, accepted>>
        BY <2>1, <2>4 DEF SendRaises
      <3>2. UNCHANGED <<results, net, accepted, got, key, stored, untracked>>
        BY <1>5, <3>1 DEF Delegated
      <3> QED
        BY <2>1, <2>2, <2>4, <3>1, <3>2, SenderStep
    <2> QED
      BY <1>5, <2>3, <2>4 DEF Delegated
  <1>6. CASE AnswerUser(u)
    BY <1>0, <1>6, EndTurnStep, QuietStep DEF AnswerUser, bookVars, stored
  <1>7. CASE CancelTurn(u)
    <2>1. got' = got /\ TurnInv'
      BY <1>0, <1>7, EndTurnStep DEF CancelTurn
    <2>2. CASE turn[u] = "sending"
      <3>1. mine[u] \in Posted
        BY <2>2 DEF TurnInv
      <3>2. /\ call[mine[u]] \in {"sending", "waiting"}
            /\ call' = [call EXCEPT ![mine[u]] = "cancelled"]
            /\ UNCHANGED <<results, net, accepted>>
        BY <1>7, <2>2 DEF CancelTurn, Cancel
      <3>3. UNCHANGED <<results, net, accepted, got, key, stored, untracked>> /\ active' = active
        BY <1>7, <2>1, <3>2 DEF CancelTurn, bookVars, stored
      <3> QED
        BY <2>1, <3>1, <3>2, <3>3, SenderStep
    <2>3. CASE turn[u] # "sending"
      BY <1>7, <2>1, <2>3, QuietStep DEF CancelTurn, bookVars, stored
    <2> QED
      BY <2>2, <2>3
  <1> QED
    BY <1>1, <1>2, <1>3, <1>4, <1>5, <1>6, <1>7 DEF TurnStep

-----------------------------------------------------------------------------
(* Replies and artifacts *)

LEMMA DeliverStep ==
  ASSUME AssistantInv, NEW d \in Posted, DeliverReply(d)
  PROVE  ReplyInv' /\ TurnInv' /\ CollectedInv' /\ RecordedInv' /\ BookInv'
  <1> USE OnlyPosted DEF AssistantInv, PostsOnly
  <1>1. /\ copies[d] > 0
        /\ \A e \in Posted : e # d => copies'[e] = copies[e]
        /\ UNCHANGED <<call, routed, style, got, turn, mine, active, key, artifact, unstored>>
        /\ accepted' = IF style[d] = "echo" THEN accepted \cup {d} ELSE accepted
        /\ results' = results \cup {d}
    BY DEF DeliverReply, OnDelegationResult, OnMessage, Stash, turnVars, AssistantTypeOK, MailTypeOK
  <1>2. IF style[d] = "echo" /\ d \in active
        THEN storing' = storing \cup {d} /\ untracked' = untracked
        ELSE /\ untracked' = IF style[d] = "echo" /\ d \notin accepted
                             THEN untracked \cup {d} ELSE untracked
             /\ storing' = storing
    BY DEF DeliverReply, OnDelegationResult
  <1>3. style[d] # "none"
    BY <1>1, SMTT(20) DEF ReplyInv
  <1>4. ReplyInv'
    BY <1>1, <1>3 DEF ReplyInv
  <1>5. TurnInv'
    BY <1>1 DEF TurnInv
  <1>6. CollectedInv'
    BY <1>1 DEF CollectedInv
  <1>7. RecordedInv'
    BY <1>1, <1>2, SMT DEF RecordedInv
  <1>8. /\ \A e \in active' : call'[e] = "posted"
        /\ \A e \in active' : style'[e] = "echo" /\ e \notin untracked' => \A u \in Turns : e \notin got'[u]
    BY <1>1, <1>2 DEF BookInv
  <1>9. \A e \in accepted' : call'[e] = "sending" => e \in untracked'
    BY <1>1, <1>2 DEF BookInv
  <1> QED
    BY <1>4, <1>5, <1>6, <1>7, <1>8, <1>9 DEF BookInv

LEMMA RecordStep ==
  ASSUME AssistantInv, NEW d \in Posted, RecordResult(d)
  PROVE  ReplyInv' /\ TurnInv' /\ CollectedInv' /\ RecordedInv' /\ BookInv'
  <1> USE OnlyPosted DEF AssistantInv, PostsOnly
  <1>1. /\ UNCHANGED <<call, results, routed, style, copies, accepted>>
        /\ UNCHANGED <<turn, got, mine, active, key, untracked>>
        /\ storing' = storing \ {d}
    BY DEF RecordResult, mailVars, turnVars
  <1>2. ReplyInv' /\ TurnInv' /\ CollectedInv' /\ BookInv'
    BY <1>1 DEF ReplyInv, TurnInv, CollectedInv, BookInv
  <1>3. d \in accepted /\ accepted \subseteq Posted
    BY DEF RecordResult, RecordedInv, AssistantTypeOK, MailTypeOK
  <1>4. CASE artifact' = [artifact EXCEPT ![key[d]] = d] /\ UNCHANGED unstored
    BY <1>1, <1>2, <1>3, <1>4 DEF RecordedInv, AssistantTypeOK
  <1>5. CASE unstored' = unstored \cup {d} /\ UNCHANGED artifact
    BY <1>1, <1>2, <1>3, <1>5 DEF RecordedInv
  <1> QED
    BY <1>2, <1>4, <1>5 DEF RecordResult

LEMMA PeerSteps ==
  ASSUME AssistantInv, NEW d \in Posted, Peer(d)
  PROVE  ReplyInv' /\ TurnInv' /\ CollectedInv' /\ RecordedInv' /\ BookInv'
  <1> USE OnlyPosted DEF AssistantInv, PostsOnly
  <1>1. /\ UNCHANGED <<call, results, accepted, turn, got, mine, active, key>>
        /\ UNCHANGED <<artifact, storing, unstored, untracked>>
    BY DEF Peer, Route, PeerReplies, Lose, turnVars, bookVars
  <1>2. TurnInv' /\ RecordedInv'
    BY <1>1 DEF TurnInv, RecordedInv
  <1>3. CASE Route(d)
    BY <1>1, <1>2, <1>3 DEF Route, ReplyInv, CollectedInv, BookInv
  <1>4. CASE PeerReplies(d)
    <2>1. PICK s \in {"echo", "helper"}, n \in 1..MaxCopies :
            /\ style' = [style EXCEPT ![d] = s]
            /\ copies' = [copies EXCEPT ![d] = n]
      BY <1>4 DEF PeerReplies
    <2>2. /\ d \in routed /\ routed' = routed /\ style[d] = "none"
          /\ d \notin results /\ d \notin accepted /\ \A u \in Turns : d \notin got[u]
      BY <1>4 DEF PeerReplies, ReplyInv
    <2>3. /\ style'[d] # "none"
          /\ \A e \in Posted : e # d => style'[e] = style[e] /\ copies'[e] = copies[e]
      BY <2>1, ZenonT(30) DEF AssistantTypeOK, MailTypeOK
    <2>4. ReplyInv'
      BY <1>1, <2>2, <2>3 DEF ReplyInv
    <2>5. CollectedInv'
      BY <1>1, <2>2, <2>3 DEF CollectedInv
    <2>6. BookInv'
      BY <1>1, <2>2, <2>3, SMT DEF BookInv, AssistantTypeOK
    <2> QED
      BY <1>2, <2>4, <2>5, <2>6
  <1>5. CASE Lose(d)
    <2>1. style[d] # "none" /\ routed' = routed /\ style' = style
      BY <1>5, SMT DEF Lose, ReplyInv
    <2>2. \A e \in Posted : e # d => copies'[e] = copies[e]
      BY <1>5 DEF Lose, AssistantTypeOK, MailTypeOK
    <2>3. ReplyInv'
      BY <1>1, <2>1, <2>2 DEF ReplyInv
    <2> QED
      BY <1>1, <1>2, <2>1, <2>3 DEF CollectedInv, BookInv
  <1> QED
    BY <1>3, <1>4, <1>5 DEF Peer

-----------------------------------------------------------------------------
(* The theorems *)

LEMMA AssistantInitInv == AssistantInit => AssistantInv
  <1> SUFFICES ASSUME AssistantInit PROVE AssistantInv
    OBVIOUS
  <1> USE OnlyPosted DEF AssistantInit, MailInit
  <1>1. MailTypeOK
    BY DEF MailTypeOK
  <1>2. AssistantTypeOK
    BY <1>1 DEF AssistantTypeOK
  <1>3. ReplyInv /\ TurnInv
    BY DEF ReplyInv, TurnInv
  <1>4. CollectedInv /\ RecordedInv /\ BookInv
    BY DEF CollectedInv, RecordedInv, BookInv
  <1> QED
    BY <1>2, <1>3, <1>4 DEF AssistantInv, PostsOnly

LEMMA AssistantNextInv == AssistantInv /\ [AssistantNext]_assistantVars => AssistantInv'
  <1> SUFFICES ASSUME AssistantInv, [AssistantNext]_assistantVars PROVE AssistantInv'
    OBVIOUS
  <1>0. Types /\ TurnInv
    BY DEF Types, AssistantInv
  <1>1. ASSUME NEW u \in Turns, StartTurn(u) \/ TurnStep(u) \/ CancelTurn(u)
        PROVE  AssistantInv'
    <2>1. Types'
      BY <1>0, <1>1, TurnTypes
    <2> QED
      BY <1>1, <2>1, TurnSteps DEF AssistantInv, Types
  <1>2. ASSUME NEW d \in Posted, DeliverReply(d) \/ RecordResult(d) \/ Peer(d) \/ Age(d)
        PROVE  AssistantInv'
    <2>1. Types'
      BY <1>0, <1>2, WorldTypes
    <2>2. Age(d) => ReplyInv' /\ TurnInv' /\ CollectedInv' /\ RecordedInv' /\ BookInv'
      BY QuietStep DEF Age, turnVars, AssistantInv, TurnInv
    <2> QED
      BY <1>2, <2>1, <2>2, DeliverStep, RecordStep, PeerSteps DEF AssistantInv, Types
  <1>3. ASSUME NEW m \in Inbox, ReceiveTask(m) \/ ProcessTask(m)
        PROVE  AssistantInv'
    <2>1. Types'
      BY <1>0, <1>3, TaskTypes
    <2>2. UNCHANGED <<mailVars, turnVars, bookVars>>
      BY <1>3 DEF ReceiveTask, ProcessTask
    <2>3. ReplyInv' /\ CollectedInv' /\ RecordedInv' /\ BookInv'
      BY <2>2, QuietStep DEF turnVars, bookVars, stored
    <2>4. TurnInv'
      BY <2>2, <1>0 DEF turnVars, TurnInv
    <2> QED
      BY <2>1, <2>3, <2>4 DEF AssistantInv, Types
  <1>4. CASE UNCHANGED assistantVars
    <2>1. UNCHANGED <<mailVars, turnVars, bookVars, ipc>>
      BY <1>4 DEF assistantVars
    <2>2. ReplyInv' /\ CollectedInv' /\ RecordedInv' /\ BookInv'
      BY <2>1, QuietStep DEF turnVars, bookVars, stored
    <2>3. TurnInv'
      BY <2>1, <1>0 DEF turnVars, TurnInv
    <2>4. MailTypeOK' /\ PostsOnly'
      BY <1>0, <2>1 DEF Types, AssistantTypeOK, PostsOnly, MailTypeOK, mailVars
    <2>5. AssistantTypeOK'
      BY <1>0, <2>1, <2>4 DEF Types, AssistantTypeOK, turnVars, bookVars
    <2> QED
      BY <2>2, <2>3, <2>4, <2>5 DEF AssistantInv
  <1> QED
    BY <1>1, <1>2, <1>3, <1>4 DEF AssistantNext

\* The assistant keeps its books: replies come only to delegations that were
\* sent, every reply accepted is collected once and recorded or known not to
\* be, and a delegation is on the list only while nobody has its reply
\* (assistant.py, handle_task and on_message).
THEOREM AssistantInvariant == AssistantSpec => []AssistantInv
  BY AssistantInitInv, AssistantNextInv, PTL DEF AssistantSpec

\* No accepted result is lost: it is in the mailbox, or in the answer of the
\* turn that collected it, and if that turn failed it is in its artifact, save
\* for the exceptions NoResultLost names (assistant.py, handle_task and
\* on_message).
THEOREM ResultsAreKept == AssistantSpec => []NoResultLost
  <1>1. AssistantInv => NoResultLost
    BY DEF AssistantInv, CollectedInv, RecordedInv, NoResultLost
  <1> QED
    BY <1>1, AssistantInvariant, PTL

\* A delegation is only told to have timed out when its result was not shown
\* before or with it (assistant.py, the timeout report of handle_task).
THEOREM TimeoutsAreHonest == AssistantSpec => HonestTimeout
  <1>1. ASSUME AssistantInv, [AssistantNext]_assistantVars
        PROVE  [\A u \in Turns : \A d \in told'[u] \ told[u] :
                  style[d] = "echo" /\ d \notin untracked => \A v \in Turns : d \notin got'[v]]_assistantVars
    <2> SUFFICES ASSUME NEW u \in Turns, NEW d \in told'[u] \ told[u],
                        style[d] = "echo", d \notin untracked, AssistantNext
                 PROVE  \A v \in Turns : d \notin got'[v]
      BY <1>1
    <2> USE <1>1 DEF AssistantInv, AssistantTypeOK
    <2>1. ASSUME NEW w \in Turns, StartTurn(w)
          PROVE  \A v \in Turns : d \notin got'[v]
      <3>1. /\ told' = [told EXCEPT ![w] = (active \ Correlated) \cap old]
            /\ got' = [got EXCEPT ![w] = results]
        BY <2>1 DEF StartTurn, Collect
      <3>2. d \in active /\ d \notin Correlated
        BY <3>1
      <3>3. d \notin results
        BY <3>2 DEF Correlated
      <3>4. \A v \in Turns : d \notin got[v]
        BY <3>2 DEF BookInv
      <3> QED
        BY <3>1, <3>3, <3>4
    <2>2. ASSUME NEW w \in Turns, TurnStep(w) \/ CancelTurn(w)
          PROVE  FALSE
      <3>1. \A o : EndTurn(w, o) => told'[u] \subseteq told[u]
        BY DEF EndTurn
      <3> QED
        BY <2>2, <3>1 DEF TurnStep, CancelTurn, AskLLM, HandleSchedule, HandleDelegation,
           Delegated, AnswerUser
    <2>3. ASSUME NEW e \in Posted, DeliverReply(e) \/ RecordResult(e) \/ Peer(e) \/ Age(e)
          PROVE  FALSE
      BY <2>3 DEF DeliverReply, RecordResult, Peer, Age, turnVars
    <2>4. ASSUME NEW m \in Inbox, ReceiveTask(m) \/ ProcessTask(m)
          PROVE  FALSE
      BY <2>4 DEF ReceiveTask, ProcessTask, turnVars
    <2> QED
      BY <2>1, <2>2, <2>3, <2>4 DEF AssistantNext
  <1> QED
    BY <1>1, AssistantInvariant, PTL DEF AssistantSpec, HonestTimeout

\* The assistant only does to the mailbox what an agent's methods do: each of
\* its steps is one step of the mailbox or none, so what is proved of the
\* mailbox holds of the assistant's (agent.py, send_fire_and_forget, on_message
\* and drain_pending_results).
THEOREM AssistantUsesMailbox == AssistantSpec => MailSpec
  <1>1. AssistantInit => MailInit
    BY DEF AssistantInit
  <1>2. ASSUME AssistantInv, [AssistantNext]_assistantVars PROVE [MailNext]_mailVars
    <2> USE OnlyPosted, <1>2 DEF AssistantInv
    <2>1. ASSUME NEW d \in Posted,
                 \/ Post(d) \/ SendReturns(d) \/ SendRaises(d) \/ Cancel(d)
                 \/ Route(d) \/ PeerReplies(d) \/ Lose(d) \/ OnMessage(d)
          PROVE  MailNext
      BY <2>1 DEF MailNext
    <2>2. ASSUME NEW u \in Turns, StartTurn(u) PROVE [MailNext]_mailVars
      BY <2>2 DEF StartTurn, Collect, MailNext, Drain, mailVars, net
    <2>3. ASSUME NEW u \in Turns, TurnStep(u) \/ CancelTurn(u) PROVE [MailNext]_mailVars
      <3>1. turn[u] = "sending" => mine[u] \in Posted
        BY DEF TurnInv
      <3>2. CASE HandleDelegation(u)
        BY <2>1, <3>2 DEF HandleDelegation
      <3>3. CASE Delegated(u)
        BY <2>1, <3>1, <3>3 DEF Delegated
      <3>4. CASE CancelTurn(u)
        BY <2>1, <3>1, <3>4 DEF CancelTurn
      <3>5. CASE AskLLM(u) \/ HandleSchedule(u) \/ AnswerUser(u)
        BY <3>5 DEF AskLLM, HandleSchedule, AnswerUser
      <3> QED
        BY <2>3, <3>2, <3>3, <3>4, <3>5 DEF TurnStep
    <2>4. ASSUME NEW d \in Posted, DeliverReply(d) \/ RecordResult(d) \/ Peer(d) \/ Age(d)
          PROVE  [MailNext]_mailVars
      BY <2>1, <2>4 DEF DeliverReply, OnDelegationResult, RecordResult, Peer, Age
    <2>5. ASSUME NEW m \in Inbox, ReceiveTask(m) \/ ProcessTask(m)
          PROVE  [MailNext]_mailVars
      BY <2>5 DEF ReceiveTask, ProcessTask
    <2>6. CASE UNCHANGED assistantVars
      BY <2>6 DEF assistantVars
    <2> QED
      BY <2>2, <2>3, <2>4, <2>5, <2>6 DEF AssistantNext
  <1> QED
    BY <1>1, <1>2, AssistantInvariant, PTL DEF AssistantSpec, MailSpec

\* So the assistant's delegations are answered as RequestReply promises: at most
\* once each, and a reply is kept until a turn collects it (agent.py, on_message
\* and drain_pending_results).
THEOREM AssistantKeepsPromise == AssistantSpec => KeepsPromise
  BY AssistantUsesMailbox, MailboxKeepsPromise, PTL
=============================================================================
