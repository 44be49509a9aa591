----------------------------- MODULE HiveAgent -----------------------------
(***************************************************************************)
(* An agent that executes a task (sdk/python/hivekernel_sdk/agent.py,      *)
(* Execute, with syscall.py): the reader, the writer and the runner of the *)
(* stream, the kernel at its other end, and the coroutines of handle_task, *)
(* each of which sends a request through the stream and waits for the      *)
(* reply in the mailbox.                                                   *)
(***************************************************************************)
EXTENDS Mailbox, Sequences

VARIABLES
    exec,      \* the Execute handler
    out,       \* out_queue: syscalls, the result, None
    up,        \* the stream to the kernel
    down,      \* the stream from the kernel
    syscalls,  \* ctx._pending: requests whose send awaits its SyscallResult
    kernel     \* ExecuteTask in the kernel

streamVars == <<exec, out, up, down, syscalls, kernel>>
vars       == <<mailVars, streamVars>>

Msg(kind, r) == [kind |-> kind, call |-> r]
Plain(kind)  == [kind |-> kind]

\* The process is there: a task agent exits when its task is done.
Alive == exec # "exited"

-----------------------------------------------------------------------------
(* run_task and handle_task *)

\* _do_syscall: the future of the call is registered, the call queued. A
\* coroutine that handle_task left behind may come to it after the result.
DoSyscall(r) ==
    /\ exec \in {"running", "flushing", "closed", "aborted"}
    /\ Call(r) \/ Post(r)
    /\ syscalls' = syscalls \cup {r}
    /\ out' = Append(out, Msg("syscall", r))
    /\ UNCHANGED <<exec, up, down, kernel>>

\* Slip: the end mark is queued first.
RunTaskEndsFirst ==
    /\ exec = "running"
    /\ \E kind \in {"completed", "failed"} : out' = out \o <<Plain("none"), Plain(kind)>>
    /\ exec' = "flushing"
    /\ UNCHANGED <<mailVars, up, down, syscalls, kernel>>

\* Slip: the result is written at once, past the queue.
RunTaskEndsAtOnce ==
    /\ exec = "running"
    /\ \E kind \in {"completed", "failed"} : up' = Append(up, Plain(kind))
    /\ out' = Append(out, Plain("none"))
    /\ exec' = "flushing"
    /\ UNCHANGED <<mailVars, down, syscalls, kernel>>

\* handle_task returns or raises: the result and the end mark are queued.
RunTaskEnds ==
    /\ exec = "running"
    /\ \E kind \in {"completed", "failed"} : out' = out \o <<Plain(kind), Plain("none")>>
    /\ exec' = "flushing"
    /\ UNCHANGED <<mailVars, up, down, syscalls, kernel>>

-----------------------------------------------------------------------------
(* stream_writer and stream_reader *)

\* On the end mark the writer returns, the reader is cancelled.
StreamWriter ==
    /\ exec \in {"running", "flushing"}
    /\ out # <<>>
    /\ out' = Tail(out)
    /\ IF Head(out).kind = "none"
       THEN exec' = "closed" /\ UNCHANGED up
       ELSE up' = Append(up, Head(out)) /\ UNCHANGED exec
    /\ UNCHANGED <<mailVars, down, syscalls, kernel>>

\* Slip: a refusal is taken for no answer.
ResolveDelivered(m) ==
    IF m.call \in syscalls /\ call[m.call] = "sending" /\ m.kind = "delivered"
    THEN SendReturns(m.call)
    ELSE UNCHANGED mailVars

\* resolve_syscall wakes the coroutine whose call has the result's id, which
\* goes on to wait for the reply or raises; nobody may wait any more.
ResolveSyscall(m) ==
    LET r == m.call
    IN  IF r \notin syscalls \/ call[r] # "sending" THEN UNCHANGED mailVars
        ELSE IF m.kind = "delivered" THEN SendReturns(r)
        ELSE SendRaises(r)

\* Slip: the future of an answered syscall stays registered.
StreamReaderKeeps ==
    /\ exec \in {"waiting", "running", "flushing"}
    /\ down # <<>>
    /\ down' = Tail(down)
    /\ IF Head(down).kind = "task"
       THEN exec' = "running" /\ UNCHANGED mailVars
       ELSE ResolveSyscall(Head(down)) /\ UNCHANGED exec
    /\ UNCHANGED <<out, up, syscalls, kernel>>

StreamReader ==
    /\ exec \in {"waiting", "running", "flushing"}
    /\ down # <<>>
    /\ down' = Tail(down)
    /\ IF Head(down).kind = "task"
       THEN exec' = "running" /\ UNCHANGED <<mailVars, syscalls>>
       ELSE /\ ResolveSyscall(Head(down))
            /\ syscalls' = syscalls \ {Head(down).call}
            /\ UNCHANGED exec
    /\ UNCHANGED <<out, up, kernel>>

-----------------------------------------------------------------------------
(* The other end *)

\* ExecuteTask opens the stream and sends the task.
SendTask ==
    /\ kernel = "idle"
    /\ kernel' = "loop"
    /\ down' = <<Plain("task")>>
    /\ UNCHANGED <<mailVars, exec, out, up, syscalls>>

\* One turn of its loop: a syscall is handled and answered, in order; the
\* result ends the call.
KernelLoop ==
    /\ kernel = "loop"
    /\ up # <<>>
    /\ up' = Tail(up)
    /\ IF Head(up).kind = "syscall"
       THEN /\ \/ Route(Head(up).call) /\ down' = Append(down, Msg("delivered", Head(up).call))
               \/ UNCHANGED mailVars /\ down' = Append(down, Msg("refused", Head(up).call))
            /\ UNCHANGED kernel
       ELSE kernel' = "result" /\ UNCHANGED <<mailVars, down>>
    /\ UNCHANGED <<exec, out, syscalls>>

\* The deadline passes, or the connection breaks.
KernelGivesUp ==
    /\ kernel = "loop"
    /\ kernel' = "error"
    /\ UNCHANGED <<mailVars, exec, out, up, down, syscalls>>

\* The agent's server then cancels the handler, which cancels the task it
\* waits for and with it each coroutine of handle_task.
Abort ==
    /\ kernel = "error"
    /\ exec \in {"waiting", "running", "flushing"}
    /\ exec' = IF exec = "running" THEN "unwinding" ELSE "aborted"
    /\ UNCHANGED <<mailVars, out, up, down, syscalls, kernel>>

Unwind(r) ==
    /\ exec = "unwinding"
    /\ Cancel(r)
    /\ UNCHANGED streamVars

Unwound ==
    /\ exec = "unwinding"
    /\ \A r \in Requests : call[r] \notin {"sending", "waiting"}
    /\ exec' = "aborted"
    /\ UNCHANGED <<mailVars, out, up, down, syscalls, kernel>>

\* Half a second after its only task an agent of the task role exits.
AutoExit ==
    /\ exec = "closed"
    /\ exec' = "exited"
    /\ UNCHANGED <<mailVars, out, up, down, syscalls, kernel>>

-----------------------------------------------------------------------------
\* The steps that belong to the mailbox alone.
Coroutine(r) ==
    /\ Alive
    /\ exec # "unwinding"
    /\ Return(r) \/ Expire(r) \/ TimedOut(r)
    /\ UNCHANGED streamVars

DeliverMessage(r) == Alive /\ OnMessage(r) /\ UNCHANGED streamVars

PeerStep(r) == (PeerReplies(r) \/ Lose(r)) /\ UNCHANGED streamVars

DrainPendingResults == Alive /\ Drain /\ UNCHANGED streamVars

Init ==
    /\ MailInit
    /\ exec = "waiting"
    /\ out = <<>>
    /\ up = <<>>
    /\ down = <<>>
    /\ syscalls = {}
    /\ kernel = "idle"

Next ==
    \/ \E r \in Requests : DoSyscall(r) \/ Unwind(r) \/ Coroutine(r) \/ DeliverMessage(r) \/ PeerStep(r)
    \/ RunTaskEnds \/ StreamWriter \/ StreamReader \/ DrainPendingResults
    \/ SendTask \/ KernelLoop \/ KernelGivesUp \/ Abort \/ Unwound \/ AutoExit

Spec == Init /\ [][Next]_vars

\* Coroutines and timers of the agent run, and so does the kernel's loop.
Fairness ==
    /\ WF_vars(StreamWriter) /\ WF_vars(StreamReader) /\ WF_vars(KernelLoop)
    /\ WF_vars(Abort) /\ WF_vars(Unwound)
    /\ \A r \in Requests : WF_vars(Unwind(r)) /\ WF_vars(Coroutine(r))

FairSpec == Spec /\ Fairness

-----------------------------------------------------------------------------
(* Properties *)

\* The messages of a queue that belong to the call of r.
Of(q, r) == {i \in 1..Len(q) : q[i] \in {Msg(k, r) : k \in {"syscall", "delivered", "refused"}}}

\* The messages of the call of r on their way, each by its queue and place there.
Messages(r) ==
    ({"out"} \X Of(out, r)) \cup ({"up"} \X Of(up, r)) \cup ({"down"} \X Of(down, r))

TypeOK ==
    /\ MailTypeOK
    /\ exec \in {"waiting", "running", "flushing", "closed", "unwinding", "aborted", "exited"}
    /\ syscalls \subseteq Requests
    /\ kernel \in {"idle", "loop", "result", "error"}

\* The kernel gets the task's result only after every syscall that handle_task
\* made before it: none overtakes it, none comes behind it on the stream.
ResultIsLast ==
    \A i \in 1..Len(up) : up[i].kind \in {"completed", "failed"} => i = Len(up)

\* A syscall is answered once: each one registered has exactly one message on
\* its way, to the kernel or back, as long as the stream lives.
SyscallInFlight ==
    exec \in {"running", "flushing"} /\ kernel = "loop" =>
        \A r \in syscalls : \E m \in Messages(r) : Messages(r) = {m}

\* A request made in handle_task comes to an end, by a reply, a timeout or an
\* error, unless handle_task is over: a coroutine it left behind waits for a
\* syscall that the writer no longer takes, for ever.
RequestEnds ==
    \A r \in Waiting :
        call[r] = "sending" ~> \/ call[r] \in {"replied", "raised", "timedout", "cancelled"}
                               \/ exec \in {"flushing", "closed", "aborted", "exited"}

\* When the agent is done with a task and the kernel still listens, the kernel
\* gets the result: the end mark does not overtake it.
ResultArrives == exec = "flushing" ~> kernel \in {"result", "error"}
=============================================================================
