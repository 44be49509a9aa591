------------------------------ MODULE Mailbox ------------------------------
(***************************************************************************)
(* Requests and replies of an agent (sdk/python/hivekernel_sdk/agent.py):  *)
(* on_message, send_and_wait and its variants, the mailbox of unmatched    *)
(* replies.                                                                *)
(*                                                                         *)
(* The agent is one asyncio loop: a step is the code between two awaits.   *)
(* The kernel queues a reply in the inbox and pushes it as well, and the   *)
(* flush after a start pushes again what is queued, so a reply comes       *)
(* never, once or several times, and at any time.                          *)
(***************************************************************************)
EXTENDS Integers, FiniteSets

CONSTANTS
    Waiting,    \* requests made by send_and_wait or send_and_wait_core
    Posted,     \* requests made by send_fire_and_forget
    MaxCopies   \* bound: pushes of one reply

Requests == Waiting \cup Posted

ASSUME MailboxAssumption ==
    /\ Waiting \cap Posted = {}
    /\ MaxCopies \in Nat

VARIABLES
    call,      \* where the coroutine that makes the request is
    pending,   \* self._pending_requests: the requests registered
    fut,       \* the futures registered for them
    results,   \* self._pending_results: replies without a waiting request
    routed,    \* requests the kernel has taken
    style,     \* how the peer replies: with the request's id, or the helper
    copies,    \* pushes of the reply still to come
    accepted   \* history: correlated replies that on_message has accepted

mailVars == <<call, pending, fut, results, routed, style, copies, accepted>>
net      == <<routed, style, copies>>

-----------------------------------------------------------------------------
(* send_and_wait *)

\* The future is registered before the message is sent.
Call(r) ==
    /\ r \in Waiting
    /\ call[r] = "new"
    /\ call' = [call EXCEPT ![r] = "sending"]
    /\ pending' = pending \cup {r}
    /\ UNCHANGED <<fut, results, net, accepted>>

Post(r) ==
    /\ r \in Posted
    /\ call[r] = "new"
    /\ call' = [call EXCEPT ![r] = "sending"]
    /\ UNCHANGED <<pending, fut, results, net, accepted>>

SendReturns(r) ==
    /\ call[r] = "sending"
    /\ call' = [call EXCEPT ![r] = IF r \in Waiting THEN "waiting" ELSE "posted"]
    /\ UNCHANGED <<pending, fut, results, net, accepted>>

\* The send raises. Only a timeout unregisters the future.
SendRaises(r) ==
    /\ call[r] = "sending"
    /\ call' = [call EXCEPT ![r] = "raised"]
    /\ UNCHANGED <<pending, fut, results, net, accepted>>

\* The coroutine is cancelled, and with it the future it waits for.
Cancel(r) ==
    /\ call[r] \in {"sending", "waiting"}
    /\ fut' = IF call[r] = "waiting" /\ fut[r] = "open"
              THEN [fut EXCEPT ![r] = "cancelled"] ELSE fut
    /\ call' = [call EXCEPT ![r] = "cancelled"]
    /\ UNCHANGED <<pending, results, net, accepted>>

Return(r) ==
    /\ call[r] = "waiting"
    /\ fut[r] = "set"
    /\ call' = [call EXCEPT ![r] = "replied"]
    /\ UNCHANGED <<pending, fut, results, net, accepted>>

\* wait_for's timer cancels the future; the coroutine learns of it one turn
\* of the event loop later.
Expire(r) ==
    /\ call[r] = "waiting"
    /\ fut[r] = "open"
    /\ fut' = [fut EXCEPT ![r] = "cancelled"]
    /\ UNCHANGED <<call, pending, results, net, accepted>>

TimedOut(r) ==
    /\ call[r] = "waiting"
    /\ fut[r] = "cancelled"
    /\ call' = [call EXCEPT ![r] = "timedout"]
    /\ pending' = pending \ {r}
    /\ UNCHANGED <<fut, results, net, accepted>>

-----------------------------------------------------------------------------
(* The kernel and the peer *)

Route(r) ==
    /\ call[r] # "new"
    /\ r \notin routed
    /\ routed' = routed \cup {r}
    /\ UNCHANGED <<call, pending, fut, results, style, copies, accepted>>

\* The peer replies, to the reply_to of the request or, with the helper of
\* this SDK, to its message_id; the kernel pushes the reply n times.
PeerReplies(r) ==
    /\ r \in routed
    /\ style[r] = "none"
    /\ \E s \in {"echo", "helper"}, n \in 1..MaxCopies :
          /\ style' = [style EXCEPT ![r] = s]
          /\ copies' = [copies EXCEPT ![r] = n]
    /\ UNCHANGED <<call, pending, fut, results, routed, accepted>>

Lose(r) ==
    /\ copies[r] > 0
    /\ copies' = [copies EXCEPT ![r] = @ - 1]
    /\ UNCHANGED <<call, pending, fut, results, routed, style, accepted>>

-----------------------------------------------------------------------------
(* on_message, for a task_response *)

\* The reply has the id of a registered request: it is taken off the
\* register, and its future set unless that is done.
Resolve(r) ==
    /\ pending' = pending \ {r}
    /\ fut' = IF fut[r] = "open" THEN [fut EXCEPT ![r] = "set"] ELSE fut
    /\ UNCHANGED results

\* No request has the id: the reply is kept.
Stash(r) ==
    /\ results' = results \cup {r}
    /\ UNCHANGED <<pending, fut>>

\* Slip: the register is not looked at when the request is still being sent.
OnMessageSending(r) ==
    /\ copies[r] > 0
    /\ copies' = [copies EXCEPT ![r] = @ - 1]
    /\ accepted' = IF style[r] = "echo" THEN accepted \cup {r} ELSE accepted
    /\ IF style[r] = "echo" /\ r \in pending /\ call[r] # "sending" THEN Resolve(r) ELSE Stash(r)
    /\ UNCHANGED <<call, routed, style>>

OnMessage(r) ==
    /\ copies[r] > 0
    /\ copies' = [copies EXCEPT ![r] = @ - 1]
    /\ accepted' = IF style[r] = "echo" THEN accepted \cup {r} ELSE accepted
    /\ IF style[r] = "echo" /\ r \in pending THEN Resolve(r) ELSE Stash(r)
    /\ UNCHANGED <<call, routed, style>>

Drain ==
    /\ results # {}
    /\ results' = {}
    /\ UNCHANGED <<call, pending, fut, net, accepted>>

-----------------------------------------------------------------------------
MailInit ==
    /\ call = [r \in Requests |-> "new"]
    /\ pending = {}
    /\ fut = [r \in Requests |-> "open"]
    /\ results = {}
    /\ routed = {}
    /\ style = [r \in Requests |-> "none"]
    /\ copies = [r \in Requests |-> 0]
    /\ accepted = {}

MailNext ==
    \/ \E r \in Requests :
          \/ Call(r) \/ Post(r) \/ SendReturns(r) \/ SendRaises(r) \/ Cancel(r)
          \/ Return(r) \/ Expire(r) \/ TimedOut(r)
          \/ Route(r) \/ PeerReplies(r) \/ Lose(r) \/ OnMessage(r)
    \/ Drain

MailSpec == MailInit /\ [][MailNext]_mailVars

-----------------------------------------------------------------------------
(* Properties *)

GaveUp(r) == call[r] \in {"raised", "cancelled", "timedout"} \/ fut[r] = "cancelled"

MailTypeOK ==
    /\ call \in [Requests -> {"new", "sending", "waiting", "posted", "replied",
                             "raised", "cancelled", "timedout"}]
    /\ pending \subseteq Waiting
    /\ fut \in [Requests -> {"open", "set", "cancelled"}]
    /\ results \subseteq Requests
    /\ routed \subseteq Requests
    /\ style \in [Requests -> {"none", "echo", "helper"}]
    /\ copies \in [Requests -> Nat]
    /\ accepted \subseteq Requests

\* Only a request that is being made, and one whose send raised or whose
\* coroutine was cancelled, has an entry in _pending_requests: a request that
\* was answered or timed out leaves none behind.
NoStaleEntry ==
    \A r \in pending : call[r] \in {"sending", "waiting", "raised", "cancelled"}

\* A reply to a request that on_message has accepted is in its future unless the
\* caller has given up; and a caller that still waits for an open future can
\* still be reached. on_message tells the sender ACK_ACCEPTED in either case.
AcceptedReachesCaller ==
    \A r \in Waiting :
        ~GaveUp(r) /\ call[r] # "new" =>
            IF r \in accepted THEN fut[r] = "set" ELSE r \in pending

Status(r) ==
    IF call[r] = "new" THEN "new"
    ELSE IF r \in Posted THEN "posted"
    ELSE IF GaveUp(r) THEN "over"
    ELSE IF fut[r] = "set" THEN "answered"
    ELSE "open"

\* A reply sent with the helper carries an id that no request has.
Kept == {r \in results : style[r] = "echo"}

Promise == INSTANCE RequestReply WITH status <- [r \in Requests |-> Status(r)], kept <- Kept

\* The mailbox does what RequestReply promises: every request is answered at
\* most once, by its own reply, and a reply is kept exactly when nobody waits.
KeepsPromise == Promise!RRSpec

=============================================================================
