---------------------------- MODULE RequestReply ----------------------------
(***************************************************************************)
(* What an agent's mailbox promises (docs/MAILBOX.md, "Request-Response"   *)
(* and "Fire-and-Forget"): a request is answered at most once, by its own  *)
(* reply; a reply nobody waits for is kept until it is collected.          *)
(***************************************************************************)
CONSTANT Requests

VARIABLES
    status,   \* of each request
    kept      \* requests with a reply kept in the mailbox

rrVars == <<status, kept>>

RRTypeOK ==
    /\ status \in [Requests -> {"new", "open", "answered", "over", "posted"}]
    /\ kept \subseteq Requests

RRInit == status = [r \in Requests |-> "new"] /\ kept = {}

Become(r, from, to) ==
    /\ status[r] \in from
    /\ status' = [status EXCEPT ![r] = to]
    /\ kept' = kept

\* The caller asks and waits, or posts and goes on.
Ask(r)  == Become(r, {"new"}, "open")
Post(r) == Become(r, {"new"}, "posted")

\* The reply reaches the caller that waits for it.
Answer(r) == Become(r, {"open"}, "answered")

\* The caller stops waiting, without a reply or before it has looked at it.
GiveUp(r) == Become(r, {"open", "answered"}, "over")

\* A reply that nobody waits for: late, repeated or to a posted request.
Keep(r) ==
    /\ status[r] \in {"answered", "over", "posted"}
    /\ kept' = kept \cup {r}
    /\ status' = status

Collect == kept' = {} /\ status' = status

RRNext ==
    \/ \E r \in Requests : Ask(r) \/ Post(r) \/ Answer(r) \/ GiveUp(r) \/ Keep(r)
    \/ Collect

RRSpec == RRInit /\ [][RRNext]_rrVars
=============================================================================
