----------------------------- MODULE Assistant -----------------------------
(***************************************************************************)
(* The chat assistant (sdk/python/hivekernel_sdk/assistant.py): turns of a *)
(* conversation that delegate work to other agents and show the results    *)
(* that have come in since. The mailbox is the one of every agent; a       *)
(* delegation is a request made by send_fire_and_forget.                   *)
(***************************************************************************)
EXTENDS Mailbox

CONSTANTS
    Turns,     \* chat messages, each an Execute call; they may overlap
    Inbox,     \* task requests other agents send to the assistant
    Keys       \* what is left of a task's text in the key of its artifact

VARIABLES
    turn,      \* where handle_task is in each turn
    got,       \* the results in the turn's result_prefix
    told,      \* the delegations reported there as timed out
    mine,      \* the delegation the turn makes, if any
    active,    \* self._active_delegations
    old,       \* of these, the ones older than DELEGATION_TIMEOUT
    key,       \* the artifact key of a delegation
    artifact,  \* the delegation whose result is stored under a key
    storing,   \* replies whose store_artifact is under way
    ipc,       \* _process_ipc_task for each task request
    untracked, \* history: replies accepted while the delegation was not active
    unstored   \* history: replies whose store_artifact failed

turnVars == <<turn, got, told, mine>>
bookVars == <<active, old, key, artifact, storing, untracked, unstored>>
stored   == <<artifact, storing, unstored>>
assistantVars     == <<mailVars, turnVars, bookVars, ipc>>

NoDelegation == "none"

ASSUME AssistantAssumption == NoDelegation \notin Posted

-----------------------------------------------------------------------------
(* handle_task *)

\* A reply whose id is one of the delegations.
Correlated == {d \in results : style[d] = "echo"}

\* Slip: a delegation is only taken off the list when it has timed out.
CollectKeeps(u) ==
    LET stale == active \cap old
    IN  /\ results' = {}
        /\ got' = [got EXCEPT ![u] = results]
        /\ told' = [told EXCEPT ![u] = stale]
        /\ active' = active \ stale
        /\ UNCHANGED <<call, pending, fut, net, accepted>>

\* Slip: only the results of known delegations are reported.
CollectKnown(u) ==
    LET stale == (active \ Correlated) \cap old
    IN  /\ results' = {}
        /\ got' = [got EXCEPT ![u] = Correlated \cap active]
        /\ told' = [told EXCEPT ![u] = stale]
        /\ active' = active \ (Correlated \cup stale)
        /\ UNCHANGED <<call, pending, fut, net, accepted>>

\* The mailbox is drained into the prefix of the answer, then the delegations
\* that have taken too long are reported and forgotten.
Collect(u) ==
    LET stale == (active \ Correlated) \cap old
    IN  /\ results' = {}
        /\ got' = [got EXCEPT ![u] = results]
        /\ told' = [told EXCEPT ![u] = stale]
        /\ active' = active \ (Correlated \cup stale)
        /\ UNCHANGED <<call, pending, fut, net, accepted>>

\* An empty message is answered at once.
StartTurn(u) ==
    /\ turn[u] = "new"
    /\ Collect(u)
    /\ turn' \in {[turn EXCEPT ![u] = s] : s \in {"asking", "answered"}}
    /\ UNCHANGED <<mine, old, key, stored, untracked, ipc>>

\* The turn is over; what it collected is kept for the properties.
EndTurn(u, outcome) ==
    /\ turn' = [turn EXCEPT ![u] = outcome]
    /\ told' = [told EXCEPT ![u] = {}]
    /\ mine' = [mine EXCEPT ![u] = NoDelegation]
    /\ UNCHANGED got

\* list_siblings, which may fail, then the LLM. If that fails the turn ends
\* with the error alone.
AskLLM(u) ==
    /\ turn[u] = "asking"
    /\ \/ turn' = [turn EXCEPT ![u] = "acting"] /\ UNCHANGED <<got, told, mine>>
       \/ EndTurn(u, "failed")
    /\ UNCHANGED <<mailVars, bookVars, ipc>>

\* SCHEDULE and DELEGATE_CODE: one call each, whose failure is only reported.
HandleSchedule(u) ==
    /\ turn[u] = "acting"
    /\ turn' \in {[turn EXCEPT ![u] = s] : s \in {"delegating", "closing"}}
    /\ UNCHANGED <<mailVars, got, told, mine, bookVars, ipc>>

HandleDelegation(u) ==
    /\ turn[u] = "delegating"
    /\ \E d \in Posted, k \in Keys :
          /\ Post(d)
          /\ mine' = [mine EXCEPT ![u] = d]
          /\ key' = [key EXCEPT ![d] = k]
    /\ turn' = [turn EXCEPT ![u] = "sending"]
    /\ UNCHANGED <<got, told, active, old, stored, untracked, ipc>>

\* The delegation is entered when the send has returned, not before.
Delegated(u) ==
    /\ turn[u] = "sending"
    /\ \/ /\ mine[u] \in routed
          /\ SendReturns(mine[u])
          /\ active' = active \cup {mine[u]}
       \/ SendRaises(mine[u]) /\ UNCHANGED active
    /\ turn' = [turn EXCEPT ![u] = "closing"]
    /\ UNCHANGED <<got, told, mine, old, key, stored, untracked, ipc>>

\* Prefix, response and the list of what is under way go to the user.
AnswerUser(u) ==
    /\ turn[u] = "closing"
    /\ EndTurn(u, "answered")
    /\ UNCHANGED <<mailVars, bookVars, ipc>>

\* The deadline of the Execute call ends the turn wherever it is.
CancelTurn(u) ==
    /\ turn[u] \in {"asking", "acting", "delegating", "sending", "closing"}
    /\ EndTurn(u, "failed")
    /\ IF turn[u] = "sending" THEN Cancel(mine[u]) ELSE UNCHANGED mailVars
    /\ UNCHANGED <<bookVars, ipc>>

-----------------------------------------------------------------------------
(* on_message *)

\* The reply goes into the mailbox. If it is to an active delegation it is
\* then stored as an artifact and logged.
OnDelegationResult(d) ==
    /\ OnMessage(d)
    /\ IF style[d] = "echo" /\ d \in active
       THEN storing' = storing \cup {d} /\ UNCHANGED untracked
       ELSE /\ untracked' = IF style[d] = "echo" /\ d \notin accepted
                            THEN untracked \cup {d} ELSE untracked
            /\ UNCHANGED storing

DeliverReply(d) ==
    /\ OnDelegationResult(d)
    /\ UNCHANGED <<turnVars, active, old, key, artifact, unstored, ipc>>

\* store_artifact returns or raises; the exception is only logged. Turns may
\* come and go in the meantime.
RecordResult(d) ==
    /\ d \in storing
    /\ storing' = storing \ {d}
    /\ \/ artifact' = [artifact EXCEPT ![key[d]] = d] /\ UNCHANGED unstored
       \/ unstored' = unstored \cup {d} /\ UNCHANGED artifact
    /\ UNCHANGED <<mailVars, turnVars, active, old, key, untracked, ipc>>

-----------------------------------------------------------------------------
(* _process_ipc_task *)

\* An empty task is refused without the LLM.
ReceiveTask(m) ==
    /\ ipc[m] = "new"
    /\ ipc' \in {[ipc EXCEPT ![m] = s] : s \in {"asking", "replying"}}
    /\ UNCHANGED <<mailVars, turnVars, bookVars>>

\* Whatever the LLM answered or raised, a reply is sent with the reply_to
\* helper; if that raises, an error reply is tried, and that is the end.
ProcessTask(m) ==
    /\ \/ ipc[m] = "asking" /\ ipc' = [ipc EXCEPT ![m] = "replying"]
       \/ ipc[m] = "replying" /\ ipc' = [ipc EXCEPT ![m] = "over"]
    /\ UNCHANGED <<mailVars, turnVars, bookVars>>

-----------------------------------------------------------------------------
(* The world *)

Peer(d) ==
    /\ Route(d) \/ PeerReplies(d) \/ Lose(d)
    /\ UNCHANGED <<turnVars, bookVars, ipc>>

\* DELEGATION_TIMEOUT has passed since the delegation was entered.
Age(d) ==
    /\ d \in active \ old
    /\ old' = old \cup {d}
    /\ UNCHANGED <<mailVars, turnVars, active, key, stored, untracked, ipc>>

AssistantInit ==
    /\ MailInit
    /\ turn = [u \in Turns |-> "new"]
    /\ got = [u \in Turns |-> {}]
    /\ told = [u \in Turns |-> {}]
    /\ mine = [u \in Turns |-> NoDelegation]
    /\ active = {}
    /\ old = {}
    /\ key \in [Posted -> Keys]
    /\ artifact = [k \in Keys |-> NoDelegation]
    /\ ipc = [m \in Inbox |-> "new"]
    /\ storing = {}
    /\ untracked = {}
    /\ unstored = {}

TurnStep(u) ==
    \/ AskLLM(u) \/ HandleSchedule(u) \/ HandleDelegation(u)
    \/ Delegated(u) \/ AnswerUser(u)

AssistantNext ==
    \/ \E u \in Turns : StartTurn(u) \/ TurnStep(u) \/ CancelTurn(u)
    \/ \E d \in Posted : DeliverReply(d) \/ RecordResult(d) \/ Peer(d) \/ Age(d)
    \/ \E m \in Inbox : ReceiveTask(m) \/ ProcessTask(m)

AssistantSpec == AssistantInit /\ [][AssistantNext]_assistantVars

-----------------------------------------------------------------------------
(* Properties *)

AssistantTypeOK ==
    /\ MailTypeOK
    /\ turn \in [Turns -> {"new", "asking", "acting", "delegating", "sending",
                           "closing", "answered", "failed"}]
    /\ got \in [Turns -> SUBSET Posted]
    /\ told \in [Turns -> SUBSET Posted]
    /\ mine \in [Turns -> Posted \cup {NoDelegation}]
    /\ active \subseteq Posted /\ old \subseteq Posted /\ storing \subseteq Posted
    /\ untracked \subseteq Posted /\ unstored \subseteq Posted
    /\ key \in [Posted -> Keys]
    /\ artifact \in [Keys -> Posted \cup {NoDelegation}]
    /\ ipc \in [Inbox -> {"new", "asking", "replying", "over"}]

\* "Results arrive with the user's next message": a result the assistant has
\* accepted is in the mailbox, or in the answer of the turn that collected it.
\* If that turn fails, by an LLM error or its deadline, the result is in the
\* artifact of its delegation or on its way there, unless it was not recorded
\* (it came before the delegation was entered or after it was given up, or the
\* kernel refused the artifact) or was overwritten by another delegation whose
\* task text begins alike.
NoResultLost ==
    \A d \in accepted :
        \/ d \in results
        \/ \E u \in Turns :
              /\ d \in got[u]
              /\ turn[u] = "failed" =>
                    d \in untracked \cup unstored \cup storing \/ artifact[key[d]] \in accepted

\* When a delegation is reported as timed out, its result has not been reported
\* before and is not reported with it. The exceptions are a peer that replies
\* with the reply_to helper, whose result is shown as coming from "unknown",
\* and a reply that another turn collected before the delegation was entered.
HonestTimeout ==
    [][\A u \in Turns : \A d \in told'[u] \ told[u] :
          style[d] = "echo" /\ d \notin untracked => \A v \in Turns : d \notin got'[v]]_assistantVars
=============================================================================
