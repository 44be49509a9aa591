------------------------------ MODULE ToolLoop ------------------------------
(***************************************************************************)
(* An agent with tools (sdk/python/hivekernel_sdk/tool_agent.py, loop.py,  *)
(* memory.py, llm.py): runs of the agent loop that share one AgentMemory   *)
(* and one LLMClient.                                                      *)
(*                                                                         *)
(* A step is the code between two awaits, except that the await of         *)
(* log_event between an answer or a tool and its record is not a step of   *)
(* its own: a run cancelled there is a case of CancelRun. handle_task runs *)
(* once per Execute stream and handle_message once per message, so they    *)
(* overlap. A message of the conversation is its role and the run that     *)
(* added it.                                                               *)
(* Texts, and with them sizes, are left out: whether something is too      *)
(* large is a free choice.                                                 *)
(***************************************************************************)
EXTENDS Integers, Sequences, FiniteSets

CONSTANTS
    Runs,        \* calls of handle_task and handle_message
    Earlier,     \* how many messages earlier sessions may have stored (SessionBounded)
    MaxIter,     \* max_iterations
    MaxTools,    \* bound: tool calls in one answer of the LLM
    Threshold,   \* messages above which the history is summarised (10)
    Retries      \* tries per LLM call (3)

ASSUME ToolLoopAssumption ==
    /\ Earlier \subseteq 0..Threshold
    /\ MaxIter \in Nat \ {0}
    /\ MaxTools \in Nat \ {0}
    /\ Threshold \in Nat \ {0, 1, 2, 3}
    /\ Retries \in Nat \ {0}

VARIABLES
    pc,        \* where each run waits
    messages,  \* self.memory.messages
    longTerm,  \* self.memory.long_term
    store,     \* the artifacts: long-term memory, and session (empty if missing)
    llmCalls,  \* self.llm.llm_calls
    from,      \* llm_start_calls of a run
    iter,      \* iterations of a run
    tries,     \* tries of its present LLM call
    tools,     \* tool calls still to execute
    keep,      \* keep_messages of a summarisation under way
    usage,     \* the llm_calls a finished run reports
    own,       \* history: LLM calls made for the run
    shared,    \* history: the run has overlapped another
    missed,    \* history: the runs that could not load the session
    squeezed,  \* history: the context was compressed during the run
    split      \* history: a cut has left a tool result without its call

memory   == <<messages, longTerm>>
progress == <<iter, tries, tools>>
history  == <<shared, missed, squeezed, split>>
vars     == <<pc, memory, store, llmCalls, from, progress, keep, usage, own, history>>

None  == "none"    \* no artifact, no run
Empty == ""

Message(role, u) == [role |-> role, run |-> u]

Active == {u \in Runs : pc[u] \notin {"new", "done", "failed"}}

\* The loop is over: its locals are gone, and what was noted of its context.
LoopEnds(u) ==
    /\ missed' = missed \ {u}
    /\ squeezed' = squeezed \ {u}
    /\ iter' = [iter EXCEPT ![u] = 0]
    /\ tries' = [tries EXCEPT ![u] = 0]
    /\ tools' = [tools EXCEPT ![u] = 0]

\* The run raises; it reports no usage.
Raises(u) ==
    /\ pc' = [pc EXCEPT ![u] = "failed"]
    /\ LoopEnds(u)
    /\ from' = [from EXCEPT ![u] = 0]
    /\ keep' = [keep EXCEPT ![u] = <<>>]
    /\ own' = [own EXCEPT ![u] = 0]

-----------------------------------------------------------------------------
(* AgentMemory *)

AddMessage(role, u) == messages' = Append(messages, Message(role, u))

Last(s, n) == SubSeq(s, Len(s) - n + 1, Len(s))

Orphaned(s) == s # <<>> /\ Head(s).role = "tool"

\* force_compress: the last four messages, then two, then one.
ForceCompress(s) ==
    IF Len(s) > 4 THEN Last(s, 4)
    ELSE IF Len(s) > 2 THEN Last(s, 2)
    ELSE IF Len(s) > 1 THEN Last(s, 1)
    ELSE s

\* As often as the estimate is above the budget and still falls.
Compressions(s) ==
    {s, ForceCompress(s), ForceCompress(ForceCompress(s)),
     ForceCompress(ForceCompress(ForceCompress(s)))}

\* load, first key. A missing artifact, and any failure of the call, leaves the
\* field as it is.
LoadMemory(u) ==
    /\ pc[u] = "new"
    /\ pc' = [pc EXCEPT ![u] = "loadSession"]
    /\ longTerm' \in {longTerm, IF store.memory = None THEN longTerm ELSE store.memory}
    /\ shared' = [v \in Runs |-> shared[v] \/ (Active # {} /\ v \in Active \cup {u})]
    /\ UNCHANGED <<messages, store, llmCalls, from, progress, keep, usage, own, missed, squeezed, split>>

\* Slip: what is there is kept.
LoadSessionOnce(u) ==
    /\ pc[u] = "loadSession"
    /\ pc' = [pc EXCEPT ![u] = "loadSummary"]
    /\ messages' = IF messages = <<>> THEN store.session ELSE messages
    /\ UNCHANGED <<longTerm, store, llmCalls, from, progress, keep, usage, own, history>>

\* load, second key.
LoadSession(u) ==
    /\ pc[u] = "loadSession"
    /\ pc' = [pc EXCEPT ![u] = "loadSummary"]
    /\ \/ /\ messages' = IF store.session = <<>> THEN messages ELSE store.session
          /\ UNCHANGED missed
       \/ missed' = missed \cup {u} /\ UNCHANGED messages
    /\ UNCHANGED <<longTerm, store, llmCalls, from, progress, keep, usage, own,
                   shared, squeezed, split>>

\* save stores memory, session and summary one after the other and stops at
\* the first failure, which is only logged.
SaveMemory(u) ==
    /\ pc[u] = "saveMemory"
    /\ \/ store' = [store EXCEPT !.memory = longTerm] /\ pc' = [pc EXCEPT ![u] = "saveSession"]
       \/ pc' = [pc EXCEPT ![u] = "report"] /\ UNCHANGED store
    /\ UNCHANGED <<memory, llmCalls, from, progress, keep, usage, own, history>>

SaveSession(u) ==
    /\ pc[u] = "saveSession"
    /\ store' \in {store, [store EXCEPT !.session = messages]}
    /\ pc' = [pc EXCEPT ![u] = "report"]
    /\ UNCHANGED <<memory, llmCalls, from, progress, keep, usage, own, history>>

-----------------------------------------------------------------------------
(* AgentLoop.run *)

\* Slip: the counter is read when the first answer is there.
SnapshotLate(u) == from' = [from EXCEPT ![u] = llmCalls + 1]

Snapshot(u) == from' = [from EXCEPT ![u] = llmCalls]

\* load's last key, the prompt, the counters, and the pre-flight compression.
Start(u) ==
    /\ pc[u] = "loadSummary"
    /\ LET s == Append(messages, Message("user", u))
       IN  /\ messages' \in Compressions(s)
           /\ squeezed' = IF messages' # s THEN squeezed \cup {u} ELSE squeezed
    /\ split' = (split \/ Orphaned(messages'))
    /\ Snapshot(u)
    /\ pc' = [pc EXCEPT ![u] = "llm"]
    /\ iter' = [iter EXCEPT ![u] = 1]
    /\ UNCHANGED <<longTerm, store, llmCalls, tries, tools, keep, usage, own, shared, missed>>

\* chat_with_tools counts an answered call.
Counted(u) ==
    /\ llmCalls' = llmCalls + 1
    /\ own' = [own EXCEPT ![u] = @ + 1]

\* chat, for a summary: counted, or not if it fails before it has an answer.
Chat(u) == Counted(u) \/ UNCHANGED <<llmCalls, own>>

\* Slip: the test is for twice the number.
NeedsSummarizationLate(s) == {Len(s) > 2 * Threshold}

\* needs_summarization: too many messages, or too long.
NeedsSummarization(s) == {Len(s) > Threshold} \cup {TRUE}

\* After the last answer: summarise the older part if needed, then save.
Wrap(u, s) ==
    \E summarise \in NeedsSummarization(s) :
        IF summarise /\ Len(s) > 4
        THEN pc' = [pc EXCEPT ![u] = "summarize"] /\ keep' = [keep EXCEPT ![u] = Last(s, 4)]
        ELSE pc' = [pc EXCEPT ![u] = "saveMemory"] /\ UNCHANGED keep

\* The LLM answers with a text: it is recorded and the loop ends.
FinalAnswer(u) ==
    /\ pc[u] = "llm"
    /\ Counted(u)
    /\ AddMessage("assistant", u)
    /\ Wrap(u, messages')
    /\ LoopEnds(u)
    /\ UNCHANGED <<longTerm, store, from, usage, shared, split>>

\* Slip: only the results of the tools are recorded.
ToolCallsUnrecorded(u) ==
    /\ pc[u] = "llm"
    /\ Counted(u)
    /\ \E n \in 1..MaxTools : tools' = [tools EXCEPT ![u] = n]
    /\ pc' = [pc EXCEPT ![u] = "tool"]
    /\ UNCHANGED <<memory, store, from, iter, tries, keep, usage, history>>

\* It asks for tools: the request is recorded before the first is executed.
ToolCalls(u) ==
    /\ pc[u] = "llm"
    /\ Counted(u)
    /\ AddMessage("calls", u)
    /\ \E n \in 1..MaxTools : tools' = [tools EXCEPT ![u] = n]
    /\ pc' = [pc EXCEPT ![u] = "tool"]
    /\ UNCHANGED <<longTerm, store, from, iter, tries, keep, usage, history>>

\* The context is too long: compress and try again, or give up.
Overflow(u) ==
    /\ pc[u] = "llm"
    /\ messages' = ForceCompress(messages)
    /\ split' = (split \/ Orphaned(messages'))
    /\ IF tries[u] + 1 < Retries
       THEN /\ tries' = [tries EXCEPT ![u] = @ + 1]
            /\ squeezed' = squeezed \cup {u}
            /\ UNCHANGED <<pc, from, iter, tools, keep, own, missed>>
       ELSE Raises(u)
    /\ UNCHANGED <<longTerm, store, llmCalls, usage, shared>>

\* Any other error is raised. An answer without choices has been counted.
LLMError(u) ==
    /\ pc[u] = "llm"
    /\ Raises(u)
    /\ llmCalls' \in {llmCalls, llmCalls + 1}
    /\ UNCHANGED <<memory, store, usage, shared, split>>

\* Slip: one iteration too many.
IterationLeftOneMore(u) == iter[u] <= MaxIter

\* for iteration in range(1, max_iterations + 1)
IterationLeft(u) == iter[u] < MaxIter

\* memory_store writes the artifact, past AgentMemory.
MemoryStore(u) == [store EXCEPT !.memory = u]

\* registry.execute: an unknown tool, and one that raises, changes nothing; only
\* memory_store touches what is modelled here.
Executed(u) == {store, MemoryStore(u)}

\* One tool is executed, and its result or error recorded.
ExecuteTool(u) ==
    /\ pc[u] = "tool"
    /\ AddMessage("tool", u)
    /\ store' \in Executed(u)
    /\ IF tools[u] > 1
       THEN /\ tools' = [tools EXCEPT ![u] = @ - 1]
            /\ UNCHANGED <<pc, iter, tries, keep, missed, squeezed>>
       ELSE IF IterationLeft(u)
       THEN /\ pc' = [pc EXCEPT ![u] = "llm"]
            /\ iter' = [iter EXCEPT ![u] = @ + 1]
            /\ tries' = [tries EXCEPT ![u] = 0]
            /\ tools' = [tools EXCEPT ![u] = 0]
            /\ UNCHANGED <<keep, missed, squeezed>>
       ELSE Wrap(u, messages') /\ LoopEnds(u)
    /\ UNCHANGED <<longTerm, llmCalls, from, usage, own, shared, split>>

\* _summarize: the messages kept replace whatever is there by now, and the
\* older ones are gone even if the LLM failed.
Summarize(u) ==
    /\ pc[u] = "summarize"
    /\ Chat(u)
    /\ messages' = keep[u]
    /\ split' = (split \/ Orphaned(messages'))
    /\ keep' = [keep EXCEPT ![u] = <<>>]
    /\ pc' = [pc EXCEPT ![u] = "saveMemory"]
    /\ UNCHANGED <<longTerm, store, from, progress, usage, shared, missed, squeezed>>

\* The result, with what the counters have grown by.
Report(u) ==
    /\ pc[u] = "report"
    /\ usage' = [usage EXCEPT ![u] = llmCalls - from[u]]
    /\ pc' = [pc EXCEPT ![u] = "done"]
    /\ from' = [from EXCEPT ![u] = 0]
    /\ UNCHANGED <<memory, store, llmCalls, progress, keep, own, history>>

\* The deadline of the Execute call or, after 10 s, of DeliverMessage: the run
\* is cancelled where it waits, perhaps with its answer counted or its tool
\* executed but not recorded.
CancelRun(u) ==
    /\ u \in Active
    /\ Raises(u)
    /\ \/ UNCHANGED <<store, llmCalls>>
       \/ pc[u] = "llm" /\ llmCalls' = llmCalls + 1 /\ UNCHANGED store
       \/ pc[u] = "tool" /\ store' = MemoryStore(u) /\ UNCHANGED llmCalls
    /\ UNCHANGED <<memory, usage, shared, split>>

-----------------------------------------------------------------------------
\* What may have been stored before: exchanges without tools.
Exchanges(n) == [i \in 1..n |-> Message(IF i % 2 = 1 THEN "user" ELSE "assistant", None)]

Init ==
    /\ pc = [u \in Runs |-> "new"]
    /\ messages = <<>>
    /\ longTerm = Empty
    /\ \E n \in Earlier : store = [memory |-> None, session |-> Exchanges(n)]
    /\ llmCalls = 0
    /\ from = [u \in Runs |-> 0]
    /\ iter = [u \in Runs |-> 0]
    /\ tries = [u \in Runs |-> 0]
    /\ tools = [u \in Runs |-> 0]
    /\ keep = [u \in Runs |-> <<>>]
    /\ usage = [u \in Runs |-> 0]
    /\ own = [u \in Runs |-> 0]
    /\ shared = [u \in Runs |-> FALSE]
    /\ missed = {}
    /\ squeezed = {}
    /\ split = FALSE

RunStep(u) ==
    \/ LoadSession(u) \/ Start(u)
    \/ FinalAnswer(u) \/ ToolCalls(u) \/ Overflow(u) \/ LLMError(u)
    \/ ExecuteTool(u) \/ Summarize(u)
    \/ SaveMemory(u) \/ SaveSession(u) \/ Report(u)

Next == \E u \in Runs : LoadMemory(u) \/ RunStep(u) \/ CancelRun(u)

Spec == Init /\ [][Next]_vars

-----------------------------------------------------------------------------
(* Properties *)

Roles == {"user", "assistant", "calls", "tool"}

TypeOK ==
    /\ pc \in [Runs -> {"new", "loadSession", "loadSummary", "llm", "tool", "summarize",
                        "saveMemory", "saveSession", "report", "done", "failed"}]
    /\ \A i \in 1..Len(messages) : messages[i] \in [role : Roles, run : Runs \cup {None}]
    /\ iter \in [Runs -> 0..MaxIter]
    /\ tries \in [Runs -> 0..(Retries - 1)]
    /\ tools \in [Runs -> 0..MaxTools]
    /\ \A u \in Runs : Len(keep[u]) <= 4

Alone(u) == ~shared[u]

\* The LLM sees the prompt it is to answer: whenever a run calls it, the run's
\* own message is in the context, if no other run has overlapped it (load and
\* _summarize replace the history under a running loop) and the context has
\* not been compressed since.
PromptInContext ==
    \A u \in Runs :
        pc[u] = "llm" /\ Alone(u) /\ u \notin squeezed =>
            \E i \in 1..Len(messages) : messages[i] = Message("user", u)

\* A tool result in the history follows the request for it or another result
\* of the same request, as the chat API demands. Only two things break this:
\* overlapping runs, and a cut to the last messages that begins at a result.
ToolResultsPaired ==
    (\A u \in Runs : Alone(u)) /\ ~split =>
        \A i \in 1..Len(messages) :
            messages[i].role = "tool" =>
                i > 1 /\ messages[i - 1] \in {Message("calls", messages[i].run),
                                              Message("tool", messages[i].run)}

\* The messages handed to the chat API are a conversation it accepts, and the
\* one that was asked for.
ContextWellFormed == PromptInContext /\ ToolResultsPaired

\* What a run reports as its LLM calls is never less than it has made, and
\* exactly that when it was alone: the counters are shared and never reset.
UsageCovers ==
    \A u \in Runs :
        pc[u] = "done" => usage[u] >= own[u] /\ (Alone(u) => usage[u] = own[u])

\* The stored history does not grow without bound from session to session.
SessionBounded ==
    (\A u \in Runs : Alone(u)) => Len(store.session) <= Threshold

\* A run that fails or is cancelled leaves nothing in the context of the next
\* one but what it had saved: load puts the stored session in its place. (The
\* remains stay if none has been stored yet, or if the lookup fails.)
FailedRunForgotten ==
    \A u, v \in Runs :
        pc[u] = "llm" /\ Alone(u) /\ u \notin missed /\ pc[v] = "failed" /\ store.session # <<>> =>
            \A i \in 1..Len(messages) :
                messages[i].run = v =>
                    \E j \in 1..Len(store.session) : store.session[j].run = v

\* "Save information to long-term memory for recall across sessions": what
\* memory_store has stored is replaced only by another memory_store.
MemoryStoreLasts == [][store.memory \in Runs => store'.memory \in Runs]_vars
=============================================================================
