----------------------------- MODULE Dashboard -----------------------------
(***************************************************************************)
(* The dashboard server (sdk/python/dashboard/app.py) beside the kernel    *)
(* whose process table it mirrors. The cache is filled by a full resync    *)
(* and kept up by the event stream; a safety loop compares it with the     *)
(* table; browsers get the tree once and deltas from then on.              *)
(*                                                                         *)
(* One asyncio loop: a step is the code between two awaits. The kernel     *)
(* answers a listing at one moment and the dashboard uses the answer at a  *)
(* later one. The kernel may restart: its table, its event numbers and its *)
(* PIDs then begin anew, while the dashboard keeps what it has.            *)
(***************************************************************************)
EXTENDS Integers, Sequences, FiniteSetsExt

CONSTANTS
    MaxPid,            \* bound: PIDs 2..MaxPid; the king is always there
    Clients,           \* browsers
    MaxEvents,         \* bound: events, over all kernels
    MaxFaults,         \* bound: kernel restarts, timeouts, broken streams, dropped events
    MESSAGE_LOG_MAX

Pids    == 2..MaxPid
Loops   == {"listener", "safety"}
Callers == Loops \cup Clients
Names   == {"queen", "assistant"}
States  == {"idle", "zombie"}
Absent  == [name |-> "", state |-> "none"]
Nodes   == [name : Names, state : States]
Trees   == [Pids -> Nodes \cup {Absent}]
Empty   == [p \in Pids |-> Absent]

ASSUME DashboardAssumption ==
    /\ {MaxPid, MaxEvents, MaxFaults} \subseteq Nat
    /\ IsFiniteSet(Clients) /\ Clients \cap Loops = {}
    /\ MESSAGE_LOG_MAX \in Nat \ {0}

VARIABLES
    table,        \* kernel: its processes
    nextPid,      \* kernel
    log,          \* kernel: the events of this run; the number is the position
    events,       \* bound used up: events so far
    restarts,     \* bound used up
    faults,       \* bound used up
    strm,         \* the event stream: 0, or the position it delivers next
    cache,        \* tree_cache
    king,         \* tree_cache holds PID 1: a resync has succeeded
    last_seq,
    listener,     \* where event_listener waits
    safety,       \* where safety_resync waits
    rpc,          \* the listing each coroutine waits for
    cast,         \* the loop over ws_clients that event_listener is in
    ws_clients,
    message_log,
    req           \* the REST request in progress, and the name it is recorded under

kernel == <<table, nextPid, log, events, restarts>>
vars   == <<kernel, faults, strm, cache, king, last_seq, listener, safety, rpc,
            cast, ws_clients, message_log, req>>

NoRpc  == [pc |-> "off", snap |-> Empty]
NoCast == [todo |-> {}, size |-> 0, again |-> FALSE]
NoReq  == [pid |-> 0, name |-> ""]

Live(t) == {p \in Pids : t[p] # Absent}

\* A fault uses up a part of the bound.
Fault == faults < MaxFaults /\ faults' = faults + 1

-----------------------------------------------------------------------------
(* The kernel. The registry changes and emits its event under one lock. *)

Emit(type, what, node) ==
    /\ events < MaxEvents /\ events' = events + 1
    /\ log' = Append(log, [type |-> type, what |-> what, node |-> node])

\* A PID may have another name in the kernel's next run.
Name(p) == IF (p + restarts) % 2 = 0 THEN "queen" ELSE "assistant"

Register ==
    /\ nextPid \in Pids
    /\ table' = [table EXCEPT ![nextPid] = [name |-> Name(nextPid), state |-> "idle"]]
    /\ Emit("spawned", nextPid, table'[nextPid])
    /\ nextPid' = nextPid + 1
    /\ UNCHANGED <<restarts>>

SetState(p) ==
    /\ table[p] # Absent /\ table[p].state = "idle"
    /\ table' = [table EXCEPT ![p].state = "zombie"]
    /\ Emit("state_changed", p, table'[p])
    /\ UNCHANGED <<nextPid, restarts>>

Remove(p) ==
    /\ table[p] # Absent /\ table[p].state = "zombie"
    /\ table' = [table EXCEPT ![p] = Absent]
    /\ Emit("removed", p, Absent)
    /\ UNCHANGED <<nextPid, restarts>>

\* One message per run of the kernel, named after the run.
SendMessage ==
    /\ \A i \in DOMAIN log : log[i].type # "message_sent"
    /\ Emit("message_sent", restarts, Absent)
    /\ UNCHANGED <<table, nextPid, restarts>>

Kernel ==
    /\ \/ Register \/ SendMessage
       \/ \E p \in Pids : SetState(p) \/ Remove(p)
    /\ UNCHANGED <<faults, strm, cache, king, last_seq, listener, safety, rpc, cast,
                   ws_clients, message_log, req>>

\* Every RPC in flight fails, the stream ends.
Restart ==
    /\ Fault /\ restarts' = restarts + 1
    /\ table' = Empty /\ nextPid' = 2 /\ log' = <<>>
    /\ strm' = 0
    /\ rpc' = [c \in Callers |-> IF rpc[c].pc = "asked" THEN [rpc[c] EXCEPT !.pc = "failed"] ELSE rpc[c]]
    /\ req' = IF req = NoReq THEN req ELSE [req EXCEPT !.pid = 0]
    /\ UNCHANGED <<events, cache, king, last_seq, listener, safety, cast,
                   ws_clients, message_log>>

-----------------------------------------------------------------------------
(* full_resync *)

\* The coroutine c awaits GetProcessInfo and ListChildren.
Ask(c) == rpc' = [rpc EXCEPT ![c] = [pc |-> "asked", snap |-> Empty]]

\* The kernel answers with the table as it is now.
ListChildren(c) ==
    /\ rpc[c].pc = "asked"
    /\ rpc' = [rpc EXCEPT ![c] = [pc |-> "have", snap |-> table]]
    /\ UNCHANGED <<kernel, faults, strm, cache, king, last_seq, listener, safety, cast,
                   ws_clients, message_log, req>>

ListTimeout(c) ==
    /\ rpc[c].pc = "asked" /\ Fault
    /\ rpc' = [rpc EXCEPT ![c].pc = "failed"]
    /\ UNCHANGED <<kernel, strm, cache, king, last_seq, listener, safety, cast,
                   ws_clients, message_log, req>>

Answered(c) == rpc[c].pc \in {"have", "failed"}

\* The rest of full_resync in coroutine c: the answer replaces the cache, a
\* failure leaves it. Nothing is sent to the browsers here.
full_resync(c) ==
    /\ Answered(c)
    /\ rpc' = [rpc EXCEPT ![c] = NoRpc]
    /\ IF rpc[c].pc = "have" THEN cache' = rpc[c].snap /\ king' = TRUE
                             ELSE UNCHANGED <<cache, king>>

\* tree_cache is true for Python.
Cached == king \/ Live(cache) # {}

-----------------------------------------------------------------------------
(* apply_event *)

Lifecycle == {"spawned", "state_changed", "removed"}

\* What the event does to a tree; a change of state needs the node.
Applied(t, e) ==
    CASE e.type = "spawned"       -> [t EXCEPT ![e.what] = e.node]
      [] e.type = "state_changed" -> IF t[e.what] = Absent THEN t
                                     ELSE [t EXCEPT ![e.what].state = e.node.state]
      [] e.type = "removed"       -> [t EXCEPT ![e.what] = Absent]
      [] OTHER                    -> t

\* Oldest entries go first.
Trim(s, max) == IF Len(s) > max THEN SubSeq(s, Len(s) - max + 1, Len(s)) ELSE s

record_message(id) == Trim(Append(message_log, id), MESSAGE_LOG_MAX)

\* Slip: the number is noted for tree events only.
apply_eventTree(e, n) ==
    /\ last_seq' = IF e.type \in Lifecycle THEN n ELSE last_seq
    /\ cache' = Applied(cache, e)
    /\ king' = king
    /\ message_log' = IF e.type = "message_sent" THEN record_message(e.what) ELSE message_log

apply_event(e, n) ==
    /\ last_seq' = n
    /\ cache' = Applied(cache, e)
    /\ king' = king
    /\ message_log' = IF e.type = "message_sent" THEN record_message(e.what) ELSE message_log

-----------------------------------------------------------------------------
(* Loops over ws_clients *)

\* The loop begins; the set's iterator remembers the size. Without browsers
\* nothing is awaited. If again, a second loop follows.
Begin(again) ==
    IF ws_clients = {} THEN UNCHANGED <<cast, listener>>
    ELSE /\ cast' = [todo |-> ws_clients, size |-> Cardinality(ws_clients), again |-> again]
         /\ listener' = "cast"

Disturbed == cast.size # Cardinality(ws_clients)

\* The next browser has been sent the message, or has gone.
CastTo(c) ==
    /\ listener = "cast" /\ c \in cast.todo /\ ~Disturbed
    /\ cast' = [cast EXCEPT !.todo = @ \ {c}]
    /\ UNCHANGED <<kernel, faults, strm, cache, king, last_seq, listener, safety, rpc,
                   ws_clients, message_log, req>>

-----------------------------------------------------------------------------
(* event_listener *)

\* It subscribes whether or not the resync has succeeded.
ListenerResynced ==
    /\ listener = "resync"
    /\ full_resync("listener")
    /\ listener' = "subscribe"
    /\ UNCHANGED <<kernel, faults, strm, last_seq, safety, cast, ws_clients, message_log, req>>

\* The kernel replays what it has after since_seq, then sends what comes. A
\* number from before a restart is beyond its log: nothing is replayed.
SubscribeEvents ==
    /\ listener = "subscribe"
    /\ listener' = "read"
    /\ strm' = IF last_seq <= Len(log) THEN last_seq + 1 ELSE Len(log) + 1
    /\ UNCHANGED <<kernel, faults, cache, king, last_seq, safety, rpc, cast, ws_clients,
                   message_log, req>>

\* A tree event is broadcast as a delta, then as a log line. A change of state
\* of a process the cache lacks has no delta.
Twice(e) == e.type \in Lifecycle /\ ~(e.type = "state_changed" /\ cache[e.what] = Absent)

\* The next event is applied and its delta broadcast.
ReadEvent ==
    /\ listener = "read" /\ strm \in DOMAIN log
    /\ apply_event(log[strm], strm)
    /\ strm' = strm + 1
    /\ Begin(Twice(log[strm]))
    /\ UNCHANGED <<kernel, faults, king, safety, rpc, ws_clients, req>>

\* The subscriber's channel is full: the kernel drops the event.
DropEvent ==
    /\ strm \in DOMAIN log /\ Fault
    /\ strm' = strm + 1
    /\ UNCHANGED <<kernel, cache, king, last_seq, listener, safety, rpc, cast, ws_clients,
                   message_log, req>>

BreakStream ==
    /\ strm # 0 /\ Fault
    /\ strm' = 0
    /\ UNCHANGED <<kernel, cache, king, last_seq, listener, safety, rpc, cast, ws_clients,
                   message_log, req>>

\* A set that has changed its size ends the iteration with an exception, which
\* drops the stream as well.
ListenerCasts ==
    /\ listener = "cast"
    /\ \/ /\ ~Disturbed /\ cast.todo = {} /\ cast.again
          /\ Begin(FALSE)
          /\ UNCHANGED <<strm, rpc>>
       \/ /\ ~Disturbed /\ cast.todo = {} /\ ~cast.again
          /\ cast' = NoCast /\ listener' = "read"
          /\ UNCHANGED <<strm, rpc>>
       \/ /\ Disturbed
          /\ cast' = NoCast /\ listener' = "resync"
          /\ strm' = 0 /\ Ask("listener")
    /\ UNCHANGED <<kernel, faults, cache, king, last_seq, safety, ws_clients, message_log, req>>

StreamEnds ==
    /\ listener = "read" /\ strm = 0
    /\ listener' = "resync" /\ Ask("listener")
    /\ UNCHANGED <<kernel, faults, strm, cache, king, last_seq, safety, cast,
                   ws_clients, message_log, req>>

event_listener ==
    \/ ListenerResynced \/ SubscribeEvents \/ ReadEvent
    \/ ListenerCasts \/ StreamEnds

-----------------------------------------------------------------------------
(* safety_resync *)

SafetyWakes ==
    /\ safety = "sleep" /\ Cached
    /\ Ask("safety")
    /\ safety' = "compare"
    /\ UNCHANGED <<kernel, faults, strm, cache, king, last_seq, listener, cast,
                   ws_clients, message_log, req>>

\* Slip: the loop only looks for processes the cache lacks.
DriftMissing(snap) == ~king \/ Live(snap) \ Live(cache) # {}

\* Only the PIDs are compared.
Drift(snap) == ~king \/ Live(snap) # Live(cache)

SafetyCompares ==
    /\ safety = "compare" /\ Answered("safety")
    /\ IF rpc["safety"].pc = "have" /\ Drift(rpc["safety"].snap)
       THEN Ask("safety") /\ safety' = "resync"
       ELSE rpc' = [rpc EXCEPT !["safety"] = NoRpc] /\ safety' = "sleep"
    /\ UNCHANGED <<kernel, faults, strm, cache, king, last_seq, listener, cast,
                   ws_clients, message_log, req>>

\* The tree is then pushed to the browsers, whether or not the resync has
\* succeeded, and an exception in the loop over them is ignored.
SafetyPushes ==
    /\ safety = "resync"
    /\ full_resync("safety")
    /\ safety' = "sleep"
    /\ UNCHANGED <<kernel, faults, strm, last_seq, listener, cast, ws_clients, message_log, req>>

safety_resync == SafetyWakes \/ SafetyCompares \/ SafetyPushes

-----------------------------------------------------------------------------
(* websocket_endpoint *)

\* The browser joins ws_clients and is sent the tree, after a resync if there
\* is none.
Connect(c) ==
    /\ c \notin ws_clients
    /\ ws_clients' = ws_clients \cup {c}
    /\ IF Cached THEN UNCHANGED rpc ELSE Ask(c)
    /\ UNCHANGED <<kernel, faults, strm, cache, king, last_seq, listener, safety, cast,
                   message_log, req>>

Refresh(c) ==
    /\ c \in ws_clients /\ rpc[c].pc = "off"
    /\ Ask(c)
    /\ UNCHANGED <<kernel, faults, strm, cache, king, last_seq, listener, safety, cast,
                   ws_clients, message_log, req>>

\* The tree goes out after the resync.
SendTree(c) ==
    /\ full_resync(c)
    /\ UNCHANGED <<kernel, faults, strm, last_seq, listener, safety, cast, ws_clients, message_log, req>>

Disconnect(c) ==
    /\ c \in ws_clients
    /\ ws_clients' = ws_clients \ {c}
    /\ rpc' = [rpc EXCEPT ![c] = NoRpc]
    /\ cast' = [cast EXCEPT !.todo = @ \ {c}]
    /\ UNCHANGED <<kernel, faults, strm, cache, king, last_seq, listener, safety, message_log, req>>

websocket_endpoint(c) == Connect(c) \/ Refresh(c) \/ SendTree(c) \/ Disconnect(c)

-----------------------------------------------------------------------------
(* Tasks sent through the REST interface *)

\* Slip: any daemon of the tree will do.
FindAny(want) == {p \in Pids : cache[p] # Absent}

\* _find_queen_pid, _find_agent_pid: the cached process of that name.
Find(want) == {p \in Pids : cache[p].name = want}

Send(p, name) ==
    /\ req = NoReq
    /\ req' = [pid |-> p, name |-> name]
    /\ UNCHANGED <<kernel, faults, strm, cache, king, last_seq, listener, safety, rpc,
                   cast, ws_clients, message_log>>

\* Without a queen, or an assistant, in the cache the request is refused.
api_run_task == \E p \in Find("queen") : Send(p, cache[p].name)
api_chat     == \E p \in Find("assistant") : Send(p, "assistant")
api_execute  == \E p \in Pids : Send(p, cache[p].name)

\* The kernel runs the task on the process that has the PID now, or fails, or
\* is gone with the call.
ExecuteTask ==
    /\ req # NoReq
    /\ req' = NoReq
    /\ UNCHANGED <<kernel, faults, strm, cache, king, last_seq, listener, safety, rpc,
                   cast, ws_clients, message_log>>

-----------------------------------------------------------------------------
Init ==
    /\ table = Empty /\ nextPid = 2 /\ log = <<>> /\ events = 0 /\ restarts = 0 /\ faults = 0
    /\ strm = 0 /\ cache = Empty /\ king = FALSE /\ last_seq = 0
    /\ listener = "resync" /\ safety = "sleep"
    /\ rpc = [c \in Callers |-> IF c = "listener" THEN [NoRpc EXCEPT !.pc = "asked"] ELSE NoRpc]
    /\ cast = NoCast
    /\ ws_clients = {}
    /\ message_log = <<>>
    /\ req = NoReq

Next ==
    \/ Kernel \/ Restart
    \/ \E c \in Callers : ListChildren(c) \/ ListTimeout(c)
    \/ event_listener \/ DropEvent \/ BreakStream
    \/ safety_resync
    \/ \E c \in Clients : CastTo(c) \/ websocket_endpoint(c)
    \/ api_run_task \/ api_chat \/ api_execute \/ ExecuteTask

Spec == Init /\ [][Next]_vars

\* The two background tasks go on and the kernel answers; browsers and users
\* do as they like.
Fairness ==
    /\ \A c \in Callers : WF_vars(ListChildren(c))
    /\ WF_vars(event_listener) /\ WF_vars(safety_resync)
    /\ \A c \in Clients : WF_vars(CastTo(c))

FairSpec == Spec /\ Fairness

-----------------------------------------------------------------------------
(* Properties *)

TypeOK ==
    /\ table \in Trees /\ cache \in Trees
    /\ strm \in 0..(Len(log) + 1)
    /\ last_seq \in 0..MaxEvents
    /\ listener \in {"resync", "subscribe", "read", "cast"}
    /\ safety \in {"sleep", "compare", "resync"}
    /\ rpc \in [Callers -> [pc : {"off", "asked", "have", "failed"}, snap : Trees]]
    /\ ws_clients \subseteq Clients
    /\ cast.todo \subseteq Clients
    /\ Len(message_log) <= MESSAGE_LOG_MAX
    /\ req \in [pid : Pids \cup {0}, name : Names \cup {""}]

\* The cache has the kernel's processes in the end, whatever was dropped, cut
\* off by browsers that come and go, overwritten by an old answer or forgotten in
\* a restart (safety_resync, app.py 473). The loop skips an empty cache, and it
\* does not compare states: these may stay wrong.
CacheConverges == <>[](Cached => Live(cache) = Live(table))

\* No message is listed twice, over any number of reconnections and replays
\* (last_seq, app.py 172).
ListedOnce ==
    \A i, j \in DOMAIN message_log : message_log[i] = message_log[j] => i = j

\* As long as the kernel has not restarted, a task for the queen or for the
\* assistant meets it or nobody under its PID, however old the cache is: the
\* task is recorded under the name of the process that ran it (api_run_task,
\* api_chat, api_execute).
RightTarget ==
    restarts = 0 /\ req # NoReq /\ table[req.pid] # Absent
        => req.name \in {"", table[req.pid].name}
=============================================================================
