-------------------------- MODULE DashboardProofs --------------------------
(***************************************************************************)
(* Proofs about the dashboard server, for any number of processes,         *)
(* browsers, events and faults: no message is listed twice, and as long as *)
(* the kernel has not restarted a task meets the process it is recorded    *)
(* under.                                                                  *)
(***************************************************************************)
EXTENDS Dashboard, SequenceTheorems, TLAPS

\* A step is first-order unless it names SMT, for arithmetic and sequences.
USE Zenon

\* The sizes of the lists of browsers.
Sizes == {Cardinality(S) : S \in SUBSET Clients} \cup {0}

Casts == [todo : SUBSET Clients, size : Sizes, again : BOOLEAN]

Events == [type : Lifecycle \cup {"message_sent"}, what : Nat, node : Nodes \cup {Absent}]

\* What TypeOK leaves out: the kernel's side, and the records that are updated
\* field by field.
LogTypeOK ==
    /\ events \in 0..MaxEvents
    /\ log \in Seq(Events) /\ Len(log) <= events
    /\ \A i \in DOMAIN log : log[i].type \in Lifecycle => log[i].what \in Pids
    /\ \A i \in DOMAIN log : log[i].type \in {"spawned", "state_changed"} => log[i].node \in Nodes

KernelTypeOK ==
    /\ LogTypeOK
    /\ nextPid \in Nat /\ restarts \in Nat /\ faults \in Nat
    /\ cast \in Casts
    /\ message_log \in Seq(Nat)
    /\ king \in BOOLEAN

Sent(i) == log[i].type = "message_sent"

\* The message of this run of the kernel, once listed, is behind both the number
\* the listener subscribes with and the stream's position; every message listed
\* before has an earlier run's name.
ListedInv ==
    /\ ListedOnce
    /\ \A i \in DOMAIN log : Sent(i) => log[i].what = restarts
    /\ \A i, j \in DOMAIN log : Sent(i) /\ Sent(j) => i = j
    /\ \A i \in DOMAIN message_log : message_log[i] <= restarts
    /\ (\E i \in DOMAIN message_log : message_log[i] = restarts)
           => \E k \in DOMAIN log : Sent(k) /\ k <= last_seq /\ (strm # 0 => k < strm)

\* A tree that has for every process it holds the name of this run of the kernel.
Named(t) == \A p \in Pids : t[p] = Absent \/ t[p].name = Name(p)

\* In the kernel's first run every copy of the tree, every event on the way and
\* the request in progress have the right names.
NamesInv ==
    restarts = 0 =>
        /\ Named(table) /\ Named(cache)
        /\ \A c \in Callers : Named(rpc[c].snap)
        /\ \A i \in DOMAIN log : log[i].type = "spawned" => log[i].node.name = Name(log[i].what)
        /\ req # NoReq => req.pid \in Pids /\ req.name \in {"", Name(req.pid)}

DashboardInv == TypeOK /\ KernelTypeOK /\ ListedInv /\ NamesInv

-----------------------------------------------------------------------------
(* Types *)

Types == TypeOK /\ KernelTypeOK

\* The empty tree is a tree, and Absent is no node of the kernel.
LEMMA EmptyTree == Empty \in Trees /\ Absent \notin Nodes /\ NoRpc.snap = Empty /\ NoRpc.pc = "off"
  BY DEF Empty, Trees, Absent, Nodes, Names, States, NoRpc

\* An event of the log applied to a tree gives a tree (apply_event).
LEMMA AppliedType ==
  ASSUME NEW t \in Trees, NEW e \in Events,
         e.type \in Lifecycle => e.what \in Pids,
         e.type \in {"spawned", "state_changed"} => e.node \in Nodes
  PROVE  Applied(t, e) \in Trees
  <1>1. CASE e.type = "spawned"
    BY <1>1 DEF Applied, Trees, Lifecycle
  <1>2. CASE e.type = "state_changed"
    <2>1. t[e.what] # Absent => t[e.what] \in Nodes
      BY <1>2 DEF Trees, Lifecycle
    <2>2. t[e.what] # Absent => [t[e.what] EXCEPT !.state = e.node.state] \in Nodes
      BY <1>2, <2>1 DEF Nodes
    <2> QED
      BY <1>2, <2>2 DEF Applied, Trees, Lifecycle
  <1>3. CASE e.type = "removed"
    BY <1>3 DEF Applied, Trees, Lifecycle
  <1>4. CASE e.type = "message_sent"
    BY <1>4 DEF Applied
  <1> QED
    BY <1>1, <1>2, <1>3, <1>4 DEF Events, Lifecycle

\* Trimming keeps a sequence of the same elements, no longer than its limit
\* (record_message).
LEMMA TrimType ==
  ASSUME NEW s \in Seq(Nat), NEW m \in Nat \ {0}
  PROVE  /\ Trim(s, m) \in Seq(Nat) /\ Len(Trim(s, m)) <= m
         /\ Len(s) - Len(Trim(s, m)) \in Nat
         /\ \A i \in 1..Len(Trim(s, m)) : Trim(s, m)[i] = s[i + (Len(s) - Len(Trim(s, m)))]
  <1>1. CASE Len(s) > m
    <2>1. Trim(s, m) = SubSeq(s, Len(s) - m + 1, Len(s))
      BY <1>1 DEF Trim
    <2>2. /\ Trim(s, m) \in Seq(Nat) /\ Len(Trim(s, m)) = m
          /\ \A i \in 1..m : Trim(s, m)[i] = s[i + (Len(s) - m)]
      <3> DEFINE first == Len(s) - m + 1
      <3>1. Len(s) \in Nat /\ first \in 1..Len(s) /\ Len(s) - first + 1 = m
        BY <1>1, SMT
      <3>2. \A i \in 1..m : first + i - 1 = i + (Len(s) - m)
        BY <3>1, SMT
      <3> HIDE DEF first
      <3>3. /\ SubSeq(s, first, Len(s)) \in Seq(Nat)
            /\ Len(SubSeq(s, first, Len(s))) = Len(s) - first + 1
            /\ \A i \in 1..(Len(s) - first + 1) : SubSeq(s, first, Len(s))[i] = s[first + i - 1]
        <4>1. \A i \in first..Len(s) : s[i] \in Nat
          BY <3>1, SMT
        <4> QED
          BY <3>1, <4>1, SubSeqProperties, SMT
      <3> QED
        BY <2>1, <3>1, <3>2, <3>3 DEF first
    <2> QED
      BY <1>1, <2>2, SMT
  <1>2. CASE ~(Len(s) > m)
    <2>1. Trim(s, m) = s /\ Len(s) <= m
      BY <1>2, SMT DEF Trim
    <2>2. Len(s) - Len(s) = 0 /\ \A i \in 1..Len(s) : i + 0 = i
      BY SMT
    <2> QED
      BY <2>1, <2>2, SMT
  <1> QED
    BY <1>1, <1>2

\* The registry's event extends the log by an event of its type.
LEMMA EmitType ==
  ASSUME Types, NEW type \in Lifecycle \cup {"message_sent"}, NEW what \in Nat,
         NEW node \in Nodes \cup {Absent}, Emit(type, what, node),
         type \in Lifecycle => what \in Pids,
         type \in {"spawned", "state_changed"} => node \in Nodes
  PROVE  LogTypeOK' /\ Len(log') = Len(log) + 1
  <1> DEFINE e == [type |-> type, what |-> what, node |-> node]
  <1>1. e \in Events /\ e.type = type /\ e.what = what /\ e.node = node
    BY DEF Events
  <1>2. log' = Append(log, e) /\ events' = events + 1 /\ events < MaxEvents
    BY DEF Emit
  <1>3. log \in Seq(Events) /\ Len(log) <= events /\ events \in 0..MaxEvents
    BY DEF Types, KernelTypeOK, LogTypeOK
  <1> HIDE DEF e
  <1>4. /\ log' \in Seq(Events) /\ Len(log') = Len(log) + 1
        /\ \A i \in DOMAIN log' : \/ i \in DOMAIN log /\ log'[i] = log[i]
                                  \/ i = Len(log) + 1 /\ log'[i] = e
    BY <1>1, <1>2, <1>3, SMT
  <1>5. events' \in 0..MaxEvents /\ Len(log') <= events'
    BY <1>2, <1>3, <1>4, DashboardAssumption, SMT
  <1> QED
    BY <1>1, <1>4, <1>5 DEF Types, KernelTypeOK, LogTypeOK

LEMMA PidsNat == Pids \subseteq Nat
  BY DashboardAssumption, SMT DEF Pids

LEMMA KernelType == ASSUME Types, Kernel PROVE Types'
  <1>0. /\ table \in Trees /\ nextPid \in Nat /\ restarts \in Nat /\ Len(log) \in Nat
        /\ strm \in 0..(Len(log) + 1)
    <2>1. table \in Trees /\ strm \in 0..(Len(log) + 1)
      BY DEF Types, TypeOK
    <2>2. nextPid \in Nat /\ restarts \in Nat /\ log \in Seq(Events)
      BY DEF Types, KernelTypeOK, LogTypeOK
    <2> QED
      BY <2>1, <2>2, SMT
  <1>1. CASE Register
    <2>1. Name(nextPid) \in Names
      BY DEF Name, Names
    <2>2. table' \in Trees /\ table'[nextPid] \in Nodes /\ nextPid' \in Nat
      BY <1>0, <1>1, <2>1, SMT DEF Register, Trees, Nodes, States
    <2>3. Emit("spawned", nextPid, table'[nextPid]) /\ nextPid \in Pids
      BY <1>1 DEF Register
    <2>4. LogTypeOK' /\ Len(log') = Len(log) + 1
      BY <1>0, <2>2, <2>3, EmitType DEF Lifecycle
    <2>5. KernelTypeOK'
      BY <1>0, <1>1, <2>2, <2>4 DEF Types, KernelTypeOK, Kernel, Register
    <2>6. strm' \in 0..(Len(log') + 1)
      BY <1>0, <2>4, SMT DEF Kernel
    <2>7. TypeOK'
      BY <1>0, <1>1, <2>2, <2>4, <2>6 DEF Types, TypeOK, Kernel, Register
    <2> QED
      BY <2>5, <2>7 DEF Types
  <1>2. ASSUME NEW p \in Pids, SetState(p) PROVE Types'
    <2>1. table[p] \in Nodes /\ [table[p] EXCEPT !.state = "zombie"] \in Nodes
      BY <1>0, <1>2 DEF SetState, Trees, Nodes, States
    <2>2. table' \in Trees /\ table'[p] \in Nodes
      BY <1>0, <1>2, <2>1 DEF SetState, Trees
    <2>3. Emit("state_changed", p, table'[p]) /\ p \in Nat
      BY <1>2, PidsNat DEF SetState
    <2>4. LogTypeOK' /\ Len(log') = Len(log) + 1
      BY <2>2, <2>3, EmitType DEF Lifecycle
    <2>5. KernelTypeOK'
      BY <1>0, <1>2, <2>2, <2>4 DEF Types, KernelTypeOK, Kernel, SetState
    <2>6. strm' \in 0..(Len(log') + 1)
      BY <1>0, <2>4, SMT DEF Kernel
    <2>7. TypeOK'
      BY <1>0, <1>2, <2>2, <2>4, <2>6 DEF Types, TypeOK, Kernel, SetState
    <2> QED
      BY <2>5, <2>7 DEF Types
  <1>3. ASSUME NEW p \in Pids, Remove(p) PROVE Types'
    <2>2. table' \in Trees
      BY <1>0, <1>3 DEF Remove, Trees
    <2>3. Emit("removed", p, Absent) /\ p \in Nat
      BY <1>3, PidsNat DEF Remove
    <2>4. LogTypeOK' /\ Len(log') = Len(log) + 1
      BY <2>3, EmitType DEF Lifecycle
    <2>5. KernelTypeOK'
      BY <1>0, <1>3, <2>2, <2>4 DEF Types, KernelTypeOK, Kernel, Remove
    <2>6. strm' \in 0..(Len(log') + 1)
      BY <1>0, <2>4, SMT DEF Kernel
    <2>7. TypeOK'
      BY <1>0, <1>3, <2>2, <2>4, <2>6 DEF Types, TypeOK, Kernel, Remove
    <2> QED
      BY <2>5, <2>7 DEF Types
  <1>4. CASE SendMessage
    <2>3. Emit("message_sent", restarts, Absent)
      BY <1>4 DEF SendMessage
    <2>4. LogTypeOK' /\ Len(log') = Len(log) + 1
      BY <1>0, <2>3, EmitType DEF Lifecycle
    <2>5. KernelTypeOK'
      BY <1>0, <1>4, <2>4 DEF Types, KernelTypeOK, Kernel, SendMessage
    <2>6. strm' \in 0..(Len(log') + 1)
      BY <1>0, <2>4, SMT DEF Kernel
    <2>7. TypeOK'
      BY <1>0, <1>4, <2>4, <2>6 DEF Types, TypeOK, Kernel, SendMessage
    <2> QED
      BY <2>5, <2>7 DEF Types
  <1> QED
    BY <1>1, <1>2, <1>3, <1>4 DEF Kernel

Rpcs == [Callers -> [pc : {"off", "asked", "have", "failed"}, snap : Trees]]

LEMMA AskType ==
  ASSUME Types, NEW c \in Callers, Ask(c)
  PROVE  rpc' \in Rpcs
  BY EmptyTree DEF Types, TypeOK, Ask, Rpcs

LEMMA ResyncType ==
  ASSUME Types, NEW c \in Callers, full_resync(c)
  PROVE  rpc' \in Rpcs /\ cache' \in Trees /\ king' \in BOOLEAN
  <1>1. rpc \in Rpcs /\ cache \in Trees /\ king \in BOOLEAN /\ rpc[c].snap \in Trees
    BY DEF Types, TypeOK, KernelTypeOK, Rpcs
  <1>2. NoRpc \in [pc : {"off", "asked", "have", "failed"}, snap : Trees]
    BY EmptyTree DEF NoRpc
  <1>3. rpc' = [rpc EXCEPT ![c] = NoRpc]
    BY DEF full_resync
  <1>4. rpc' \in Rpcs
    BY <1>1, <1>2, <1>3 DEF Rpcs
  <1> QED
    BY <1>1, <1>4 DEF full_resync

LEMMA BeginType ==
  ASSUME Types, NEW again \in BOOLEAN, Begin(again)
  PROVE  /\ cast' \in Casts
         /\ listener' \in {listener, "cast"}
  <1>1. ws_clients \subseteq Clients /\ cast \in Casts
    BY DEF Types, TypeOK, KernelTypeOK
  <1>2. Cardinality(ws_clients) \in Sizes
    BY <1>1 DEF Sizes
  <1> QED
    BY <1>1, <1>2, SMT DEF Begin, Casts

LEMMA RestartType == ASSUME Types, Restart PROVE Types'
  <1>1. rpc' \in Rpcs
    BY DEF Types, TypeOK, Rpcs, Restart
  <1>2. req' \in [pid : Pids \cup {0}, name : Names \cup {""}]
    BY DEF Types, TypeOK, Restart
  <1>3. restarts' \in Nat /\ faults' \in Nat
    BY SMT DEF Types, KernelTypeOK, Restart, Fault
  <1>4. LogTypeOK'
    BY SMT DEF Types, KernelTypeOK, LogTypeOK, Restart
  <1>5. TypeOK'
    <2>1. strm' \in 0..(Len(log') + 1) /\ table' \in Trees
      BY EmptyTree, SMT DEF Restart
    <2> QED
      BY <1>1, <1>2, <2>1 DEF Types, TypeOK, Restart, Rpcs
  <1>6. KernelTypeOK'
    BY <1>3, <1>4 DEF Types, KernelTypeOK, Restart
  <1> QED
    BY <1>5, <1>6 DEF Types

\* The log is the kernel's.
LEMMA SameLog == ASSUME Types, UNCHANGED kernel PROVE LogTypeOK' /\ UNCHANGED <<table, nextPid, log, events, restarts>>
  BY DEF Types, KernelTypeOK, LogTypeOK, kernel

LEMMA ListingType ==
  ASSUME Types, NEW c \in Callers, ListChildren(c) \/ ListTimeout(c)
  PROVE  Types'
  <1>0. UNCHANGED kernel
    BY DEF ListChildren, ListTimeout
  <1>1. rpc' \in Rpcs
    <2>1. rpc \in Rpcs /\ table \in Trees
      BY DEF Types, TypeOK, Rpcs
    <2>2. CASE ListChildren(c)
      BY <2>1, <2>2 DEF Rpcs, ListChildren
    <2>3. CASE ListTimeout(c)
      BY <2>1, <2>3 DEF Rpcs, ListTimeout
    <2> QED
      BY <2>2, <2>3
  <1>2. faults' \in Nat
    BY SMT DEF Types, KernelTypeOK, ListChildren, ListTimeout, Fault
  <1>3. TypeOK'
    BY <1>0, <1>1, SameLog DEF Types, TypeOK, Rpcs, ListChildren, ListTimeout
  <1>4. KernelTypeOK'
    BY <1>0, <1>2, SameLog DEF Types, KernelTypeOK, ListChildren, ListTimeout
  <1> QED
    BY <1>3, <1>4 DEF Types

\* The position of the stream and the number noted stay within the log's bounds.
LEMMA StreamBounds ==
  ASSUME Types
  PROVE  /\ Len(log) \in Nat /\ Len(log) <= MaxEvents /\ strm \in Nat /\ last_seq \in Nat
         /\ DOMAIN log = 1..Len(log)
         /\ strm \in DOMAIN log => strm \in 1..MaxEvents /\ strm + 1 \in 0..(Len(log) + 1)
  <1>1. log \in Seq(Events) /\ events \in 0..MaxEvents /\ Len(log) <= events
    BY DEF Types, KernelTypeOK, LogTypeOK
  <1>2. strm \in 0..(Len(log) + 1) /\ last_seq \in 0..MaxEvents
    BY DEF Types, TypeOK
  <1> QED
    BY <1>1, <1>2, DashboardAssumption, SMT

LEMMA ReadEventType == ASSUME Types, ReadEvent PROVE Types'
  <1> DEFINE e == log[strm]
  <1>0. UNCHANGED kernel /\ strm \in DOMAIN log /\ strm' = strm + 1 /\ apply_event(e, strm)
    BY DEF ReadEvent
  <1>1. /\ e \in Events /\ (e.type \in Lifecycle => e.what \in Pids)
        /\ e.type \in {"spawned", "state_changed"} => e.node \in Nodes
    BY <1>0, SMT DEF Types, KernelTypeOK, LogTypeOK
  <1>2. cache' \in Trees
    BY <1>0, <1>1, AppliedType DEF apply_event, Types, TypeOK
  <1>3. last_seq' \in 0..MaxEvents /\ strm' \in 0..(Len(log) + 1)
    BY <1>0, StreamBounds, DashboardAssumption, SMT DEF apply_event
  <1>4. message_log' \in Seq(Nat) /\ Len(message_log') <= MESSAGE_LOG_MAX
    <2>1. message_log \in Seq(Nat) /\ Len(message_log) <= MESSAGE_LOG_MAX
      BY DEF Types, TypeOK, KernelTypeOK
    <2>2. e.what \in Nat
      BY <1>1 DEF Events
    <2>3. Append(message_log, e.what) \in Seq(Nat)
      BY <2>1, <2>2, SMT
    <2> QED
      BY <1>0, <2>1, <2>3, TrimType, DashboardAssumption DEF apply_event, record_message
  <1>5. Begin(Twice(e)) /\ Twice(e) \in BOOLEAN
    BY DEF ReadEvent, Twice
  <1>6. /\ cast' \in Casts
        /\ listener' \in {listener, "cast"}
    BY <1>5, BeginType
  <1>7. TypeOK'
    <2>1. cast'.todo \subseteq Clients
      BY <1>6, SMT DEF Casts
    <2> QED
      BY <1>0, <1>2, <1>3, <1>4, <1>6, <2>1, SameLog DEF Types, TypeOK, ReadEvent
  <1>8. KernelTypeOK'
    BY <1>0, <1>4, <1>6, SameLog DEF Types, KernelTypeOK, ReadEvent
  <1> QED
    BY <1>7, <1>8 DEF Types

Reqs  == [pid : Pids \cup {0}, name : Names \cup {""}]

\* What a step of the dashboard that applies no event has to keep.
StepType ==
    /\ UNCHANGED <<kernel, last_seq, message_log>>
    /\ faults' \in Nat /\ strm' \in 0..(Len(log) + 1)
    /\ cache' \in Trees /\ king' \in BOOLEAN
    /\ listener' \in {"resync", "subscribe", "read", "cast"}
    /\ safety' \in {"sleep", "compare", "resync"}
    /\ rpc' \in Rpcs /\ cast' \in Casts /\ ws_clients' \subseteq Clients /\ req' \in Reqs

LEMMA StepTypeSuffices == ASSUME Types, StepType PROVE Types'
  <1>1. TypeOK'
    BY SameLog DEF StepType, Types, TypeOK, Rpcs, Casts, Reqs
  <1>2. KernelTypeOK'
    BY SameLog DEF StepType, Types, KernelTypeOK, Casts
  <1> QED
    BY <1>1, <1>2 DEF Types

\* The same facts before the step.
LEMMA TypesNow ==
  ASSUME Types
  PROVE  /\ faults \in Nat /\ strm \in 0..(Len(log) + 1)
         /\ cache \in Trees /\ king \in BOOLEAN
         /\ listener \in {"resync", "subscribe", "read", "cast"}
         /\ safety \in {"sleep", "compare", "resync"}
         /\ rpc \in Rpcs /\ cast \in Casts /\ ws_clients \subseteq Clients /\ req \in Reqs
  BY DEF Types, TypeOK, KernelTypeOK, Rpcs, Casts, Reqs

LEMMA ListenerType ==
  ASSUME Types, ListenerResynced \/ SubscribeEvents \/ ListenerCasts \/ StreamEnds \/ DropEvent \/ BreakStream
  PROVE  Types'
  <1>0. "listener" \in Callers
    BY DEF Callers, Loops
  <1>1. CASE ListenerResynced
    BY <1>0, <1>1, ResyncType, TypesNow, StepTypeSuffices DEF ListenerResynced, StepType
  <1>2. CASE SubscribeEvents
    <2>1. strm' \in 0..(Len(log) + 1)
      BY <1>2, StreamBounds, SMT DEF SubscribeEvents
    <2> QED
      BY <1>2, <2>1, TypesNow, StepTypeSuffices DEF SubscribeEvents, StepType
  <1>3. CASE ListenerCasts
    <2>0. NoCast \in Casts /\ 0 \in 0..(Len(log) + 1)
      BY StreamBounds, SMT DEF NoCast, Casts, Sizes
    <2>1. CASE Begin(FALSE) /\ UNCHANGED <<strm, rpc>>
      BY <1>3, <2>1, BeginType, TypesNow, StepTypeSuffices DEF ListenerCasts, StepType, Casts
    <2>2. CASE cast' = NoCast /\ listener' = "read" /\ UNCHANGED <<strm, rpc>>
      BY <1>3, <2>0, <2>2, TypesNow, StepTypeSuffices DEF ListenerCasts, StepType
    <2>3. CASE cast' = NoCast /\ listener' = "resync" /\ strm' = 0 /\ Ask("listener")
      BY <1>0, <1>3, <2>0, <2>3, AskType, TypesNow, StepTypeSuffices DEF ListenerCasts, StepType
    <2> QED
      BY <1>3, <2>1, <2>2, <2>3 DEF ListenerCasts
  <1>4. CASE StreamEnds
    BY <1>0, <1>4, AskType, TypesNow, StepTypeSuffices DEF StreamEnds, StepType
  <1>5. CASE DropEvent
    <2>1. strm' \in 0..(Len(log) + 1) /\ faults' \in Nat
      BY <1>5, StreamBounds, TypesNow, SMT DEF DropEvent, Fault
    <2> QED
      BY <1>5, <2>1, TypesNow, StepTypeSuffices DEF DropEvent, StepType
  <1>6. CASE BreakStream
    <2>1. strm' \in 0..(Len(log) + 1) /\ faults' \in Nat
      BY <1>6, StreamBounds, TypesNow, SMT DEF BreakStream, Fault
    <2> QED
      BY <1>6, <2>1, TypesNow, StepTypeSuffices DEF BreakStream, StepType
  <1> QED
    BY <1>1, <1>2, <1>3, <1>4, <1>5, <1>6

LEMMA SafetyType == ASSUME Types, safety_resync PROVE Types'
  <1>0. "safety" \in Callers
    BY DEF Callers, Loops
  <1>1. CASE SafetyWakes
    BY <1>0, <1>1, AskType, TypesNow, StepTypeSuffices DEF SafetyWakes, StepType
  <1>2. CASE SafetyCompares
    <2>1. NoRpc \in [pc : {"off", "asked", "have", "failed"}, snap : Trees]
      BY EmptyTree DEF NoRpc
    <2>2. [rpc EXCEPT !["safety"] = NoRpc] \in Rpcs
      BY <2>1, TypesNow DEF Rpcs
    <2>3. rpc' \in Rpcs /\ safety' \in {"sleep", "resync"}
      BY <1>0, <1>2, <2>2, AskType DEF SafetyCompares
    <2> QED
      BY <1>2, <2>3, TypesNow, StepTypeSuffices DEF SafetyCompares, StepType
  <1>3. CASE SafetyPushes
    BY <1>0, <1>3, ResyncType, TypesNow, StepTypeSuffices DEF SafetyPushes, StepType
  <1> QED
    BY <1>1, <1>2, <1>3 DEF safety_resync

LEMMA BrowserType ==
  ASSUME Types, NEW c \in Clients, CastTo(c) \/ websocket_endpoint(c)
  PROVE  Types'
  <1>0. c \in Callers
    BY DEF Callers
  <1>1. CASE CastTo(c)
    <2>1. cast' \in Casts
      BY <1>1, TypesNow DEF CastTo, Casts
    <2> QED
      BY <1>1, <2>1, TypesNow, StepTypeSuffices DEF CastTo, StepType
  <1>2. CASE Connect(c)
    <2>1. rpc' \in Rpcs
      BY <1>0, <1>2, AskType, TypesNow DEF Connect
    <2> QED
      BY <1>2, <2>1, TypesNow, StepTypeSuffices DEF Connect, StepType
  <1>3. CASE Refresh(c)
    BY <1>0, <1>3, AskType, TypesNow, StepTypeSuffices DEF Refresh, StepType
  <1>4. CASE SendTree(c)
    BY <1>0, <1>4, ResyncType, TypesNow, StepTypeSuffices DEF SendTree, StepType
  <1>5. CASE Disconnect(c)
    <2>1. NoRpc \in [pc : {"off", "asked", "have", "failed"}, snap : Trees]
      BY EmptyTree DEF NoRpc
    <2>2. rpc' \in Rpcs
      BY <1>5, <2>1, TypesNow DEF Disconnect, Rpcs
    <2>3. cast' \in Casts
      BY <1>5, TypesNow DEF Disconnect, Casts
    <2> QED
      BY <1>5, <2>2, <2>3, TypesNow, StepTypeSuffices DEF Disconnect, StepType
  <1> QED
    BY <1>1, <1>2, <1>3, <1>4, <1>5 DEF websocket_endpoint

LEMMA RequestType ==
  ASSUME Types, api_run_task \/ api_chat \/ api_execute \/ ExecuteTask
  PROVE  Types'
  <1>0. \A p \in Pids : cache[p].name \in Names \cup {""}
    <2>1. \A p \in Pids : cache[p] \in Nodes \/ cache[p] = Absent
      BY TypesNow DEF Trees
    <2>2. Absent.name = "" /\ \A n \in Nodes : n.name \in Names
      BY DEF Nodes, Absent
    <2> QED
      BY <2>1, <2>2
  <1>1. NoReq \in Reqs
    BY DEF NoReq, Reqs
  <1>2. req' \in Reqs
    <2>1. ASSUME NEW p \in Pids, NEW n \in Names \cup {""}, Send(p, n) PROVE req' \in Reqs
      <3>1. req' = [pid |-> p, name |-> n]
        BY <2>1 DEF Send
      <3> QED
        BY <3>1 DEF Reqs
    <2>2. "assistant" \in Names
      BY DEF Names
    <2> QED
      BY <1>0, <1>1, <2>1, <2>2 DEF api_run_task, api_chat, api_execute, ExecuteTask, Find
  <1> QED
    BY <1>2, TypesNow, StepTypeSuffices
       DEF api_run_task, api_chat, api_execute, ExecuteTask, Send, StepType

LEMMA InitTypes == ASSUME Init PROVE Types
  <1>1. rpc \in Rpcs /\ table \in Trees /\ cache \in Trees
    BY EmptyTree DEF Init, Rpcs, NoRpc
  <1>2. cast \in Casts /\ req \in Reqs
    <2>1. {} \in SUBSET Clients /\ 0 \in Sizes /\ 0 \in Pids \cup {0} /\ "" \in Names \cup {""}
      BY DEF Sizes
    <2>2. NoCast \in Casts
      BY <2>1, SMT DEF NoCast, Casts
    <2>3. NoReq \in Reqs
      BY <2>1, SMT DEF NoReq, Reqs
    <2> QED
      BY <2>2, <2>3 DEF Init
  <1>3. LogTypeOK
    BY DashboardAssumption, SMT DEF Init, LogTypeOK
  <1>4. strm \in 0..(Len(log) + 1) /\ last_seq \in 0..MaxEvents /\ Len(message_log) <= MESSAGE_LOG_MAX
    BY DashboardAssumption, SMT DEF Init
  <1>5. TypeOK
    BY <1>1, <1>2, <1>4 DEF Init, TypeOK, Rpcs, Casts, Reqs
  <1>6. KernelTypeOK
    <2>1. message_log \in Seq(Nat)
      BY SMT DEF Init
    <2> QED
      BY <1>2, <1>3, <2>1 DEF Init, KernelTypeOK, Casts
  <1> QED
    BY <1>5, <1>6 DEF Types

LEMMA NextTypes == ASSUME Types, [Next]_vars PROVE Types'
  <1>1. CASE UNCHANGED vars
    BY <1>1, TypesNow, StepTypeSuffices DEF vars, StepType
  <1>2. CASE Next
    BY <1>2, KernelType, RestartType, ListingType, ListenerType, ReadEventType, SafetyType,
       BrowserType, RequestType DEF Next, event_listener
  <1> QED
    BY <1>1, <1>2

-----------------------------------------------------------------------------
(* No message is listed twice *)

\* A step that changes nothing of it, or breaks the stream, keeps ListedInv.
LEMMA ListedUnchanged ==
  ASSUME ListedInv, UNCHANGED <<log, restarts, message_log, last_seq>>, strm' \in {strm, 0}
  PROVE  ListedInv'
  BY DEF ListedInv, ListedOnce, Sent

LEMMA KernelListed == ASSUME Types, ListedInv, Kernel PROVE ListedInv'
  <1>0. UNCHANGED <<restarts, message_log, last_seq, strm>>
    BY DEF Kernel, Register, SetState, Remove, SendMessage
  <1>1. PICK type, what, node :
          /\ type \in Lifecycle \cup {"message_sent"} /\ Emit(type, what, node)
          /\ type = "message_sent" => SendMessage /\ what = restarts
    <2>1. ASSUME Register
          PROVE  "spawned" \in Lifecycle /\ Emit("spawned", nextPid, table'[nextPid])
      BY <2>1 DEF Register, Lifecycle
    <2>2. ASSUME NEW p \in Pids, SetState(p)
          PROVE  "state_changed" \in Lifecycle /\ Emit("state_changed", p, table'[p])
      BY <2>2 DEF SetState, Lifecycle
    <2>3. ASSUME NEW p \in Pids, Remove(p)
          PROVE  "removed" \in Lifecycle /\ Emit("removed", p, Absent)
      BY <2>3 DEF Remove, Lifecycle
    <2>4. ASSUME SendMessage
          PROVE  Emit("message_sent", restarts, Absent)
      BY <2>4 DEF SendMessage
    <2>5. "message_sent" \notin Lifecycle
      BY DEF Lifecycle
    <2> QED
      BY <2>1, <2>2, <2>3, <2>4, <2>5 DEF Kernel
  <1> DEFINE e == [type |-> type, what |-> what, node |-> node]
  <1>2. log \in Seq(Events) /\ Len(log) \in Nat /\ DOMAIN log = 1..Len(log)
    BY SMT DEF Types, KernelTypeOK, LogTypeOK
  <1>3. e.type = type /\ e.what = what /\ log' = Append(log, e)
    BY <1>1 DEF Emit
  <1> HIDE DEF e
  <1>4. /\ DOMAIN log \subseteq DOMAIN log'
        /\ \A i \in DOMAIN log' : \/ i \in DOMAIN log /\ log'[i] = log[i]
                                  \/ i = Len(log) + 1 /\ log'[i] = e
        /\ \A i \in DOMAIN log : log'[i] = log[i]
    BY <1>2, <1>3, SMT
  <1>5. type = "message_sent" => \A i \in DOMAIN log : ~Sent(i)
    BY <1>1 DEF SendMessage, Sent
  <1>6. \A i \in DOMAIN log' : Sent(i)' => log'[i].what = restarts'
    BY <1>0, <1>1, <1>3, <1>4 DEF ListedInv, Sent
  <1>7. \A i, j \in DOMAIN log' : Sent(i)' /\ Sent(j)' => i = j
    BY <1>3, <1>4, <1>5, SMT DEF ListedInv, Sent
  <1>8. (\E i \in DOMAIN message_log' : message_log'[i] = restarts')
           => \E k \in DOMAIN log' : Sent(k)' /\ k <= last_seq' /\ (strm' # 0 => k < strm')
    BY <1>0, <1>4 DEF ListedInv, Sent
  <1> QED
    BY <1>0, <1>6, <1>7, <1>8 DEF ListedInv, ListedOnce

LEMMA RestartListed == ASSUME Types, ListedInv, Restart PROVE ListedInv'
  <1>1. restarts \in Nat /\ message_log \in Seq(Nat)
    BY DEF Types, KernelTypeOK
  <1>2. \A i \in DOMAIN message_log : message_log[i] \in Nat /\ message_log[i] < restarts + 1
    BY <1>1, SMT DEF ListedInv
  <1>3. DOMAIN log' = {}
    BY SMT DEF Restart
  <1> QED
    BY <1>1, <1>2, <1>3, SMT DEF ListedInv, ListedOnce, Restart

LEMMA SubscribeListed == ASSUME Types, ListedInv, SubscribeEvents PROVE ListedInv'
  <1>1. UNCHANGED <<log, restarts, message_log, last_seq>>
    BY DEF SubscribeEvents, kernel
  <1>2. \A k \in DOMAIN log : k <= last_seq => k < strm'
    BY StreamBounds, SMT DEF SubscribeEvents
  <1> QED
    BY <1>1, <1>2 DEF ListedInv, ListedOnce, Sent

LEMMA DropListed == ASSUME Types, ListedInv, DropEvent PROVE ListedInv'
  <1>1. UNCHANGED <<log, restarts, message_log, last_seq>>
    BY DEF DropEvent, kernel
  <1>2. \A k \in DOMAIN log : (strm # 0 => k < strm) => k < strm'
    BY StreamBounds, SMT DEF DropEvent
  <1> QED
    BY <1>1, <1>2 DEF ListedInv, ListedOnce, Sent

\* Reading a message that is listed already would mean a second message of the
\* same run behind the first.
LEMMA ReadListed == ASSUME Types, ListedInv, ReadEvent PROVE ListedInv'
  <1>1. /\ UNCHANGED <<log, restarts>> /\ strm \in DOMAIN log
        /\ strm' = strm + 1 /\ last_seq' = strm
        /\ message_log' = IF Sent(strm) THEN record_message(log[strm].what) ELSE message_log
    BY DEF ReadEvent, apply_event, kernel, Sent
  <1>2. /\ DOMAIN log = 1..Len(log) /\ Len(log) \in Nat /\ restarts \in Nat
        /\ message_log \in Seq(Nat)
    BY StreamBounds DEF Types, KernelTypeOK
  <1>3. CASE ~Sent(strm)
    BY <1>1, <1>2, <1>3, SMT DEF ListedInv, ListedOnce, Sent
  <1>4. CASE Sent(strm)
    <2> DEFINE s == Append(message_log, restarts)
    <2>1. message_log' = Trim(s, MESSAGE_LOG_MAX) /\ s \in Seq(Nat)
      BY <1>1, <1>2, <1>4, SMT DEF ListedInv, record_message
    <2>2. \A i \in DOMAIN message_log : message_log[i] # restarts
      BY <1>1, <1>2, <1>4, SMT DEF ListedInv
    <2>3. /\ Len(s) = Len(message_log) + 1
          /\ \A i \in 1..Len(s) : \/ i \in DOMAIN message_log /\ s[i] = message_log[i]
                                  \/ i = Len(s) /\ s[i] = restarts
      BY <1>2, SMT
    <2> HIDE DEF s
    <2>4. \A i, j \in 1..Len(s) : s[i] = s[j] => i = j
      BY <2>2, <2>3 DEF ListedInv, ListedOnce
    <2>5. \A i \in 1..Len(s) : s[i] <= restarts
      BY <1>2, <2>3, SMT DEF ListedInv
    <2> DEFINE d == Len(s) - Len(message_log')
    <2>6. /\ message_log' \in Seq(Nat) /\ d \in Nat
          /\ \A i \in 1..Len(message_log') : message_log'[i] = s[i + d]
      BY <2>1, TrimType, DashboardAssumption
    <2>7. \A i \in 1..Len(message_log') : i + d \in 1..Len(s)
      BY <2>1, <2>6, SMTT(20)
    <2>8. DOMAIN message_log' = 1..Len(message_log')
      BY <2>6, SMT
    <2>9. Len(message_log') \in Nat
      BY <2>6, SMT
    <2> HIDE DEF d
    <2>10. ListedOnce'
      <3> SUFFICES ASSUME NEW i \in 1..Len(message_log'), NEW j \in 1..Len(message_log'),
                          message_log'[i] = message_log'[j]
                   PROVE  i = j
        BY <2>8 DEF ListedOnce
      <3>1. i + d = j + d
        BY <2>4, <2>6, <2>7
      <3> QED
        BY <2>6, <2>9, <3>1, SMT
    <2>11. \A i \in DOMAIN message_log' : message_log'[i] <= restarts'
      BY <1>1, <2>5, <2>6, <2>7, <2>8
    <2>12. \E k \in DOMAIN log' : Sent(k)' /\ k <= last_seq' /\ k < strm'
      BY <1>1, <1>2, <1>4, SMT DEF Sent
    <2> QED
      BY <1>1, <2>10, <2>11, <2>12 DEF ListedInv, Sent
  <1> QED
    BY <1>3, <1>4

LEMMA NextListed == ASSUME Types, ListedInv, [Next]_vars PROVE ListedInv'
  <1>1. CASE UNCHANGED vars
    BY <1>1, ListedUnchanged DEF vars, kernel
  <1>2. ASSUME NEW c \in Callers, ListChildren(c) \/ ListTimeout(c) PROVE ListedInv'
    BY <1>2, ListedUnchanged DEF ListChildren, ListTimeout, kernel
  <1>3. CASE ListenerResynced \/ ListenerCasts \/ StreamEnds \/ BreakStream
    BY <1>3, ListedUnchanged DEF ListenerResynced, ListenerCasts, StreamEnds, BreakStream, kernel
  <1>4. CASE safety_resync
    BY <1>4, ListedUnchanged DEF safety_resync, SafetyWakes, SafetyCompares, SafetyPushes, kernel
  <1>5. ASSUME NEW c \in Clients, CastTo(c) \/ websocket_endpoint(c) PROVE ListedInv'
    BY <1>5, ListedUnchanged
       DEF CastTo, websocket_endpoint, Connect, Refresh, SendTree, Disconnect, kernel
  <1>6. CASE api_run_task \/ api_chat \/ api_execute \/ ExecuteTask
    BY <1>6, ListedUnchanged DEF api_run_task, api_chat, api_execute, ExecuteTask, Send, kernel
  <1> QED
    BY <1>1, <1>2, <1>3, <1>4, <1>5, <1>6, KernelListed, RestartListed, SubscribeListed,
       ReadListed, DropListed DEF Next, event_listener

-----------------------------------------------------------------------------
(* A task meets the process it is recorded under *)

\* Trees with the right names give trees with the right names, as long as the
\* kernel runs.
LEMMA NamedEmpty == Named(Empty)
  BY DEF Named, Empty

LEMMA NamedApplied ==
  ASSUME NEW t \in Trees, Named(t), NEW e \in Events,
         e.type \in Lifecycle => e.what \in Pids,
         e.type = "spawned" => e.node.name = Name(e.what)
  PROVE  Named(Applied(t, e))
  <1>1. CASE e.type = "spawned"
    BY <1>1 DEF Applied, Named, Trees, Lifecycle
  <1>2. CASE e.type = "state_changed"
    <2>1. ASSUME t[e.what] # Absent
          PROVE  [t[e.what] EXCEPT !.state = e.node.state].name = t[e.what].name
      BY <1>2, <2>1 DEF Trees, Nodes, Lifecycle
    <2> QED
      BY <1>2, <2>1 DEF Applied, Named, Trees, Lifecycle
  <1>3. CASE e.type = "removed"
    BY <1>3 DEF Applied, Named, Trees, Lifecycle
  <1>4. CASE e.type = "message_sent"
    BY <1>4 DEF Applied
  <1> QED
    BY <1>1, <1>2, <1>3, <1>4 DEF Events, Lifecycle

EventsNamed(l) == \A i \in DOMAIN l : l[i].type = "spawned" => l[i].node.name = Name(l[i].what)
ReqNamed(r)    == r # NoReq => r.pid \in Pids /\ r.name \in {"", Name(r.pid)}

\* While the kernel runs, the names of the next state are those of this one.
LEMMA NamesStep ==
  ASSUME UNCHANGED restarts,
         restarts = 0 =>
            /\ Named(table') /\ Named(cache')
            /\ \A c \in Callers : Named(rpc'[c].snap)
            /\ EventsNamed(log') /\ ReqNamed(req')
  PROVE  NamesInv'
  <1>1. \A p : Name(p)' = Name(p)
    BY DEF Name
  <1> QED
    BY <1>1 DEF NamesInv, Named, EventsNamed, ReqNamed, NoReq

LEMMA NamesNow ==
  ASSUME NamesInv, restarts = 0
  PROVE  /\ Named(table) /\ Named(cache)
         /\ \A c \in Callers : Named(rpc[c].snap)
         /\ EventsNamed(log) /\ ReqNamed(req)
  BY DEF NamesInv, EventsNamed, ReqNamed

LEMMA AskNamed ==
  ASSUME Types, NEW c \in Callers, Ask(c), \A d \in Callers : Named(rpc[d].snap)
  PROVE  \A d \in Callers : Named(rpc'[d].snap)
  BY NamedEmpty, TypesNow DEF Ask, Rpcs

LEMMA ResyncNamed ==
  ASSUME Types, NEW c \in Callers, full_resync(c), Named(cache), \A d \in Callers : Named(rpc[d].snap)
  PROVE  Named(cache') /\ \A d \in Callers : Named(rpc'[d].snap)
  <1>1. rpc' = [rpc EXCEPT ![c] = NoRpc] /\ rpc \in Rpcs /\ NoRpc.snap = Empty
    BY TypesNow, EmptyTree DEF full_resync
  <1>2. \A d \in Callers : rpc'[d] = IF d = c THEN NoRpc ELSE rpc[d]
    BY <1>1 DEF Rpcs
  <1> QED
    BY <1>1, <1>2, NamedEmpty DEF full_resync

LEMMA EmitNamed ==
  ASSUME Types, EventsNamed(log), NEW type, NEW what, NEW node,
         Emit(type, what, node), type = "spawned" => node.name = Name(what)
  PROVE  EventsNamed(log')
  <1> DEFINE e == [type |-> type, what |-> what, node |-> node]
  <1>1. log' = Append(log, e) /\ log \in Seq(Events) /\ e.type = type /\ e.what = what /\ e.node = node
    BY DEF Emit, Types, KernelTypeOK, LogTypeOK
  <1> HIDE DEF e
  <1>2. /\ log' = Append(log, e)
        /\ \A i \in DOMAIN log' : \/ i \in DOMAIN log /\ log'[i] = log[i]
                                  \/ i = Len(log) + 1 /\ log'[i] = e
    BY <1>1, SMT
  <1> QED
    BY <1>1, <1>2 DEF EventsNamed

LEMMA KernelNamed == ASSUME Types, NamesInv, Kernel PROVE NamesInv'
  <1> USE NamesNow
  <1>0. UNCHANGED <<restarts, cache, rpc, req>> /\ table \in Trees
    BY DEF Kernel, Register, SetState, Remove, SendMessage, Types, TypeOK
  <1>1. CASE Register
    <2>1. table'[nextPid] = [name |-> Name(nextPid), state |-> "idle"] /\ nextPid \in Pids
      BY <1>0, <1>1 DEF Register, Trees
    <2>2. table'[nextPid].name = Name(nextPid)
      BY <2>1, SMT
    <2>3. restarts = 0 => Named(table')
      BY <1>0, <1>1, <2>2 DEF Register, Trees, Named
    <2>4. restarts = 0 => EventsNamed(log')
      BY <1>1, <2>2, EmitNamed DEF Register
    <2> QED
      BY <1>0, <2>3, <2>4, NamesStep
  <1>2. ASSUME NEW p \in Pids, SetState(p) PROVE NamesInv'
    <2>1. table'[p].name = table[p].name /\ \A q \in Pids : q # p => table'[q] = table[q]
      BY <1>0, <1>2 DEF SetState, Trees, Nodes
    <2>2. restarts = 0 => Named(table')
      BY <1>2, <2>1 DEF SetState, Named
    <2>4. restarts = 0 => EventsNamed(log')
      BY <1>2, EmitNamed DEF SetState
    <2> QED
      BY <1>0, <2>2, <2>4, NamesStep
  <1>3. ASSUME NEW p \in Pids, Remove(p) PROVE NamesInv'
    <2>2. restarts = 0 => Named(table')
      BY <1>0, <1>3 DEF Remove, Named, Trees
    <2>4. restarts = 0 => EventsNamed(log')
      BY <1>3, EmitNamed DEF Remove
    <2> QED
      BY <1>0, <2>2, <2>4, NamesStep
  <1>4. CASE SendMessage
    <2>4. restarts = 0 => EventsNamed(log')
      BY <1>4, EmitNamed DEF SendMessage
    <2> QED
      BY <1>0, <1>4, <2>4, NamesStep DEF SendMessage
  <1> QED
    BY <1>1, <1>2, <1>3, <1>4 DEF Kernel

\* After a restart there is nothing left to show.
LEMMA RestartNamed == ASSUME Types, Restart PROVE NamesInv'
  <1>1. restarts' # 0
    BY SMT DEF Types, KernelTypeOK, Restart
  <1> QED
    BY <1>1 DEF NamesInv

\* The name in the request is the cached one.
LEMMA SendNamed ==
  ASSUME Types, NamesInv, NEW p \in Pids, NEW n, Send(p, n), n \in {"", cache[p].name}
  PROVE  NamesInv'
  <1>1. restarts = 0 => n \in {"", Name(p)}
    <2>1. Absent.name = ""
      BY DEF Absent
    <2> QED
      BY <2>1, NamesNow DEF Named
  <1>2. req' = [pid |-> p, name |-> n]
    BY DEF Send
  <1>3. req'.pid = p /\ req'.name = n
    BY <1>2
  <1>4. restarts = 0 => ReqNamed(req')
    BY <1>1, <1>3 DEF ReqNamed
  <1>5. UNCHANGED <<table, cache, rpc, log, restarts>>
    BY DEF Send, kernel
  <1> QED
    BY <1>4, <1>5, NamesStep, NamesNow

LEMMA NextNamed == ASSUME Types, NamesInv, [Next]_vars PROVE NamesInv'
  <1>0. {"listener", "safety"} \subseteq Callers /\ Clients \subseteq Callers
    BY DEF Callers, Loops
  <1> USE NamesNow
  <1>1. ASSUME UNCHANGED <<kernel, cache, rpc, req>> PROVE NamesInv'
    BY <1>1, NamesStep DEF kernel
  <1>2. ASSUME NEW c \in Callers, Ask(c), UNCHANGED <<kernel, cache, req>> PROVE NamesInv'
    BY <1>2, NamesStep, AskNamed DEF kernel
  <1>3. ASSUME NEW c \in Callers, full_resync(c), UNCHANGED <<kernel, req>> PROVE NamesInv'
    BY <1>3, NamesStep, ResyncNamed DEF kernel
  <1>4. ASSUME NEW c \in Callers, rpc' = [rpc EXCEPT ![c] = NoRpc], UNCHANGED <<kernel, cache, req>>
        PROVE  NamesInv'
    <2>1. \A d \in Callers : rpc'[d] = IF d = c THEN NoRpc ELSE rpc[d]
      BY <1>4, TypesNow DEF Rpcs
    <2> QED
      BY <1>4, <2>1, NamesStep, NamedEmpty, EmptyTree DEF kernel
  <1>5. ASSUME NEW c \in Callers, ListChildren(c) \/ ListTimeout(c) PROVE NamesInv'
    <2>1. \A d \in Callers : rpc'[d].snap \in {rpc[d].snap, table}
      BY <1>5, TypesNow, SMT DEF Rpcs, ListChildren, ListTimeout
    <2> QED
      BY <1>5, <2>1, NamesStep DEF ListChildren, ListTimeout, kernel
  <1>6. CASE ReadEvent
    <2>1. /\ cache' = Applied(cache, log[strm]) /\ strm \in DOMAIN log /\ cache \in Trees
          /\ UNCHANGED <<table, log, restarts, rpc, req>>
      BY <1>6, TypesNow DEF ReadEvent, apply_event, kernel
    <2>2. log[strm] \in Events /\ (log[strm].type \in Lifecycle => log[strm].what \in Pids)
      BY <2>1, SMT DEF Types, KernelTypeOK, LogTypeOK
    <2>3. restarts = 0 => Named(cache')
      BY <2>1, <2>2, NamedApplied DEF EventsNamed
    <2> QED
      BY <2>1, <2>3, NamesStep
  <1>7. CASE ListenerResynced \/ SubscribeEvents \/ ListenerCasts \/ StreamEnds \/ DropEvent \/ BreakStream
    BY <1>0, <1>1, <1>2, <1>3, <1>7
       DEF ListenerResynced, SubscribeEvents, ListenerCasts, StreamEnds, DropEvent, BreakStream
  <1>8. CASE safety_resync
    BY <1>0, <1>2, <1>3, <1>4, <1>8 DEF safety_resync, SafetyWakes, SafetyCompares, SafetyPushes
  <1>9. ASSUME NEW c \in Clients, CastTo(c) \/ websocket_endpoint(c) PROVE NamesInv'
    BY <1>0, <1>1, <1>2, <1>3, <1>4, <1>9
       DEF CastTo, websocket_endpoint, Connect, Refresh, SendTree, Disconnect
  <1>10. CASE api_run_task \/ api_chat \/ api_execute
    BY <1>10, SendNamed DEF api_run_task, api_chat, api_execute, Find
  <1>11. CASE ExecuteTask
    BY <1>11, NamesStep DEF ExecuteTask, kernel, ReqNamed
  <1>12. CASE UNCHANGED vars
    BY <1>1, <1>12 DEF vars
  <1> QED
    BY <1>5, <1>6, <1>7, <1>8, <1>9, <1>10, <1>11, <1>12, KernelNamed, RestartNamed
       DEF Next, event_listener

-----------------------------------------------------------------------------

LEMMA InitInv == ASSUME Init PROVE DashboardInv
  <1>1. Types
    BY InitTypes
  <1>2. ListedInv
    BY SMT DEF Init, ListedInv, ListedOnce
  <1>3. NamesInv
    <2>1. \A c \in Callers : rpc[c].snap = Empty
      BY DEF Init, NoRpc
    <2> QED
      BY <2>1, NamedEmpty, SMT DEF Init, NamesInv
  <1> QED
    BY <1>1, <1>2, <1>3 DEF Types, DashboardInv

\* The inductive invariant of the dashboard, over every interleaving of the
\* listener, the safety loop, the browsers, the requests and the kernel.
THEOREM DashboardInvariant == Spec => []DashboardInv
  <1>1. Init => DashboardInv
    BY InitInv
  <1>2. DashboardInv /\ [Next]_vars => DashboardInv'
    BY NextTypes, NextListed, NextNamed DEF DashboardInv, Types
  <1> QED
    BY <1>1, <1>2, PTL DEF Spec

\* No message is listed twice, over any number of reconnections, replays,
\* dropped events and restarts of the kernel: the number noted by apply_event is
\* never behind the message of the kernel's run (app.py 172).
THEOREM MessagesListedOnce == Spec => []ListedOnce
  <1>1. DashboardInv => ListedOnce
    BY DEF DashboardInv, ListedInv
  <1> QED
    BY <1>1, DashboardInvariant, PTL

\* Until the kernel restarts, a task sent through the REST interface meets the
\* process of the name it is recorded under, or nobody (_find_queen_pid,
\* _find_agent_pid), however old the cache is.
THEOREM TasksMeetTheirTarget == Spec => []RightTarget
  <1>1. DashboardInv => RightTarget
    BY DEF DashboardInv, NamesInv, RightTarget, Named
  <1> QED
    BY <1>1, DashboardInvariant, PTL

\* The dashboard's state keeps its types; in particular the position in the
\* stream stays within the log and the message list within its limit.
THEOREM DashboardTypes == Spec => []TypeOK
  <1>1. DashboardInv => TypeOK
    BY DEF DashboardInv
  <1> QED
    BY <1>1, DashboardInvariant, PTL
=============================================================================
