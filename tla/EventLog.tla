------------------------------ MODULE EventLog ------------------------------
(***************************************************************************)
(* The event log (internal/process/eventlog.go), the SubscribeEvents       *)
(* stream that hands it out (internal/kernel/grpc_core.go), and a client   *)
(* that resumes after the last event it saw, as the dashboard does.        *)
(*                                                                         *)
(* Any number of goroutines emit. Emit takes its number from an atomic     *)
(* counter, then the lock for the ring buffer, the disk and the list of    *)
(* subscribers, and sends to the channels of that list after the lock is   *)
(* released. An event is its sequence number.                              *)
(***************************************************************************)
EXTENDS Naturals, Sequences, FiniteSetsExt

CONSTANTS
    Emitters,   \* goroutines that call Emit
    Clients,    \* SubscribeEvents streams that can be open at once
    Chans,      \* bound: subscriptions in one behaviour
    NoChan,     \* not a channel
    MaxEvents,  \* bound: events in one behaviour
    MaxSize,    \* capacity of the ring buffer
    BufSize     \* capacity of a subscriber channel

ASSUME SizeAssumption ==
    /\ NoChan \notin Chans
    /\ MaxEvents \in Nat
    /\ MaxSize \in Nat \ {0}
    /\ BufSize \in Nat \ {0}

VARIABLES
    seq,       \* EventLog.seq
    events,    \* EventLog.events, the ring buffer
    disk,      \* lines of the JSONL file
    subs,      \* EventLog.subs
    chan,      \* every channel made: all that was ever put in, and how much was taken
    em,        \* calls of Emit in progress
    client,    \* the stream of each client and the last number it saw
    closed,    \* Close has run
    panicked,  \* a goroutine sent on a closed channel: the kernel is gone
    appended   \* history: events in the order in which they were logged

vars == <<seq, events, disk, subs, chan, em, client, closed, panicked, appended>>

Event == 1..MaxEvents

EmitIdle == [pc |-> "idle", evt |-> 0, todo |-> {}]

NewChan == [st |-> "none", since |-> 0, sent |-> <<>>, taken |-> 0]

Full(c) == Len(chan[c].sent) - chan[c].taken >= BufSize

-----------------------------------------------------------------------------
(* Emit *)

EmitNumber(m) ==
    /\ ~panicked
    /\ em[m].pc = "idle"
    /\ seq < MaxEvents
    /\ seq' = seq + 1
    /\ em' = [em EXCEPT ![m] = [pc |-> "append", evt |-> seq + 1, todo |-> {}]]
    /\ UNCHANGED <<events, disk, subs, chan, client, closed, panicked, appended>>

\* Slip: the newer half is cut off.
TrimmedToOldest(s) ==
    IF Len(s) > MaxSize THEN SubSeq(s, 1, Len(s) - Len(s) \div 2) ELSE s

\* Append, and cut off the older half when the capacity is exceeded.
Trimmed(s) ==
    IF Len(s) > MaxSize THEN SubSeq(s, Len(s) \div 2 + 1, Len(s)) ELSE s

\* The part under the lock. Close has set the writer to nil.
EmitAppend(m) ==
    /\ ~panicked
    /\ em[m].pc = "append"
    /\ events' = Trimmed(Append(events, em[m].evt))
    /\ disk' = IF closed THEN disk ELSE Append(disk, em[m].evt)
    /\ appended' = Append(appended, em[m].evt)
    /\ em' = [em EXCEPT ![m] = IF subs = {} THEN EmitIdle
                               ELSE [@ EXCEPT !.pc = "send", !.todo = subs]]
    /\ UNCHANGED <<seq, subs, chan, client, closed, panicked>>

\* Slip: the loop goes over the list itself and not over the snapshot.
EmitSendUnlisted(m) ==
    /\ ~panicked
    /\ em[m].pc = "send"
    /\ \E c \in subs :
          /\ chan' = IF Full(c) THEN chan ELSE [chan EXCEPT ![c].sent = Append(@, em[m].evt)]
          /\ em' = [em EXCEPT ![m] = IF em[m].todo \subseteq {c} THEN EmitIdle
                                     ELSE [@ EXCEPT !.todo = @ \ {c}]]
    /\ UNCHANGED <<seq, events, disk, subs, client, closed, panicked, appended>>

\* One turn of the loop over the snapshot: a full channel misses the event, a
\* closed one makes the send panic.
EmitSend(m) ==
    /\ ~panicked
    /\ em[m].pc = "send"
    /\ \E c \in em[m].todo :
          /\ panicked' = (chan[c].st = "closed")
          /\ chan' = IF Full(c) \/ chan[c].st = "closed" THEN chan
                     ELSE [chan EXCEPT ![c].sent = Append(@, em[m].evt)]
          /\ em' = [em EXCEPT ![m] = IF em[m].todo = {c} THEN EmitIdle
                                     ELSE [em[m] EXCEPT !.todo = em[m].todo \ {c}]]
    /\ UNCHANGED <<seq, events, disk, subs, client, closed, appended>>

-----------------------------------------------------------------------------
(* SubscribeEvents *)

\* Slip: the first event after since is left out.
ReplayOffByOne(since) ==
    LET newer == {i \in 1..Len(events) : events[i] > since + 1}
        Nth(k) == CHOOSE i \in newer : Cardinality({j \in newer : j <= i}) = k
    IN  [k \in 1..Min({Cardinality(newer), BufSize}) |-> events[Nth(k)]]

\* What SubscribeSince puts into a new channel: the buffered events after
\* since in the order of the ring, as many as fit.
Replay(since) ==
    LET newer == {i \in 1..Len(events) : events[i] > since}
        Nth(k) == CHOOSE i \in newer : Cardinality({j \in newer : j <= i}) = k
    IN  [k \in 1..Min({Cardinality(newer), BufSize}) |-> events[Nth(k)]]

Subscribe(s) ==
    /\ ~panicked
    /\ client[s].ch = NoChan
    /\ \E c \in Chans :
          /\ chan[c].st = "none"
          /\ chan' = [chan EXCEPT ![c] = [st |-> "open", since |-> client[s].last,
                                          sent |-> Replay(client[s].last), taken |-> 0]]
          /\ subs' = subs \cup {c}
          /\ client' = [client EXCEPT ![s].ch = c]
    /\ UNCHANGED <<seq, events, disk, em, closed, panicked, appended>>

\* The handler takes an event and streams it; the client notes its number.
Receive(s) ==
    /\ ~panicked
    /\ client[s].ch # NoChan
    /\ LET c == client[s].ch
           e == chan[c].sent[chan[c].taken + 1]
       IN  /\ chan[c].taken < Len(chan[c].sent)
           /\ chan' = [chan EXCEPT ![c].taken = @ + 1]
           /\ client' = [client EXCEPT ![s].last = e]
    /\ UNCHANGED <<seq, events, disk, subs, em, closed, panicked, appended>>

\* Unsubscribe closes the channel unless Close has done so.
Unsubscribe(c) ==
    IF c \in subs
    THEN /\ subs' = subs \ {c}
         /\ chan' = [chan EXCEPT ![c].st = "closed"]
    ELSE UNCHANGED <<subs, chan>>

\* The client goes away.
Disconnect(s) ==
    /\ ~panicked
    /\ client[s].ch # NoChan
    /\ Unsubscribe(client[s].ch)
    /\ client' = [client EXCEPT ![s].ch = NoChan]
    /\ UNCHANGED <<seq, events, disk, em, closed, panicked, appended>>

\* The handler finds its channel closed and empty.
StreamEnds(s) ==
    /\ ~panicked
    /\ client[s].ch # NoChan
    /\ chan[client[s].ch].st = "closed"
    /\ chan[client[s].ch].taken = Len(chan[client[s].ch].sent)
    /\ Unsubscribe(client[s].ch)
    /\ client' = [client EXCEPT ![s].ch = NoChan]
    /\ UNCHANGED <<seq, events, disk, em, closed, panicked, appended>>

\* The shutdown of the kernel calls it once.
Close ==
    /\ ~panicked
    /\ ~closed
    /\ closed' = TRUE
    /\ chan' = [c \in Chans |-> IF c \in subs THEN [chan[c] EXCEPT !.st = "closed"] ELSE chan[c]]
    /\ subs' = {}
    /\ UNCHANGED <<seq, events, disk, em, client, panicked, appended>>

-----------------------------------------------------------------------------
Init ==
    /\ seq = 0
    /\ events = <<>>
    /\ disk = <<>>
    /\ subs = {}
    /\ chan = [c \in Chans |-> NewChan]
    /\ em = [m \in Emitters |-> EmitIdle]
    /\ client = [s \in Clients |-> [ch |-> NoChan, last |-> 0]]
    /\ closed = FALSE
    /\ panicked = FALSE
    /\ appended = <<>>

EmitStep(m) == EmitNumber(m) \/ EmitAppend(m) \/ EmitSend(m)

StreamStep(s) == Subscribe(s) \/ Receive(s) \/ Disconnect(s) \/ StreamEnds(s)

Next ==
    \/ \E m \in Emitters : EmitStep(m)
    \/ \E s \in Clients : StreamStep(s)
    \/ Close

Spec == Init /\ [][Next]_vars

-----------------------------------------------------------------------------
(* Properties *)

TypeOK ==
    /\ seq \in 0..MaxEvents
    /\ events \in Seq(Event) /\ Len(events) <= MaxSize
    /\ disk \in Seq(Event)
    /\ subs \subseteq Chans
    /\ DOMAIN chan = Chans
    /\ \A c \in Chans :
          /\ chan[c].st \in {"none", "open", "closed"}
          /\ chan[c].since \in 0..MaxEvents
          /\ chan[c].sent \in Seq(Event)
          /\ chan[c].taken \in 0..Len(chan[c].sent)
    /\ em \in [Emitters -> [pc : {"idle", "append", "send"}, evt : 0..MaxEvents,
                            todo : SUBSET Chans]]
    /\ client \in [Clients -> [ch : Chans \cup {NoChan}, last : 0..MaxEvents]]
    /\ closed \in BOOLEAN /\ panicked \in BOOLEAN
    /\ appended \in Seq(Event)

Sending(c, e) == \E m \in Emitters : em[m].pc = "send" /\ em[m].evt = e /\ c \in em[m].todo

\* Replay and live delivery overlap in time, the fan-out running outside the
\* lock; still a subscription is never sent the same event twice.
NoDuplicate ==
    \A c \in Chans :
        /\ IsInjective(chan[c].sent)
        /\ \A e \in Range(chan[c].sent) : ~Sending(c, e)

\* "no events are missed between replay and subscription": a subscription whose
\* channel was never full was sent, or is about to be sent, every event of the
\* ring after the number it asked for.
NothingMissed ==
    \A c \in subs, e \in Range(events) :
        e > chan[c].since /\ Len(chan[c].sent) < BufSize =>
            e \in Range(chan[c].sent) \/ Sending(c, e)

\* "When the buffer overflows, the oldest 50% is trimmed": the ring holds the
\* events logged last, more than half its capacity of them once that many
\* were logged; the file holds all those logged before Close, in that order.
RingIsRecent ==
    /\ Len(events) <= Len(appended)
    /\ events = SubSeq(appended, Len(appended) - Len(events) + 1, Len(appended))
    /\ Len(appended) > MaxSize \div 2 => Len(events) > MaxSize \div 2
    /\ Len(disk) <= Len(appended) /\ disk = SubSeq(appended, 1, Len(disk))
    /\ ~closed => disk = appended
=============================================================================
