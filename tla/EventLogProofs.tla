-------------------------- MODULE EventLogProofs ---------------------------
(***************************************************************************)
(* The ring buffer and the file of the event log, and what a subscription  *)
(* is sent, for any capacities and any number of emitters and subscribers. *)
(***************************************************************************)
EXTENDS EventLog, FiniteSetTheorems, TLAPS

\* A step is first-order unless it names SMT, for arithmetic and sequences.
USE Zenon

\* t ends with s, index by index.
EndsWith(s, t) ==
    /\ Len(s) <= Len(t)
    /\ \A i \in 1..Len(s) : s[i] = t[Len(t) - Len(s) + i]

Emit == [pc : {"idle", "append", "send"}, evt : Nat, todo : SUBSET Chans]

\* The types of what Emit reads and writes.
LogTypes ==
    /\ seq \in Nat
    /\ em \in [Emitters -> Emit]
    /\ subs \subseteq Chans
    /\ events \in Seq(Nat) /\ appended \in Seq(Nat) /\ disk \in Seq(Nat)
    /\ closed \in BOOLEAN

LogInv ==
    /\ LogTypes
    /\ EndsWith(events, appended)
    /\ Len(events) <= MaxSize
    /\ IF Len(appended) <= MaxSize THEN Len(events) = Len(appended)
                                   ELSE Len(events) > MaxSize \div 2
    /\ Len(disk) <= Len(appended) /\ \A i \in 1..Len(disk) : disk[i] = appended[i]
    /\ ~closed => disk = appended

\* The index form says what part of t it is.
LEMMA EndsWithSubSeq ==
    ASSUME NEW s \in Seq(Nat), NEW t \in Seq(Nat), EndsWith(s, t)
    PROVE  s = SubSeq(t, Len(t) - Len(s) + 1, Len(t))
<1> DEFINE u == SubSeq(t, Len(t) - Len(s) + 1, Len(t))
<1>1. Len(s) \in Nat /\ Len(t) \in Nat /\ Len(s) <= Len(t)
  BY SMT DEF EndsWith
<1>2. u \in Seq(Nat) /\ Len(u) = Len(s)
  BY <1>1, SMT
<1>3. \A i \in 1..Len(s) : u[i] = t[Len(t) - Len(s) + i]
  BY <1>1, SMT
<1> HIDE DEF u
<1>4. s = u
  BY <1>2, <1>3, SMTT(20) DEF EndsWith
<1> QED BY <1>4 DEF u

\* The event at the end of the ring is the event at the end of the log.
LEMMA AppendEndsWith ==
    ASSUME NEW s \in Seq(Nat), NEW t \in Seq(Nat), NEW e \in Nat, EndsWith(s, t)
    PROVE  EndsWith(Append(s, e), Append(t, e))
<1> DEFINE a == Append(s, e)
           b == Append(t, e)
<1>1. Len(a) = Len(s) + 1 /\ Len(b) = Len(t) + 1 /\ Len(s) \in Nat /\ Len(t) \in Nat
  BY SMT
<1>2. (\A i \in 1..Len(s) : a[i] = s[i]) /\ (\A i \in 1..Len(t) : b[i] = t[i])
  BY SMT
<1>3. a[Len(s) + 1] = e /\ b[Len(t) + 1] = e
  BY SMT
<1> HIDE DEF a, b
<1>4. ASSUME NEW i \in 1..Len(a)
      PROVE  a[i] = b[Len(b) - Len(a) + i]
  <2>1. CASE i \in 1..Len(s)
    <3>1. Len(b) - Len(a) + i = Len(t) - Len(s) + i /\ Len(t) - Len(s) + i \in 1..Len(t)
      BY <1>1, <2>1, SMT DEF EndsWith
    <3> QED BY <3>1, <2>1, <1>2 DEF EndsWith
  <2>2. CASE i = Len(s) + 1
    <3>1. Len(b) - Len(a) + i = Len(t) + 1
      BY <1>1, <2>2, SMT
    <3> QED BY <3>1, <2>2, <1>3
  <2> QED BY <1>1, <2>1, <2>2, SMT
<1>5. EndsWith(a, b)
  BY <1>1, <1>4, SMT DEF EndsWith
<1> QED BY <1>5 DEF a, b

\* Cutting the older half leaves the newer one, more than half the capacity.
LEMMA TrimmedEndsWith ==
    ASSUME NEW s \in Seq(Nat), NEW t \in Seq(Nat), EndsWith(s, t), Len(s) <= MaxSize + 1
    PROVE  /\ Trimmed(s) \in Seq(Nat)
           /\ EndsWith(Trimmed(s), t)
           /\ Len(Trimmed(s)) <= MaxSize
           /\ IF Len(s) <= MaxSize THEN Trimmed(s) = s ELSE Len(Trimmed(s)) > MaxSize \div 2
<1> USE SizeAssumption
<1>1. CASE Len(s) <= MaxSize
  BY <1>1, SMT DEF Trimmed
<1>2. CASE Len(s) = MaxSize + 1
  <2> DEFINE h == Len(s) \div 2
  <2>1. h \in Nat /\ h < Len(s) /\ h >= 1 /\ Len(s) - h > MaxSize \div 2
    BY <1>2, SMT
  <2>2. Trimmed(s) = SubSeq(s, h + 1, Len(s))
    BY <1>2, SMT DEF Trimmed
  <2> HIDE DEF h
  <2>3. Trimmed(s) \in Seq(Nat) /\ Len(Trimmed(s)) = Len(s) - h
    BY SMTT(30), <2>1, <2>2
  <2>4. \A i \in 1..(Len(s) - h) : Trimmed(s)[i] = s[h + i]
    BY <2>1, <2>2, SMT
  <2>5. EndsWith(Trimmed(s), t)
    <3>1. Len(s) \in Nat /\ Len(t) \in Nat /\ Len(s) <= Len(t)
      BY SMT DEF EndsWith
    <3>2. ASSUME NEW i \in 1..Len(Trimmed(s))
          PROVE  Trimmed(s)[i] = t[Len(t) - Len(Trimmed(s)) + i]
      <4>1. h + i \in 1..Len(s) /\ Len(t) - Len(Trimmed(s)) + i = Len(t) - Len(s) + (h + i)
        BY <2>1, <2>3, <3>1, SMT
      <4>2. Trimmed(s)[i] = s[h + i]
        BY <2>3, <2>4
      <4> QED BY SMTT(30), <4>1, <4>2 DEF EndsWith
    <3> QED BY <2>1, <2>3, <3>1, <3>2, SMT DEF EndsWith
  <2> QED BY <1>2, <2>1, <2>3, <2>5, SMT
<1> QED BY <1>1, <1>2, SMT

\* Init establishes the invariant.
LEMMA LogInitInv == Init => LogInv
<1> SUFFICES ASSUME Init
             PROVE  LogInv
  OBVIOUS
<1>1. LogTypes
  <2>1. EmitIdle \in Emit
    BY DEF EmitIdle, Emit
  <2>2. em \in [Emitters -> Emit]
    BY <2>1 DEF Init
  <2>3. seq \in Nat /\ subs \subseteq Chans /\ closed \in BOOLEAN
    BY DEF Init
  <2>4. events \in Seq(Nat) /\ appended \in Seq(Nat) /\ disk \in Seq(Nat)
    BY SMT DEF Init
  <2> QED BY <2>2, <2>3, <2>4 DEF LogTypes
<1>2. events = <<>> /\ appended = <<>> /\ disk = <<>>
  BY DEF Init
<1> QED BY <1>1, <1>2, SizeAssumption, SMT DEF LogInv, EndsWith

\* EmitAppend logs an event: the ring, the file and the log grow together.
LEMMA EmitAppendInv ==
    ASSUME LogInv, NEW m \in Emitters, EmitAppend(m)
    PROVE  LogInv'
<1> DEFINE e == em[m].evt
           s == Append(events, e)
<1> USE DEF LogInv
<1>1. e \in Nat /\ events \in Seq(Nat) /\ appended \in Seq(Nat) /\ disk \in Seq(Nat)
  <2>1. em[m] \in Emit
    BY DEF LogTypes
  <2> QED BY <2>1 DEF LogTypes, Emit
<1>2. /\ events' = Trimmed(s) /\ appended' = Append(appended, e)
      /\ disk' = IF closed THEN disk ELSE Append(disk, e)
      /\ closed' = closed /\ seq' = seq
  BY DEF EmitAppend
<1> HIDE DEF e
<1>3. s \in Seq(Nat) /\ Len(s) = Len(events) + 1 /\ EndsWith(s, appended')
  BY <1>1, <1>2, AppendEndsWith, SMT
<1>4. appended' \in Seq(Nat) /\ Len(appended') = Len(appended) + 1
  BY <1>1, <1>2, SMT
<1> HIDE DEF s
<1>5. Len(s) <= MaxSize + 1
  BY <1>1, <1>3, SizeAssumption, SMT
<1>6. /\ events' \in Seq(Nat) /\ EndsWith(events', appended') /\ Len(events') <= MaxSize
      /\ IF Len(s) <= MaxSize THEN events' = s ELSE Len(events') > MaxSize \div 2
  BY <1>2, <1>3, <1>4, <1>5, TrimmedEndsWith
<1>a. MaxSize \in Nat /\ MaxSize \div 2 \in Nat /\ MaxSize >= MaxSize \div 2 + 1
  BY SizeAssumption, SMT
<1>b. IF Len(appended') <= MaxSize THEN Len(events') = Len(appended')
                                   ELSE Len(events') > MaxSize \div 2
  <2>1. CASE Len(appended) < MaxSize
    BY <2>1, <1>1, <1>3, <1>4, <1>6, <1>a, SMTT(30)
  <2>2. CASE Len(appended) = MaxSize
    BY SMTT(30), <2>2, <1>1, <1>3, <1>4, <1>6, <1>a
  <2>3. CASE Len(appended) > MaxSize
    <3>0. Len(events) > MaxSize \div 2 /\ Len(events) \in Nat /\ Len(appended) \in Nat
      BY <2>3, <1>1, <1>a, SMTT(30)
    <3>1. Len(s) > MaxSize \div 2 /\ Len(appended') > MaxSize
      BY <2>3, <3>0, <1>3, <1>4, <1>a, SMTT(30)
    <3> QED BY <3>1, <1>6, <1>a, SMT
  <2> QED BY <1>1, <1>a, <2>1, <2>2, <2>3, SMT
<1>7. /\ disk' \in Seq(Nat) /\ Len(disk') <= Len(appended')
      /\ \A i \in 1..Len(disk') : disk'[i] = appended'[i]
      /\ ~closed' => disk' = appended'
  BY <1>1, <1>2, <1>4, SMTT(30)
<1>8. em' \in [Emitters -> Emit]
  BY ZenonT(60), SMT DEF EmitAppend, EmitIdle, LogTypes, Emit
<1>9. LogTypes'
  <2>1. subs' = subs
    BY DEF EmitAppend
  <2> QED BY <1>2, <1>4, <1>6, <1>7, <1>8, <2>1 DEF LogTypes
<1> QED BY <1>6, <1>b, <1>7, <1>9

\* Every other step leaves the ring, the file and the log alone.
LEMMA LogNextInv == LogInv /\ [Next]_vars => LogInv'
<1> SUFFICES ASSUME LogInv, [Next]_vars
             PROVE  LogInv'
  OBVIOUS
<1>1. ASSUME LogTypes', UNCHANGED <<events, disk, appended>>, closed => closed'
      PROVE  LogInv'
  BY <1>1 DEF LogInv, EndsWith
<1>2. ASSUME NEW m \in Emitters, EmitNumber(m)
      PROVE  LogInv'
  <2>1. em' \in [Emitters -> Emit]
    BY <1>2, SMT DEF EmitNumber, LogInv, LogTypes, Emit
  <2> QED BY <1>1, <1>2, <2>1, SMT DEF EmitNumber, LogInv, LogTypes
<1>3. ASSUME NEW m \in Emitters, EmitAppend(m)
      PROVE  LogInv'
  BY <1>3, EmitAppendInv
<1>4. ASSUME NEW m \in Emitters, EmitSend(m)
      PROVE  LogInv'
  <2>1. em' \in [Emitters -> Emit]
    <3>1. EmitIdle \in Emit /\ em[m] \in Emit
      BY DEF EmitIdle, Emit, LogInv, LogTypes
    <3>2. \A c : [em[m] EXCEPT !.todo = em[m].todo \ {c}] \in Emit
      BY <3>1 DEF Emit
    <3>3. PICK c \in em[m].todo :
             em' = [em EXCEPT ![m] = IF em[m].todo = {c} THEN EmitIdle
                                       ELSE [em[m] EXCEPT !.todo = em[m].todo \ {c}]]
      BY ZenonT(60), <1>4 DEF EmitSend, LogInv, LogTypes
    <3>4. em \in [Emitters -> Emit]
      BY DEF LogInv, LogTypes
    <3>5. CASE em[m].todo = {c}
      BY <3>1, <3>3, <3>4, <3>5
    <3>6. CASE em[m].todo # {c}
      <4>1. em' = [em EXCEPT ![m] = [em[m] EXCEPT !.todo = em[m].todo \ {c}]]
        BY <3>3, <3>6
      <4> QED BY <4>1, <3>2, <3>4
    <3> QED BY <3>5, <3>6
  <2> QED BY <1>1, <1>4, <2>1 DEF EmitSend, LogInv, LogTypes
<1>5. ASSUME NEW s \in Clients, StreamStep(s)
      PROVE  LogInv'
  <2>1. subs' \subseteq Chans
    BY SMTT(30), <1>5 DEF StreamStep, Subscribe, Receive, Disconnect, StreamEnds, Unsubscribe, LogInv, LogTypes
  <2>2. UNCHANGED <<seq, em, events, disk, closed, appended>>
    BY <1>5 DEF StreamStep, Subscribe, Receive, Disconnect, StreamEnds
  <2> QED BY SMTT(30), <1>1, <2>1, <2>2 DEF LogInv, LogTypes
<1>6. CASE Close
  BY <1>1, <1>6 DEF Close, LogInv, LogTypes
<1>7. CASE UNCHANGED vars
  BY <1>1, <1>7 DEF vars, LogInv, LogTypes
<1> QED BY <1>2, <1>3, <1>4, <1>5, <1>6, <1>7 DEF Next, EmitStep

\* The ring holds the events logged last, more than half its capacity of them
\* once that many were logged, and the file all of them until Close
\* (eventlog.go, Emit).
THEOREM RingKeepsRecent == Spec => []RingIsRecent
<1>1. LogInv => RingIsRecent
  <2> SUFFICES ASSUME LogInv
               PROVE  RingIsRecent
    OBVIOUS
  <2>1. events \in Seq(Nat) /\ appended \in Seq(Nat) /\ disk \in Seq(Nat)
    BY DEF LogInv, LogTypes
  <2>2. Len(events) <= Len(appended) /\ events = SubSeq(appended, Len(appended) - Len(events) + 1, Len(appended))
    BY <2>1, EndsWithSubSeq DEF LogInv, EndsWith
  <2>3. Len(disk) <= Len(appended) /\ disk = SubSeq(appended, 1, Len(disk))
    BY <2>1, SMT DEF LogInv
  <2>4. Len(appended) > MaxSize \div 2 => Len(events) > MaxSize \div 2
    BY <2>1, SizeAssumption DEF LogInv
  <2> QED BY <2>2, <2>3, <2>4 DEF LogInv, RingIsRecent
<1> QED BY <1>1, LogInitInv, LogNextInv, PTL DEF Spec

-----------------------------------------------------------------------------
(* What SubscribeSince replays *)

\* How many members of S are no larger than i.
Rank(S, i) == Cardinality({j \in S : j <= i})

\* Every place from 1 to the size of a finite set of numbers is the place of
\* exactly one member.
LEMMA RankOnto ==
    ASSUME NEW S \in SUBSET Nat, IsFiniteSet(S)
    PROVE  /\ Cardinality(S) \in Nat
           /\ \A k \in 1..Cardinality(S) : \E i \in S : Rank(S, i) = k
           /\ \A i \in S : Rank(S, i) \in 1..Cardinality(S)
           /\ \A i, j \in S : Rank(S, i) = Rank(S, j) => i = j
<1> DEFINE n == Cardinality(S)
           upto(i) == {j \in S : j <= i}
           f == [i \in S |-> Rank(S, i)]
<1>1. n \in Nat
  BY FS_CardinalityType
<1>2. \A i \in S : IsFiniteSet(upto(i)) /\ Cardinality(upto(i)) <= n /\ Cardinality(upto(i)) \in Nat
  BY FS_Subset, FS_CardinalityType
<1>3. ASSUME NEW i \in S
      PROVE  Rank(S, i) \in 1..n
  <2>1. i \in upto(i)
    BY SMT
  <2>2. Cardinality(upto(i)) # 0
    BY <1>2, <2>1, FS_EmptySet
  <2> QED BY <1>1, <1>2, <2>2, SMT DEF Rank
<1>4. ASSUME NEW i \in S, NEW j \in S, i < j
      PROVE  Rank(S, i) # Rank(S, j)
  <2>0. i \in Nat /\ j \in Nat /\ \A x \in S : x \in Nat
    OBVIOUS
  <2>1. upto(i) \in SUBSET upto(j)
    <3>1. \A x \in S : x <= i => x <= j
      BY <2>0, <1>4, SMT
    <3> QED BY <3>1
  <2>2. j \in upto(j) /\ j \notin upto(i)
    BY <1>4, SMT
  <2>3. IsFiniteSet(upto(j))
    BY <1>2
  <2>4. upto(j) # upto(i)
    BY <2>2
  <2> HIDE DEF upto
  <2>5. Cardinality(upto(j)) # Cardinality(upto(i))
    BY <2>1, <2>3, <2>4, FS_Subset
  <2> QED BY <2>5 DEF Rank, upto
<1>5. \A i, j \in S : Rank(S, i) = Rank(S, j) => i = j
  <2> SUFFICES ASSUME NEW i \in S, NEW j \in S, Rank(S, i) = Rank(S, j)
               PROVE  i = j
    OBVIOUS
  <2> QED BY <1>4, SMT
<1>6. f \in Injection(S, 1..n)
  BY <1>3, <1>5 DEF Injection, IsInjective
<1>7. IsFiniteSet(1..n) /\ Cardinality(1..n) = n
  BY <1>1, FS_Interval, SMT
<1> HIDE DEF n, f
<1>8. f \in Surjection(S, 1..n)
  BY <1>6, <1>7, FS_Injection DEF n
<1>9. \A k \in 1..n : \E i \in S : Rank(S, i) = k
  BY <1>8 DEF Surjection, f
<1> QED BY <1>1, <1>3, <1>5, <1>9 DEF n

\* The replay is made of ring events after since, none of them twice, and of
\* all of them when the channel has room left.
LEMMA ReplayFacts ==
    ASSUME events \in Seq(Nat), NEW since \in Nat, IsInjective(events)
    PROVE  /\ Replay(since) \in Seq(Nat)
           /\ IsInjective(Replay(since))
           /\ Range(Replay(since)) \subseteq Range(events)
           /\ Len(Replay(since)) < BufSize =>
                 \A e \in Range(events) : e > since => e \in Range(Replay(since))
<1> DEFINE newer == {i \in 1..Len(events) : events[i] > since}
           Nth(k) == CHOOSE i \in newer : Rank(newer, i) = k
           n == Cardinality(newer)
           len == Min({n, BufSize})
<1>1. newer \in SUBSET Nat /\ IsFiniteSet(newer)
  <2>1. IsFiniteSet(1..Len(events)) /\ newer \in SUBSET (1..Len(events))
    BY FS_Interval, SMT
  <2> QED BY <2>1, FS_Subset, SMT
<1>2. Replay(since) = [k \in 1..len |-> events[Nth(k)]]
  BY DEF Replay, Rank
<1>3. \A i \in newer : i \in 1..Len(events) /\ events[i] \in Nat /\ events[i] > since
  BY SMT
<1>4. \A i \in 1..Len(events) : events[i] > since => i \in newer
  OBVIOUS
<1> HIDE DEF newer
<1>5. /\ n \in Nat
      /\ \A k \in 1..n : \E i \in newer : Rank(newer, i) = k
      /\ \A i \in newer : Rank(newer, i) \in 1..n
      /\ \A i, j \in newer : Rank(newer, i) = Rank(newer, j) => i = j
  BY <1>1, RankOnto
<1>6. \A k \in 1..n : Nth(k) \in newer /\ Rank(newer, Nth(k)) = k
  BY <1>5
<1>7. \A i \in newer : Nth(Rank(newer, i)) = i
  BY <1>5, <1>6
<1> HIDE DEF n, Nth
<1>8. len \in Nat /\ len <= n /\ (len < BufSize => len = n)
  <2>1. \E x \in {n, BufSize} : \A y \in {n, BufSize} : x <= y
    BY <1>5, SizeAssumption, SMT
  <2>2. len \in {n, BufSize} /\ \A y \in {n, BufSize} : len <= y
    BY <2>1 DEF Min
  <2> QED BY <2>2, <1>5, SizeAssumption, SMT
<1> HIDE DEF len
<1>9. \A k \in 1..len : Nth(k) \in newer /\ Rank(newer, Nth(k)) = k
  BY <1>5, <1>6, <1>8, SMT
<1>10. Replay(since) \in Seq(Nat) /\ Len(Replay(since)) = len /\ DOMAIN Replay(since) = 1..len
  BY <1>2, <1>3, <1>8, <1>9, SMT
<1>11. IsInjective(Replay(since))
  <2> SUFFICES ASSUME NEW a \in 1..len, NEW b \in 1..len, events[Nth(a)] = events[Nth(b)]
               PROVE  a = b
    BY <1>2, <1>10 DEF IsInjective
  <2>1. Nth(a) \in DOMAIN events /\ Nth(b) \in DOMAIN events
    BY <1>3, <1>9, SMT
  <2>2. Nth(a) = Nth(b)
    BY <2>1 DEF IsInjective
  <2> QED BY <2>2, <1>9
<1>12. Range(Replay(since)) \subseteq Range(events)
  <2>1. \A k \in 1..len : Replay(since)[k] = events[Nth(k)] /\ Nth(k) \in DOMAIN events
    BY <1>2, <1>3, <1>9, SMT
  <2> QED BY <2>1, <1>10 DEF Range
<1>13. ASSUME len < BufSize, NEW e \in Range(events), e > since
       PROVE  e \in Range(Replay(since))
  <2>1. PICK i \in 1..Len(events) : events[i] = e
    BY SMT DEF Range
  <2>2. i \in newer
    BY <2>1, <1>4, <1>13
  <2>3. Rank(newer, i) \in 1..len /\ Nth(Rank(newer, i)) = i
    BY <2>2, <1>5, <1>7, <1>8, <1>13
  <2>4. Replay(since)[Rank(newer, i)] = e
    BY <2>1, <2>3, <1>2
  <2> QED BY <2>3, <2>4, <1>10 DEF Range
<1> QED BY <1>10, <1>11, <1>12, <1>13

-----------------------------------------------------------------------------
(* What a subscription is sent *)

Chan == [st : {"none", "open", "closed"}, since : Nat, sent : Seq(Nat), taken : Nat]

\* The types of what the streams read and write.
StreamTypes ==
    /\ chan \in [Chans -> Chan]
    /\ client \in [Clients -> [ch : Chans \cup {NoChan}, last : Nat]]

Busy(m) == em[m].pc # "idle"

\* The atomic counter gives every call of Emit a number of its own, and a
\* number not logged yet is in no channel.
NumberInv ==
    /\ IsInjective(appended)
    /\ \A e \in Range(appended) : e <= seq
    /\ \A m \in Emitters : Busy(m) => em[m].evt <= seq
    /\ \A m \in Emitters : em[m].pc = "append" => em[m].evt \notin Range(appended)
    /\ \A m \in Emitters : em[m].pc = "send" => em[m].evt \in Range(appended)
    /\ \A m, n \in Emitters : Busy(m) /\ Busy(n) /\ em[m].evt = em[n].evt => m = n

\* A channel holds logged events only; one not made yet is in nobody's list.
ChanInv ==
    \A c \in Chans :
        /\ Range(chan[c].sent) \subseteq Range(appended)
        /\ c \in subs => chan[c].st = "open"
        /\ chan[c].st = "none" => \A m \in Emitters : em[m].pc = "send" => c \notin em[m].todo

StreamInv == LogInv /\ StreamTypes /\ NumberInv /\ ChanInv /\ NoDuplicate /\ NothingMissed

\* An event added to a sequence.
LEMMA AppendFacts ==
    ASSUME NEW s \in Seq(Nat), NEW e \in Nat
    PROVE  /\ Append(s, e) \in Seq(Nat) /\ Len(Append(s, e)) = Len(s) + 1
           /\ Range(Append(s, e)) = Range(s) \cup {e}
           /\ IsInjective(s) /\ e \notin Range(s) => IsInjective(Append(s, e))
<1> DEFINE t == Append(s, e)
<1>1. t \in Seq(Nat) /\ Len(t) = Len(s) + 1 /\ Len(s) \in Nat
  BY SMT
<1>2. DOMAIN s = 1..Len(s) /\ DOMAIN t = 1..(Len(s) + 1)
  BY SMT
<1>3. (\A i \in 1..Len(s) : t[i] = s[i]) /\ t[Len(s) + 1] = e
  BY SMT
<1> HIDE DEF t
<1>4. \A i \in 1..(Len(s) + 1) : i \in 1..Len(s) \/ i = Len(s) + 1
  BY <1>1, SMT
<1>5. 1..Len(s) \subseteq 1..(Len(s) + 1) /\ Len(s) + 1 \in 1..(Len(s) + 1)
  BY <1>1, SMT
<1>6. Range(t) = Range(s) \cup {e}
  BY <1>2, <1>3, <1>4, <1>5 DEF Range
<1>7. ASSUME IsInjective(s), e \notin Range(s)
      PROVE  IsInjective(t)
  <2> SUFFICES ASSUME NEW a \in 1..(Len(s) + 1), NEW b \in 1..(Len(s) + 1), t[a] = t[b]
               PROVE  a = b
    BY <1>2 DEF IsInjective
  <2>1. \A i \in 1..Len(s) : s[i] # e
    BY <1>2, <1>7 DEF Range
  <2> QED BY <2>1, <1>2, <1>3, <1>4, <1>7 DEF IsInjective
<1> QED BY <1>1, <1>6, <1>7 DEF t

\* The ring holds logged events, each once when each was logged once.
LEMMA RingOfLog ==
    ASSUME NEW s \in Seq(Nat), NEW t \in Seq(Nat), EndsWith(s, t)
    PROVE  /\ Range(s) \subseteq Range(t)
           /\ IsInjective(t) => IsInjective(s)
<1>1. DOMAIN s = 1..Len(s) /\ DOMAIN t = 1..Len(t) /\ Len(s) \in Nat /\ Len(t) \in Nat
  BY SMT
<1>2. \A i \in 1..Len(s) : Len(t) - Len(s) + i \in 1..Len(t) /\ s[i] = t[Len(t) - Len(s) + i]
  BY <1>1, SMT DEF EndsWith
<1>3. Range(s) \subseteq Range(t)
  BY <1>1, <1>2 DEF Range
<1>4. ASSUME IsInjective(t)
      PROVE  IsInjective(s)
  <2> SUFFICES ASSUME NEW a \in 1..Len(s), NEW b \in 1..Len(s), s[a] = s[b]
               PROVE  a = b
    BY <1>1 DEF IsInjective
  <2>1. Len(t) - Len(s) + a = Len(t) - Len(s) + b
    BY <1>1, <1>2, <1>4 DEF IsInjective
  <2> QED BY <2>1, <1>1, SMT
<1> QED BY <1>3, <1>4

\* Cutting off the older half adds no event.
LEMMA TrimmedSet ==
    ASSUME NEW s \in Seq(Nat), Len(s) <= MaxSize + 1
    PROVE  Range(Trimmed(s)) \subseteq Range(s)
<1>1. EndsWith(s, s)
  BY SMT DEF EndsWith
<1> QED BY <1>1, TrimmedEndsWith, RingOfLog

\* The fields of the state that the steps below read.
LEMMA StreamFields ==
    ASSUME LogTypes, StreamTypes
    PROVE  /\ \A m \in Emitters : em[m] \in Emit /\ em[m].evt \in Nat /\ em[m].todo \subseteq Chans
           /\ \A c \in Chans :
                 /\ chan[c] \in Chan
                 /\ chan[c].since \in Nat /\ chan[c].sent \in Seq(Nat)
                 /\ chan[c].taken \in Nat
           /\ \A s \in Clients : client[s].ch \in Chans \cup {NoChan} /\ client[s].last \in Nat
<1>1. ASSUME NEW m \in Emitters
      PROVE  em[m] \in Emit /\ em[m].evt \in Nat /\ em[m].todo \subseteq Chans
  <2>1. em[m] \in Emit
    BY DEF LogTypes
  <2> QED BY <2>1 DEF Emit
<1>2. ASSUME NEW c \in Chans
      PROVE  /\ chan[c] \in Chan
             /\ chan[c].since \in Nat /\ chan[c].sent \in Seq(Nat) /\ chan[c].taken \in Nat
  <2>1. chan[c] \in Chan
    BY DEF StreamTypes
  <2> QED BY <2>1 DEF Chan
<1>3. ASSUME NEW s \in Clients
      PROVE  client[s].ch \in Chans \cup {NoChan} /\ client[s].last \in Nat
  <2>1. client[s] \in [ch : Chans \cup {NoChan}, last : Nat]
    BY DEF StreamTypes
  <2> QED BY <2>1
<1> QED BY <1>1, <1>2, <1>3

\* Init establishes the invariant.
LEMMA StreamInitInv == Init => StreamInv
<1> SUFFICES ASSUME Init
             PROVE  StreamInv
  OBVIOUS
<1>1. LogInv
  BY LogInitInv
<1>2. \A c \in Chans : chan[c] = NewChan
  BY DEF Init
<1>3. NewChan \in Chan /\ NewChan.sent = <<>> /\ NewChan.st = "none"
  BY SMT DEF NewChan, Chan
<1>4. StreamTypes
  BY <1>3 DEF Init, StreamTypes
<1>5. Range(<<>>) = {} /\ IsInjective(<<>>)
  BY SMT DEF Range, IsInjective
<1>6. \A m \in Emitters : em[m].pc = "idle"
  BY DEF Init, EmitIdle
<1>7. appended = <<>> /\ subs = {}
  BY DEF Init
<1>8. NumberInv
  BY <1>5, <1>6, <1>7 DEF NumberInv, Busy
<1>9. ChanInv
  BY <1>2, <1>3, <1>5, <1>6, <1>7 DEF ChanInv
<1>10. NoDuplicate
  BY <1>2, <1>3, <1>5 DEF NoDuplicate
<1>11. NothingMissed
  BY <1>7 DEF NothingMissed
<1> QED BY <1>1, <1>4, <1>8, <1>9, <1>10, <1>11 DEF StreamInv

\* A call of Emit takes a number that nobody has.
LEMMA EmitNumberStream ==
    ASSUME StreamInv, LogInv', NEW m \in Emitters, EmitNumber(m)
    PROVE  StreamInv'
<1> USE DEF StreamInv
<1>1. LogTypes
  BY DEF LogInv
<1>2. seq \in Nat /\ seq' = seq + 1 /\ em \in [Emitters -> Emit]
  BY <1>1 DEF LogTypes, EmitNumber
<1>3. UNCHANGED <<events, subs, chan, client, appended>> /\ em[m].pc = "idle"
  BY DEF EmitNumber
<1>4. /\ em'[m].pc = "append" /\ em'[m].evt = seq + 1
      /\ \A n \in Emitters \ {m} : em'[n] = em[n]
  BY <1>2 DEF EmitNumber
<1>5. \A n \in Emitters : em[n].evt \in Nat
  BY <1>1, StreamFields
<1>6. \A e \in Range(appended) : e \in Nat
  BY <1>1, SMT DEF LogTypes, Range
<1>7. NumberInv'
  <2>1. \A e \in Range(appended) : e <= seq /\ e <= seq' /\ e # seq + 1
    BY <1>2, <1>6, SMT DEF NumberInv
  <2>2. \A n \in Emitters \ {m} : Busy(n)' => em'[n].evt <= seq' /\ em'[n].evt # seq + 1
    BY <1>2, <1>4, <1>5, SMT DEF NumberInv, Busy
  <2>3. \A n \in Emitters : Busy(n)' => em'[n].evt <= seq'
    BY <1>2, <1>4, <2>2, SMT
  <2>4. \A n \in Emitters : em'[n].pc = "append" => em'[n].evt \notin Range(appended)
    BY <1>4, <2>1 DEF NumberInv
  <2>5. \A n, k \in Emitters : Busy(n)' /\ Busy(k)' /\ em'[n].evt = em'[k].evt => n = k
    BY <1>4, <2>2, SMT DEF NumberInv, Busy
  <2>6. \A n \in Emitters : em'[n].pc = "send" => em'[n].evt \in Range(appended)
    BY <1>4 DEF NumberInv
  <2> QED BY <1>3, <2>1, <2>3, <2>4, <2>5, <2>6 DEF NumberInv
<1>8. \A c, e : Sending(c, e)' <=> Sending(c, e)
  BY <1>3, <1>4 DEF Sending
<1>9. ChanInv'
  BY <1>3, <1>4 DEF ChanInv
<1>10. NoDuplicate'
  BY <1>3, <1>8 DEF NoDuplicate
<1>11. NothingMissed'
  BY <1>3, <1>8 DEF NothingMissed
<1>12. StreamTypes'
  BY <1>3 DEF StreamTypes
<1> QED BY <1>7, <1>9, <1>10, <1>11, <1>12

\* Logging an event hands it to the subscribers of that moment, all of them
\* and no other.
LEMMA EmitAppendStream ==
    ASSUME StreamInv, LogInv', NEW m \in Emitters, EmitAppend(m)
    PROVE  StreamInv'
<1> USE DEF StreamInv
<1> DEFINE e == em[m].evt
<1>1. LogTypes
  BY DEF LogInv
<1>2. em \in [Emitters -> Emit] /\ events \in Seq(Nat) /\ appended \in Seq(Nat) /\ e \in Nat
  BY <1>1, StreamFields DEF LogTypes
<1>3. UNCHANGED <<seq, subs, chan, client>> /\ em[m].pc = "append"
  BY DEF EmitAppend
<1>4. \A n \in Emitters \ {m} : em'[n] = em[n]
  BY <1>2 DEF EmitAppend
<1>5. subs = {} => em'[m].pc = "idle"
  BY <1>2 DEF EmitAppend, EmitIdle
<1>6. subs # {} => em'[m].pc = "send" /\ em'[m].evt = e /\ em'[m].todo = subs
  <2> SUFFICES ASSUME subs # {}
               PROVE  em'[m].pc = "send" /\ em'[m].evt = e /\ em'[m].todo = subs
    OBVIOUS
  <2>1. em' = [em EXCEPT ![m] = [em[m] EXCEPT !.pc = "send", !.todo = subs]]
    BY <1>2 DEF EmitAppend
  <2>2. em[m] \in Emit
    BY <1>2
  <2> QED BY <1>2, <2>1, <2>2 DEF Emit
<1>7. e \notin Range(appended) /\ e <= seq
  BY <1>3 DEF NumberInv, Busy
<1>8. appended' = Append(appended, e) /\ events' = Trimmed(Append(events, e))
  BY DEF EmitAppend
<1> HIDE DEF e
<1>9. Range(appended') = Range(appended) \cup {e} /\ IsInjective(appended')
  BY <1>2, <1>7, <1>8, AppendFacts DEF NumberInv
<1>10. Range(events') \subseteq Range(events) \cup {e}
  <2>1. /\ Append(events, e) \in Seq(Nat) /\ Len(Append(events, e)) = Len(events) + 1
        /\ Range(Append(events, e)) = Range(events) \cup {e}
    BY <1>2, AppendFacts
  <2>2. Len(Append(events, e)) <= MaxSize + 1
    BY <2>1, <1>2, SizeAssumption, SMT DEF LogInv
  <2> QED BY <2>1, <2>2, <1>8, TrimmedSet
<1>11. NumberInv'
  <2>1. \A x \in Range(appended') : x <= seq'
    BY <1>3, <1>7, <1>9 DEF NumberInv
  <2>2. \A n \in Emitters : Busy(n)' => Busy(n) /\ em'[n].evt = em[n].evt
    BY <1>3, <1>4, <1>5, <1>6 DEF Busy, e
  <2>3. \A n \in Emitters : Busy(n)' => em'[n].evt <= seq'
    BY <1>3, <2>2 DEF NumberInv
  <2>4. \A n, k \in Emitters : Busy(n)' /\ Busy(k)' /\ em'[n].evt = em'[k].evt => n = k
    BY <2>2 DEF NumberInv
  <2>5. ASSUME NEW n \in Emitters, em'[n].pc = "append"
        PROVE  em'[n].evt \notin Range(appended')
    <3>1. n # m /\ em'[n] = em[n]
      BY <1>4, <1>5, <1>6, <2>5
    <3>2. em[n].evt # e
      BY <3>1, <2>5, <1>3 DEF NumberInv, Busy, e
    <3> QED BY <3>1, <3>2, <2>5, <1>9 DEF NumberInv
  <2>6. \A n \in Emitters : em'[n].pc = "send" => em'[n].evt \in Range(appended')
    BY <1>4, <1>5, <1>6, <1>9 DEF NumberInv
  <2> QED BY <1>9, <2>1, <2>3, <2>4, <2>5, <2>6 DEF NumberInv
<1>12. \A c, x : Sending(c, x)' => Sending(c, x) \/ (x = e /\ c \in subs)
  BY <1>4, <1>5, <1>6 DEF Sending
<1>13. \A c, x : Sending(c, x) => Sending(c, x)'
  BY <1>3, <1>4 DEF Sending
<1>14. \A c \in subs : \A x : x = e => Sending(c, x)'
  BY <1>6 DEF Sending
<1>15. ChanInv'
  <2> SUFFICES ASSUME NEW c \in Chans
               PROVE  /\ Range(chan[c].sent) \subseteq Range(appended')
                      /\ c \in subs => chan[c].st = "open"
                      /\ chan[c].st = "none" =>
                            \A n \in Emitters : em'[n].pc = "send" => c \notin em'[n].todo
    BY <1>3 DEF ChanInv
  <2>1. Range(chan[c].sent) \subseteq Range(appended')
    BY <1>9 DEF ChanInv
  <2>2. ASSUME chan[c].st = "none", NEW n \in Emitters, em'[n].pc = "send"
        PROVE  c \notin em'[n].todo
    <3>1. c \notin subs
      BY <2>2 DEF ChanInv
    <3> QED BY <3>1, <2>2, <1>4, <1>5, <1>6 DEF ChanInv
  <2> QED BY <2>1, <2>2 DEF ChanInv
<1>16. NoDuplicate'
  <2> SUFFICES ASSUME NEW c \in Chans, NEW x \in Range(chan[c].sent)
               PROVE  ~Sending(c, x)'
    BY <1>3 DEF NoDuplicate
  <2>1. x # e
    BY <1>7 DEF ChanInv
  <2> QED BY <2>1, <1>12, SMT DEF NoDuplicate
<1>17. NothingMissed'
  <2> SUFFICES ASSUME NEW c \in subs, NEW x \in Range(events'), x > chan[c].since,
                      Len(chan[c].sent) < BufSize
               PROVE  x \in Range(chan[c].sent) \/ Sending(c, x)'
    BY <1>3 DEF NothingMissed
  <2>1. CASE x = e
    BY <2>1, <1>14
  <2>2. CASE x \in Range(events)
    BY <2>2, <1>13 DEF NothingMissed
  <2> QED BY <2>1, <2>2, <1>10
<1>18. StreamTypes'
  BY <1>3 DEF StreamTypes
<1> QED BY <1>11, <1>15, <1>16, <1>17, <1>18

\* One turn of the fan-out: the channel gets the event and leaves the list of
\* this call, unless it is full or closed.
LEMMA EmitSendStream ==
    ASSUME StreamInv, LogInv', NEW m \in Emitters, EmitSend(m)
    PROVE  StreamInv'
<1> USE DEF StreamInv
<1> DEFINE e == em[m].evt
<1>1. LogTypes
  BY DEF LogInv
<1>2. em \in [Emitters -> Emit] /\ e \in Nat /\ em[m] \in Emit /\ em[m].todo \subseteq Chans
  BY <1>1, StreamFields DEF LogTypes
<1>3. UNCHANGED <<seq, events, subs, client, appended>> /\ em[m].pc = "send"
  BY DEF EmitSend
<1>4. PICK c \in em[m].todo :
         /\ chan' = IF Full(c) \/ chan[c].st = "closed" THEN chan
                    ELSE [chan EXCEPT ![c].sent = Append(@, em[m].evt)]
         /\ em' = [em EXCEPT ![m] = IF em[m].todo = {c} THEN EmitIdle
                                    ELSE [em[m] EXCEPT !.todo = em[m].todo \ {c}]]
  BY DEF EmitSend
<1>5. \A n \in Emitters \ {m} : em'[n] = em[n]
  BY <1>2, <1>4
<1>6. em[m].todo = {c} => em'[m].pc = "idle"
  BY <1>2, <1>4 DEF EmitIdle
<1>7. em[m].todo # {c} => em'[m].pc = "send" /\ em'[m].evt = e /\ em'[m].todo = em[m].todo \ {c}
  BY <1>2, <1>3, <1>4 DEF Emit
<1>8. c \in Chans /\ chan \in [Chans -> Chan] /\ chan[c] \in Chan /\ chan[c].sent \in Seq(Nat)
  BY <1>1, <1>2, <1>4, StreamFields DEF StreamTypes
<1>9. e \in Range(appended) /\ e \notin Range(chan[c].sent)
  <2>1. Sending(c, e)
    BY <1>3, <1>4 DEF Sending
  <2> QED BY <2>1, <1>3, <1>8 DEF NoDuplicate, NumberInv
<1> HIDE DEF e
<1>10. NumberInv'
  <2>1. \A n \in Emitters : Busy(n)' => Busy(n) /\ em'[n].evt = em[n].evt /\ em'[n].pc = em[n].pc
    BY <1>3, <1>5, <1>6, <1>7 DEF Busy, e
  <2>2. \A n \in Emitters : em'[n].pc \in {"append", "send"} => Busy(n)'
    BY DEF Busy
  <2>3. /\ \A n \in Emitters : Busy(n)' => em'[n].evt <= seq
        /\ \A n \in Emitters : em'[n].pc = "append" => em'[n].evt \notin Range(appended)
        /\ \A n \in Emitters : em'[n].pc = "send" => em'[n].evt \in Range(appended)
    BY <2>1, <2>2 DEF NumberInv
  <2>4. \A n, k \in Emitters : Busy(n)' /\ Busy(k)' /\ em'[n].evt = em'[k].evt => n = k
    BY <2>1 DEF NumberInv
  <2> QED BY <1>3, <2>3, <2>4 DEF NumberInv
<1>11. \A b, x : Sending(b, x)' => Sending(b, x) /\ (b # c \/ x # e)
  <2>1. ASSUME NEW b, NEW x, NEW n \in Emitters, em'[n].pc = "send", em'[n].evt = x, b \in em'[n].todo
        PROVE  Sending(b, x) /\ (b # c \/ x # e)
    <3>1. CASE n = m
      BY <3>1, <2>1, <1>3, <1>6, <1>7 DEF Sending, e
    <3>2. CASE n # m
      <4>1. em[n].pc = "send" /\ em[n].evt = x /\ b \in em[n].todo
        BY <3>2, <2>1, <1>5
      <4>2. x # e
        BY <4>1, <3>2, <1>3 DEF NumberInv, Busy, e
      <4> QED BY <4>1, <4>2 DEF Sending
    <3> QED BY <3>1, <3>2
  <2> QED BY <2>1 DEF Sending
<1>12. \A b, x : Sending(b, x) /\ (b # c \/ x # e) => Sending(b, x)'
  <2>1. ASSUME NEW b, NEW x, NEW n \in Emitters, em[n].pc = "send", em[n].evt = x, b \in em[n].todo,
               b # c \/ x # e
        PROVE  em'[n].pc = "send" /\ em'[n].evt = x /\ b \in em'[n].todo
    <3>1. CASE n = m
      <4>1. b # c /\ em[m].todo # {c}
        BY <3>1, <2>1 DEF e
      <4> QED BY <3>1, <4>1, <2>1, <1>7 DEF e
    <3>2. CASE n # m
      BY <3>2, <2>1, <1>5
    <3> QED BY <3>1, <3>2
  <2> QED BY <2>1 DEF Sending
<1>13. \A b \in Chans, n \in Emitters :
          (em[n].pc = "send" => b \notin em[n].todo) => (em'[n].pc = "send" => b \notin em'[n].todo)
  BY <1>3, <1>5, <1>6, <1>7
<1>14. CASE Full(c) \/ chan[c].st = "closed"
  <2>1. chan' = chan
    BY <1>4, <1>14
  <2>2. StreamTypes' /\ ChanInv'
    BY <2>1, <1>3, <1>13 DEF StreamTypes, ChanInv
  <2>3. NoDuplicate'
    BY <2>1, <1>11 DEF NoDuplicate
  <2>4. NothingMissed'
    <3> SUFFICES ASSUME NEW b \in subs, NEW x \in Range(events), x > chan[b].since,
                        Len(chan[b].sent) < BufSize
                 PROVE  x \in Range(chan[b].sent) \/ Sending(b, x)'
      BY <2>1, <1>3 DEF NothingMissed
    <3>1. b # c
      <4>1. chan[c].taken \in Nat /\ Len(chan[c].sent) \in Nat
        BY <1>1, <1>8, StreamFields, SMT
      <4>2. Full(c) => Len(chan[c].sent) >= BufSize
        BY <4>1, SizeAssumption, SMT DEF Full
      <4>3. c \in subs => chan[c].st = "open"
        BY <1>8 DEF ChanInv
      <4> QED BY <4>1, <4>2, <4>3, <1>14, SizeAssumption, SMT
    <3> QED BY <3>1, <1>12 DEF NothingMissed
  <2> QED BY <2>2, <2>3, <2>4, <1>10
<1>15. CASE ~(Full(c) \/ chan[c].st = "closed")
  <2>1. chan' = [chan EXCEPT ![c] = [chan[c] EXCEPT !.sent = Append(chan[c].sent, e)]]
    BY <1>4, <1>15 DEF e
  <2>2. /\ chan'[c] \in Chan /\ chan'[c].sent = Append(chan[c].sent, e)
        /\ chan'[c].st = chan[c].st /\ chan'[c].since = chan[c].since
    <3>1. Append(chan[c].sent, e) \in Seq(Nat)
      BY <1>2, <1>8, SMT
    <3> QED BY <2>1, <3>1, <1>8 DEF Chan
  <2>3. \A b \in Chans \ {c} : chan'[b] = chan[b]
    BY <2>1, <1>8
  <2>4. /\ Range(chan'[c].sent) = Range(chan[c].sent) \cup {e}
        /\ IsInjective(chan'[c].sent)
        /\ Len(chan'[c].sent) = Len(chan[c].sent) + 1
    BY <2>2, <1>2, <1>8, <1>9, AppendFacts DEF NoDuplicate
  <2>5. StreamTypes'
    <3>1. chan' \in [Chans -> Chan]
      BY <2>1, <2>2, <1>8
    <3> QED BY <3>1, <1>3 DEF StreamTypes
  <2>6. ChanInv'
    <3> SUFFICES ASSUME NEW b \in Chans
                 PROVE  /\ Range(chan'[b].sent) \subseteq Range(appended)
                        /\ b \in subs => chan'[b].st = "open"
                        /\ chan'[b].st = "none" =>
                              \A n \in Emitters : em'[n].pc = "send" => b \notin em'[n].todo
      BY <1>3 DEF ChanInv
    <3>1. Range(chan'[b].sent) \subseteq Range(appended)
      BY <2>3, <2>4, <1>9 DEF ChanInv
    <3>2. chan'[b].st = chan[b].st
      BY <2>2, <2>3
    <3> QED BY <3>1, <3>2, <1>13 DEF ChanInv
  <2>7. NoDuplicate'
    <3> SUFFICES ASSUME NEW b \in Chans
                 PROVE  /\ IsInjective(chan'[b].sent)
                        /\ \A x \in Range(chan'[b].sent) : ~Sending(b, x)'
      BY DEF NoDuplicate
    <3>1. CASE b = c
      BY <3>1, <2>4, <1>8, <1>11 DEF NoDuplicate
    <3>2. CASE b # c
      BY <3>2, <2>3, <1>11 DEF NoDuplicate
    <3> QED BY <3>1, <3>2
  <2>8. NothingMissed'
    <3> SUFFICES ASSUME NEW b \in subs, NEW x \in Range(events), x > chan'[b].since,
                        Len(chan'[b].sent) < BufSize
                 PROVE  x \in Range(chan'[b].sent) \/ Sending(b, x)'
      BY <1>3 DEF NothingMissed
    <3>0. b \in Chans
      BY <1>1 DEF LogTypes
    <3>1. CASE b = c
      <4>1. Len(chan[c].sent) < BufSize
        BY <3>1, <2>4, <1>8, SizeAssumption, SMT
      <4>2. x \in Range(chan[c].sent) \/ Sending(c, x)
        BY <4>1, <3>1, <2>2 DEF NothingMissed
      <4> QED BY <4>2, <3>1, <2>4, <1>12
    <3>2. CASE b # c
      BY <3>0, <3>2, <2>3, <1>12 DEF NothingMissed
    <3> QED BY <3>1, <3>2
  <2> QED BY <2>5, <2>6, <2>7, <2>8, <1>10
<1> QED BY <1>14, <1>15

\* The steps of the streams and Close log nothing and emit nothing.
LEMMA QuietNumbers ==
    ASSUME NumberInv, UNCHANGED <<seq, em, appended>>
    PROVE  NumberInv' /\ \A c, e : Sending(c, e)' <=> Sending(c, e)
BY DEF NumberInv, Busy, Sending

\* A new channel holds the replay; the calls of Emit that logged before it
\* was made do not have it on their lists.
LEMMA SubscribeStream ==
    ASSUME StreamInv, LogInv', NEW s \in Clients, Subscribe(s)
    PROVE  StreamInv'
<1> USE DEF StreamInv
<1> DEFINE last == client[s].last
<1>1. LogTypes
  BY DEF LogInv
<1>2. UNCHANGED <<seq, events, em, appended>>
  BY DEF Subscribe
<1>3. PICK c \in Chans :
         /\ chan[c].st = "none"
         /\ chan' = [chan EXCEPT ![c] = [st |-> "open", since |-> last,
                                         sent |-> Replay(last), taken |-> 0]]
         /\ subs' = subs \cup {c}
         /\ client' = [client EXCEPT ![s].ch = c]
  BY DEF Subscribe
<1>4. last \in Nat /\ chan \in [Chans -> Chan] /\ subs \subseteq Chans
  BY <1>1, StreamFields DEF StreamTypes, LogTypes
<1> HIDE DEF last
<1>5. events \in Seq(Nat) /\ appended \in Seq(Nat) /\ EndsWith(events, appended)
  BY <1>1 DEF LogTypes, LogInv
<1>6. Range(events) \subseteq Range(appended) /\ IsInjective(events)
  BY <1>5, RingOfLog DEF NumberInv
<1>7. /\ Replay(last) \in Seq(Nat)
      /\ IsInjective(Replay(last))
      /\ Range(Replay(last)) \subseteq Range(events)
      /\ Len(Replay(last)) < BufSize =>
            \A e \in Range(events) : e > last => e \in Range(Replay(last))
  BY <1>4, <1>5, <1>6, ReplayFacts
<1>8. /\ chan'[c].st = "open" /\ chan'[c].since = last /\ chan'[c].sent = Replay(last)
      /\ \A b \in Chans \ {c} : chan'[b] = chan[b]
  BY <1>3, <1>4
<1>9. StreamTypes'
  <2>1. [st |-> "open", since |-> last, sent |-> Replay(last), taken |-> 0] \in Chan
    BY <1>4, <1>7 DEF Chan
  <2>2. chan' \in [Chans -> Chan]
    BY <2>1, <1>3, <1>4
  <2>3. client' \in [Clients -> [ch : Chans \cup {NoChan}, last : Nat]]
    BY <1>3 DEF StreamTypes
  <2> QED BY <2>2, <2>3 DEF StreamTypes
<1>10. NumberInv' /\ \A b, e : Sending(b, e)' <=> Sending(b, e)
  BY <1>2, QuietNumbers
<1>11. \A e : ~Sending(c, e)
  BY <1>3 DEF ChanInv, Sending
<1>12. ChanInv'
  <2> SUFFICES ASSUME NEW b \in Chans
               PROVE  /\ Range(chan'[b].sent) \subseteq Range(appended)
                      /\ b \in subs' => chan'[b].st = "open"
                      /\ chan'[b].st = "none" =>
                            \A n \in Emitters : em[n].pc = "send" => b \notin em[n].todo
    BY <1>2 DEF ChanInv
  <2>1. CASE b = c
    BY <2>1, <1>6, <1>7, <1>8
  <2>2. CASE b # c
    BY <2>2, <1>3, <1>8 DEF ChanInv
  <2> QED BY <2>1, <2>2
<1>13. NoDuplicate'
  <2> SUFFICES ASSUME NEW b \in Chans
               PROVE  /\ IsInjective(chan'[b].sent)
                      /\ \A e \in Range(chan'[b].sent) : ~Sending(b, e)
    BY <1>10 DEF NoDuplicate
  <2>1. CASE b = c
    BY <2>1, <1>7, <1>8, <1>11
  <2>2. CASE b # c
    BY <2>2, <1>8 DEF NoDuplicate
  <2> QED BY <2>1, <2>2
<1>14. NothingMissed'
  <2> SUFFICES ASSUME NEW b \in subs', NEW e \in Range(events), e > chan'[b].since,
                      Len(chan'[b].sent) < BufSize
               PROVE  e \in Range(chan'[b].sent) \/ Sending(b, e)
    BY <1>2, <1>10 DEF NothingMissed
  <2>1. CASE b = c
    BY <2>1, <1>7, <1>8
  <2>2. CASE b # c
    <3>1. b \in subs /\ chan'[b] = chan[b]
      BY <2>2, <1>3, <1>4, <1>8
    <3> QED BY <3>1 DEF NothingMissed
  <2> QED BY <2>1, <2>2
<1> QED BY <1>9, <1>10, <1>12, <1>13, <1>14

\* Taking from a channel, closing channels and leaving the list take nothing
\* out of what was sent.
LEMMA QuietStream ==
    ASSUME StreamInv, LogInv', StreamTypes', UNCHANGED <<seq, events, em, appended>>,
           subs' \subseteq subs,
           \A c \in Chans :
               /\ chan'[c].sent = chan[c].sent /\ chan'[c].since = chan[c].since
               /\ chan'[c].st = "none" => chan[c].st = "none"
               /\ c \in subs' => chan'[c].st = chan[c].st
    PROVE  StreamInv'
<1> USE DEF StreamInv
<1>1. NumberInv' /\ \A b, e : Sending(b, e)' <=> Sending(b, e)
  BY QuietNumbers
<1>2. ChanInv'
  <2> SUFFICES ASSUME NEW c \in Chans
               PROVE  /\ Range(chan'[c].sent) \subseteq Range(appended)
                      /\ c \in subs' => chan'[c].st = "open"
                      /\ chan'[c].st = "none" =>
                            \A n \in Emitters : em[n].pc = "send" => c \notin em[n].todo
    BY DEF ChanInv
  <2> QED BY DEF ChanInv
<1>3. NoDuplicate'
  <2> SUFFICES ASSUME NEW c \in Chans
               PROVE  /\ IsInjective(chan'[c].sent)
                      /\ \A e \in Range(chan'[c].sent) : ~Sending(c, e)
    BY <1>1 DEF NoDuplicate
  <2>1. chan'[c].sent = chan[c].sent
    OBVIOUS
  <2> QED BY <2>1 DEF NoDuplicate
<1>4. subs' \subseteq Chans
  BY DEF LogInv, LogTypes
<1>5. NothingMissed'
  <2> SUFFICES ASSUME NEW c \in subs', NEW e \in Range(events), e > chan'[c].since,
                      Len(chan'[c].sent) < BufSize
               PROVE  e \in Range(chan'[c].sent) \/ Sending(c, e)
    BY <1>1 DEF NothingMissed
  <2>1. chan'[c].sent = chan[c].sent /\ chan'[c].since = chan[c].since /\ c \in subs
    BY <1>4
  <2> QED BY <2>1 DEF NothingMissed
<1> QED BY <1>1, <1>2, <1>3, <1>5

\* The handler takes an event out of its channel.
LEMMA ReceiveStream ==
    ASSUME StreamInv, LogInv', NEW s \in Clients, Receive(s)
    PROVE  StreamInv'
<1> USE DEF StreamInv
<1> DEFINE c == client[s].ch
           e == chan[c].sent[chan[c].taken + 1]
<1>1. c \in Chans
  <2>1. client[s].ch \in Chans \cup {NoChan}
    BY StreamFields DEF LogInv
  <2> QED BY <2>1 DEF Receive
<1>2. chan \in [Chans -> Chan] /\ chan[c] \in Chan /\ chan[c].sent \in Seq(Nat) /\ chan[c].taken \in Nat
  BY <1>1, StreamFields DEF LogInv, StreamTypes
<1>3. /\ chan[c].taken < Len(chan[c].sent)
      /\ chan' = [chan EXCEPT ![c] = [chan[c] EXCEPT !.taken = chan[c].taken + 1]]
      /\ client' = [client EXCEPT ![s].last = e]
      /\ UNCHANGED <<seq, events, subs, em, appended>>
  BY DEF Receive
<1> HIDE DEF c
<1>4. e \in Nat
  <2>1. chan[c].taken + 1 \in 1..Len(chan[c].sent)
    BY <1>2, <1>3, SMT
  <2> QED BY <2>1, <1>2, SMTT(20)
<1> HIDE DEF e
<1>5. /\ chan'[c] \in Chan /\ chan'[c].sent = chan[c].sent
      /\ chan'[c].since = chan[c].since /\ chan'[c].st = chan[c].st
  <2>1. chan[c].taken + 1 \in Nat
    BY <1>2, SMT
  <2>2. chan'[c] = [chan[c] EXCEPT !.taken = chan[c].taken + 1]
    BY <1>1, <1>2, <1>3
  <2> QED BY <2>1, <2>2, <1>2 DEF Chan
<1>6. \A b \in Chans \ {c} : chan'[b] = chan[b]
  BY <1>2, <1>3
<1>7. StreamTypes'
  <2>1. chan' \in [Chans -> Chan]
    BY <1>2, <1>3, <1>5
  <2>2. client' \in [Clients -> [ch : Chans \cup {NoChan}, last : Nat]]
    BY <1>3, <1>4 DEF StreamTypes
  <2> QED BY <2>1, <2>2 DEF StreamTypes
<1> QED BY <1>3, <1>5, <1>6, <1>7, QuietStream

\* The stream ends, from either side.
LEMMA LeaveStream ==
    ASSUME StreamInv, LogInv', NEW s \in Clients, Disconnect(s) \/ StreamEnds(s)
    PROVE  StreamInv'
<1> USE DEF StreamInv
<1> DEFINE c == client[s].ch
<1>1. c \in Chans
  <2>1. client[s].ch \in Chans \cup {NoChan}
    BY StreamFields DEF LogInv
  <2> QED BY <2>1 DEF Disconnect, StreamEnds
<1>2. chan \in [Chans -> Chan] /\ chan[c] \in Chan
  BY <1>1, StreamFields DEF LogInv, StreamTypes
<1>3. /\ Unsubscribe(c)
      /\ client' = [client EXCEPT ![s].ch = NoChan]
      /\ UNCHANGED <<seq, events, em, appended>>
  BY DEF Disconnect, StreamEnds
<1> HIDE DEF c
<1>4. client' \in [Clients -> [ch : Chans \cup {NoChan}, last : Nat]]
  BY <1>3 DEF StreamTypes
<1>5. CASE c \in subs
  <2>1. subs' = subs \ {c} /\ chan' = [chan EXCEPT ![c] = [chan[c] EXCEPT !.st = "closed"]]
    BY <1>3, <1>5 DEF Unsubscribe
  <2>2. /\ chan'[c] \in Chan /\ chan'[c].sent = chan[c].sent
        /\ chan'[c].since = chan[c].since /\ chan'[c].st = "closed"
    BY <2>1, <1>1, <1>2 DEF Chan
  <2>3. \A b \in Chans \ {c} : chan'[b] = chan[b]
    BY <2>1, <1>2
  <2>4. chan' \in [Chans -> Chan]
    BY <2>1, <2>2, <1>2
  <2>5. StreamTypes'
    BY <2>4, <1>4 DEF StreamTypes
  <2> QED BY <2>1, <2>2, <2>3, <2>5, <1>3, QuietStream
<1>6. CASE c \notin subs
  <2>1. subs' = subs /\ chan' = chan
    BY <1>3, <1>6 DEF Unsubscribe
  <2>2. StreamTypes'
    BY <2>1, <1>4 DEF StreamTypes
  <2> QED BY <2>1, <2>2, <1>3, QuietStream
<1> QED BY <1>5, <1>6

\* Close closes the channels of all subscribers.
LEMMA CloseStream ==
    ASSUME StreamInv, LogInv', Close
    PROVE  StreamInv'
<1> USE DEF StreamInv
<1>1. /\ chan' = [c \in Chans |-> IF c \in subs THEN [chan[c] EXCEPT !.st = "closed"] ELSE chan[c]]
      /\ subs' = {} /\ UNCHANGED <<seq, events, em, client, appended>>
  BY DEF Close
<1>2. ASSUME NEW c \in Chans
      PROVE  /\ chan'[c] \in Chan /\ chan'[c].sent = chan[c].sent
             /\ chan'[c].since = chan[c].since
             /\ chan'[c].st = "none" => chan[c].st = "none"
  <2>1. chan[c] \in Chan
    BY DEF StreamTypes
  <2>2. [chan[c] EXCEPT !.st = "closed"] \in Chan
    BY <2>1 DEF Chan
  <2> QED BY <2>1, <2>2, <1>1 DEF Chan
<1>3. StreamTypes'
  BY <1>1, <1>2 DEF StreamTypes
<1> QED BY <1>1, <1>2, <1>3, QuietStream

LEMMA StreamNextInv == StreamInv /\ [Next]_vars => StreamInv'
<1> SUFFICES ASSUME StreamInv, [Next]_vars
             PROVE  StreamInv'
  OBVIOUS
<1>1. LogInv'
  BY LogNextInv DEF StreamInv
<1>2. ASSUME NEW m \in Emitters, EmitStep(m)
      PROVE  StreamInv'
  BY <1>1, <1>2, EmitNumberStream, EmitAppendStream, EmitSendStream DEF EmitStep
<1>3. ASSUME NEW s \in Clients, StreamStep(s)
      PROVE  StreamInv'
  BY <1>1, <1>3, SubscribeStream, ReceiveStream, LeaveStream DEF StreamStep
<1>4. CASE Close
  BY <1>1, <1>4, CloseStream
<1>5. CASE UNCHANGED vars
  <2>1. StreamTypes' /\ UNCHANGED <<seq, events, em, appended, subs, chan>>
    BY <1>5 DEF vars, StreamTypes, StreamInv
  <2> QED BY <1>1, <2>1, QuietStream
<1> QED BY <1>2, <1>3, <1>4, <1>5 DEF Next

\* The numbers, the channels and what was sent are consistent in every state
\* (eventlog.go, Emit, SubscribeSince, Unsubscribe and Close).
THEOREM StreamInvariant == Spec => []StreamInv
BY StreamInitInv, StreamNextInv, PTL DEF Spec

\* Though the fan-out of Emit runs outside the lock and may overtake or follow
\* a replay, no subscription is sent an event twice (eventlog.go, Emit and
\* SubscribeSince).
THEOREM NothingSentTwice == Spec => []NoDuplicate
<1>1. StreamInv => NoDuplicate
  BY DEF StreamInv
<1> QED BY <1>1, StreamInvariant, PTL

\* "no events are missed between replay and subscription": while its channel
\* was never full, a subscriber was sent or is being sent every event of the
\* ring after the number it asked for (eventlog.go, SubscribeSince and Emit).
THEOREM NothingIsMissed == Spec => []NothingMissed
<1>1. StreamInv => NothingMissed
  BY DEF StreamInv
<1> QED BY <1>1, StreamInvariant, PTL
=============================================================================
