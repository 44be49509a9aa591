--------------------------- MODULE ToolLoopProofs ---------------------------
(***************************************************************************)
(* Proofs about the agent loop with tools, for any number of runs,         *)
(* iterations, tool calls and retries: what the LLM is shown, what a run   *)
(* reports, how much a session stores and what a failed run leaves behind. *)
(***************************************************************************)
EXTENDS ToolLoop, TLAPS

\* A step is first-order unless it names SMT, for arithmetic and sequences.
USE Zenon

Messages == [role : Roles, run : Runs \cup {None}]
Memories == Runs \cup {None, Empty}
PCs      == {"new", "loadSession", "loadSummary", "llm", "tool", "summarize",
             "saveMemory", "saveSession", "report", "done", "failed"}

Types ==
    /\ pc \in [Runs -> PCs]
    /\ messages \in Seq(Messages)
    /\ longTerm \in Memories
    /\ store \in [memory : Memories, session : Seq(Messages)]
    /\ llmCalls \in Nat
    /\ from \in [Runs -> Nat] /\ own \in [Runs -> Nat] /\ usage \in [Runs -> Int]
    /\ iter \in [Runs -> 0..MaxIter]
    /\ tries \in [Runs -> 0..(Retries - 1)]
    /\ tools \in [Runs -> 0..MaxTools]
    /\ keep \in [Runs -> Seq(Messages)] /\ \A u \in Runs : Len(keep[u]) <= 4
    /\ shared \in [Runs -> BOOLEAN] /\ split \in BOOLEAN

\* Two runs that are under way have both noted the overlap.
OverlapInv == \A u, v \in Active : u # v => shared[u]

\* The shared counter has grown since the run's snapshot by the run's own calls,
\* and by more only if another run has overlapped it.
UsageInv ==
    /\ UsageCovers
    /\ \A u \in Runs :
         /\ pc[u] \in {"new", "loadSession", "loadSummary"} => own[u] = 0
         /\ pc[u] \in {"llm", "tool", "summarize", "saveMemory", "saveSession", "report"} =>
                llmCalls - from[u] >= own[u] /\ (Alone(u) => llmCalls - from[u] = own[u])

AllAlone == \A u \in Runs : Alone(u)

\* What is about to be saved is short enough.
SessionInv ==
    AllAlone =>
        /\ Len(store.session) <= Threshold
        /\ \A u \in Runs : pc[u] \in {"saveMemory", "saveSession"} => Len(messages) <= Threshold

Belongs(s, i) == s[i - 1] \in {Message("calls", s[i].run), Message("tool", s[i].run)}

\* A tool result that is not the first message follows its request.
Paired(s) == \A i \in 2..Len(s) : s[i].role = "tool" => Belongs(s, i)

\* The conversation, the stored one and the one a summary keeps are paired, and
\* while tools are executed the last message belongs to the request.
PairInv ==
    AllAlone /\ ~split =>
        /\ Paired(messages) /\ ~Orphaned(messages)
        /\ Paired(store.session) /\ ~Orphaned(store.session)
        /\ \A u \in Runs :
             /\ pc[u] = "summarize" => Paired(keep[u])
             /\ pc[u] = "tool" => /\ messages # <<>>
                                  /\ messages[Len(messages)] \in {Message("calls", u), Message("tool", u)}

\* The run's prompt is there from Start to the last tool.
PromptInv ==
    \A u \in Runs :
        pc[u] \in {"llm", "tool"} /\ Alone(u) /\ u \notin squeezed =>
            \E i \in 1..Len(messages) : messages[i] = Message("user", u)

\* A message of the context is the run's own or of a run in the stored session.
ForgetInv ==
    \A u \in Runs :
        pc[u] \in {"loadSummary", "llm", "tool"} /\ Alone(u) /\ u \notin missed /\ store.session # <<>> =>
            \A i \in 1..Len(messages) :
                messages[i].run = u \/ \E j \in 1..Len(store.session) : store.session[j].run = messages[i].run

ToolLoopInv ==
    Types /\ OverlapInv /\ UsageInv /\ SessionInv /\ PairInv /\ PromptInv /\ ForgetInv

-----------------------------------------------------------------------------
(* Sequences of messages *)

\* t is what is left of s when the oldest messages are gone.
Suffix(t, s) ==
    /\ t \in Seq(Messages) /\ Len(t) <= Len(s)
    /\ \A i \in 1..Len(t) : t[i] = s[i + (Len(s) - Len(t))]

\* The last n messages.
LEMMA LastSuffix ==
  ASSUME NEW s \in Seq(Messages), NEW n \in Nat \ {0}, n <= Len(s)
  PROVE  Suffix(Last(s, n), s) /\ Len(Last(s, n)) = n /\ Len(Last(s, n)) <= n
  <1>1. Len(s) \in Nat /\ Len(s) - n + 1 \in 1..Len(s)
    BY SMT
  <1>2. /\ Last(s, n) \in Seq(Messages) /\ Len(Last(s, n)) = n
        /\ \A i \in 1..n : Last(s, n)[i] = s[i + (Len(s) - n)]
    BY <1>1, SMT DEF Last
  <1> QED
    BY <1>2, SMT DEF Suffix

LEMMA SuffixRefl == ASSUME NEW s \in Seq(Messages) PROVE Suffix(s, s)
  <1>1. Len(s) \in Nat /\ \A i \in 1..Len(s) : i + (Len(s) - Len(s)) = i
    BY SMT
  <1> QED
    BY <1>1, SMT DEF Suffix

LEMMA SuffixTrans ==
  ASSUME NEW s \in Seq(Messages), NEW t, NEW r, Suffix(t, s), Suffix(r, t)
  PROVE  Suffix(r, s)
  <1>1. /\ t \in Seq(Messages) /\ r \in Seq(Messages)
        /\ Len(s) \in Nat /\ Len(t) \in Nat /\ Len(r) \in Nat
        /\ Len(r) <= Len(t) /\ Len(t) <= Len(s)
    BY SMT DEF Suffix
  <1>2. ASSUME NEW i \in 1..Len(r) PROVE r[i] = s[i + (Len(s) - Len(r))]
    <2>1. i + (Len(t) - Len(r)) \in 1..Len(t)
      BY <1>1, SMT
    <2>2. r[i] = t[i + (Len(t) - Len(r))]
      BY DEF Suffix
    <2>3. t[i + (Len(t) - Len(r))] = s[(i + (Len(t) - Len(r))) + (Len(s) - Len(t))]
      BY <2>1 DEF Suffix
    <2>4. (i + (Len(t) - Len(r))) + (Len(s) - Len(t)) = i + (Len(s) - Len(r))
      BY <1>1, SMT
    <2> QED
      BY <2>2, <2>3, <2>4
  <1> QED
    BY <1>1, <1>2, SMT DEF Suffix

\* force_compress leaves a suffix.
LEMMA CompressSuffix == ASSUME NEW s \in Seq(Messages) PROVE Suffix(ForceCompress(s), s)
  <1>1. Len(s) \in Nat
    BY SMT
  <1>2. CASE Len(s) > 4
    BY <1>1, <1>2, LastSuffix, SMT DEF ForceCompress
  <1>3. CASE ~(Len(s) > 4) /\ Len(s) > 2
    BY <1>1, <1>3, LastSuffix, SMT DEF ForceCompress
  <1>4. CASE ~(Len(s) > 2) /\ Len(s) > 1
    BY <1>1, <1>4, LastSuffix, SMT DEF ForceCompress
  <1>5. CASE ~(Len(s) > 1)
    BY <1>1, <1>5, SuffixRefl, SMT DEF ForceCompress
  <1> QED
    BY <1>1, <1>2, <1>3, <1>4, <1>5

LEMMA CompressionsSuffix ==
  ASSUME NEW s \in Seq(Messages), NEW t \in Compressions(s)
  PROVE  Suffix(t, s)
  <1> DEFINE a == ForceCompress(s)  b == ForceCompress(a)  c == ForceCompress(b)
  <1>1. Suffix(a, s) /\ a \in Seq(Messages)
    BY CompressSuffix DEF Suffix
  <1>2. Suffix(b, a) /\ b \in Seq(Messages)
    BY <1>1, CompressSuffix DEF Suffix
  <1>3. Suffix(c, b)
    BY <1>2, CompressSuffix
  <1>4. t \in {s, a, b, c}
    BY DEF Compressions
  <1> HIDE DEF a, b, c
  <1>5. Suffix(b, s) /\ Suffix(c, s)
    BY <1>1, <1>2, <1>3, SuffixTrans
  <1> QED
    BY <1>1, <1>4, <1>5, SuffixRefl

LEMMA AppendFacts ==
  ASSUME NEW s \in Seq(Messages), NEW m \in Messages
  PROVE  /\ Append(s, m) \in Seq(Messages) /\ Len(Append(s, m)) = Len(s) + 1
         /\ Len(s) \in Nat /\ Append(s, m) # <<>>
         /\ \A i \in 1..Len(s) : Append(s, m)[i] = s[i]
         /\ Append(s, m)[Len(s) + 1] = m
  BY SMT

LEMMA MessageType ==
  ASSUME NEW role \in Roles, NEW u \in Runs
  PROVE  Message(role, u) \in Messages /\ Message(role, u).role = role /\ Message(role, u).run = u
  BY DEF Message, Messages

\* The messages of a suffix are messages of the whole.
LEMMA SuffixElements ==
  ASSUME NEW s \in Seq(Messages), NEW t, Suffix(t, s), NEW i \in 1..Len(t)
  PROVE  \E j \in 1..Len(s) : t[i] = s[j]
  <1>1. Len(s) \in Nat /\ Len(t) \in Nat /\ Len(t) <= Len(s) /\ t[i] = s[i + (Len(s) - Len(t))]
    BY SMT DEF Suffix
  <1>2. i + (Len(s) - Len(t)) \in 1..Len(s)
    BY <1>1, SMT
  <1> QED
    BY <1>1, <1>2

\* A suffix of paired messages is paired, but for its first message.
LEMMA SuffixPaired ==
  ASSUME NEW s \in Seq(Messages), NEW t, Suffix(t, s), Paired(s)
  PROVE  Paired(t)
  <1>1. Len(s) \in Nat /\ Len(t) \in Nat /\ Len(t) <= Len(s)
    BY SMT DEF Suffix
  <1> SUFFICES ASSUME NEW i \in 2..Len(t), t[i].role = "tool" PROVE Belongs(t, i)
    BY DEF Paired
  <1> DEFINE k == i + (Len(s) - Len(t))
  <1>2. k \in 2..Len(s) /\ i - 1 \in 1..Len(t) /\ i \in 1..Len(t)
        /\ k - 1 = (i - 1) + (Len(s) - Len(t))
    BY <1>1, SMT
  <1>3. t[i] = s[k] /\ t[i - 1] = s[k - 1]
    BY <1>2 DEF Suffix
  <1> QED
    BY <1>2, <1>3 DEF Paired, Belongs

\* A message that is no tool result, or one that follows its request, may be
\* added.
LEMMA AppendPaired ==
  ASSUME NEW s \in Seq(Messages), Paired(s), ~Orphaned(s), NEW m \in Messages,
         m.role = "tool" => /\ s # <<>>
                            /\ s[Len(s)] \in {Message("calls", m.run), Message("tool", m.run)}
  PROVE  Paired(Append(s, m)) /\ ~Orphaned(Append(s, m))
  <1>1. Len(s) \in Nat /\ (s # <<>> => Len(s) >= 1 /\ Head(s) = s[1]) /\ (s = <<>> => Len(s) = 0)
    BY SMT
  <1>2. Paired(Append(s, m))
    <2> SUFFICES ASSUME NEW i \in 2..Len(Append(s, m)), Append(s, m)[i].role = "tool"
                 PROVE  Belongs(Append(s, m), i)
      BY DEF Paired
    <2>1. CASE i \in 2..Len(s)
      <3>1. i \in 1..Len(s) /\ i - 1 \in 1..Len(s)
        BY <1>1, <2>1, SMT
      <3>2. Append(s, m)[i] = s[i] /\ Append(s, m)[i - 1] = s[i - 1]
        BY <3>1, AppendFacts
      <3> QED
        BY <2>1, <3>2 DEF Paired, Belongs
    <2>2. CASE i = Len(s) + 1
      <3>1. i - 1 = Len(s) /\ i - 1 \in 1..Len(s)
        BY <1>1, <2>2, SMT
      <3>2. Append(s, m)[i] = m /\ Append(s, m)[i - 1] = s[Len(s)]
        BY <2>2, <3>1, AppendFacts, SMT
      <3> QED
        BY <3>1, <3>2 DEF Belongs
    <2> QED
      BY <1>1, <2>1, <2>2, AppendFacts, SMT
  <1>3. ~Orphaned(Append(s, m))
    <2>1. Head(Append(s, m)) = IF s = <<>> THEN m ELSE s[1]
      BY <1>1, AppendFacts, SMT
    <2> QED
      BY <1>1, <2>1 DEF Orphaned
  <1> QED
    BY <1>2, <1>3

-----------------------------------------------------------------------------
(* Types *)

LEMMA LoopEndsType ==
  ASSUME Types, NEW u \in Runs, LoopEnds(u)
  PROVE  /\ iter' \in [Runs -> 0..MaxIter] /\ tries' \in [Runs -> 0..(Retries - 1)]
         /\ tools' \in [Runs -> 0..MaxTools]
  BY ToolLoopAssumption, SMT DEF Types, LoopEnds

LEMMA RaisesType ==
  ASSUME Types, NEW u \in Runs, Raises(u)
  PROVE  /\ iter' \in [Runs -> 0..MaxIter] /\ tries' \in [Runs -> 0..(Retries - 1)]
         /\ tools' \in [Runs -> 0..MaxTools]
         /\ pc' \in [Runs -> PCs] /\ from' \in [Runs -> Nat] /\ own' \in [Runs -> Nat]
         /\ keep' \in [Runs -> Seq(Messages)] /\ \A v \in Runs : Len(keep'[v]) <= 4
  <1>1. LoopEnds(u)
    BY DEF Raises
  <1>2. pc' \in [Runs -> PCs] /\ from' \in [Runs -> Nat] /\ own' \in [Runs -> Nat]
    BY DEF Types, Raises, PCs
  <1>3. <<>> \in Seq(Messages) /\ Len(<<>>) <= 4
    BY SMT
  <1>4. /\ keep' = [keep EXCEPT ![u] = <<>>] /\ keep \in [Runs -> Seq(Messages)]
        /\ \A v \in Runs : Len(keep[v]) <= 4
    BY DEF Types, Raises
  <1>5. keep' \in [Runs -> Seq(Messages)] /\ \A v \in Runs : Len(keep'[v]) <= 4
    BY <1>3, <1>4
  <1> QED
    BY <1>1, <1>2, <1>5, LoopEndsType

\* Where the run goes after its last message, and what is kept of s.
LEMMA WrapCases ==
  ASSUME Types, NEW u \in Runs, NEW s \in Seq(Messages), Wrap(u, s)
  PROVE  \/ /\ pc' = [pc EXCEPT ![u] = "summarize"]
            /\ keep' = [keep EXCEPT ![u] = Last(s, 4)]
            /\ Suffix(Last(s, 4), s) /\ Len(Last(s, 4)) <= 4
         \/ /\ pc' = [pc EXCEPT ![u] = "saveMemory"] /\ keep' = keep
            /\ Len(s) <= Threshold
  <1>1. PICK summarise \in NeedsSummarization(s) :
          IF summarise /\ Len(s) > 4
          THEN pc' = [pc EXCEPT ![u] = "summarize"] /\ keep' = [keep EXCEPT ![u] = Last(s, 4)]
          ELSE pc' = [pc EXCEPT ![u] = "saveMemory"] /\ keep' = keep
    BY DEF Wrap
  <1>2. Len(s) \in Nat /\ Threshold \in Nat /\ Threshold >= 4
    BY ToolLoopAssumption, SMT
  <1>3. summarise \/ Len(s) <= Threshold
    <2>1. summarise = TRUE \/ summarise = (Len(s) > Threshold)
      BY Zenon DEF NeedsSummarization
    <2>2. CASE summarise = (Len(s) > Threshold)
      <3>1. CASE Len(s) > Threshold
        BY Zenon, <2>2, <3>1
      <3>2. CASE ~(Len(s) > Threshold)
        BY <1>2, <3>2, SMT
      <3> QED
        BY <3>1, <3>2
    <2>3. CASE summarise = TRUE
      BY Zenon, <2>3
    <2> QED
      BY <2>1, <2>2, <2>3
  <1>4. CASE summarise /\ Len(s) > 4
    <2>1. pc' = [pc EXCEPT ![u] = "summarize"] /\ keep' = [keep EXCEPT ![u] = Last(s, 4)]
      BY Zenon, <1>1, <1>4
    <2>2. Len(s) > 4
      BY Zenon, <1>4
    <2>3. 4 \in Nat \ {0} /\ 4 <= Len(s)
      BY <1>2, <2>2, SMT
    <2>4. Suffix(Last(s, 4), s) /\ Len(Last(s, 4)) <= 4
      BY Zenon, <2>3, LastSuffix
    <2> QED
      BY <2>1, <2>4
  <1>5. CASE ~(summarise /\ Len(s) > 4)
    BY <1>1, <1>2, <1>3, <1>5, SMT
  <1> QED
    BY <1>4, <1>5

LEMMA WrapType ==
  ASSUME Types, NEW u \in Runs, NEW s \in Seq(Messages), Wrap(u, s)
  PROVE  /\ pc' \in [Runs -> PCs]
         /\ keep' \in [Runs -> Seq(Messages)] /\ \A v \in Runs : Len(keep'[v]) <= 4
  <1>1. /\ pc \in [Runs -> PCs] /\ keep \in [Runs -> Seq(Messages)]
        /\ \A v \in Runs : Len(keep[v]) <= 4
    BY DEF Types
  <1>2. pc' \in [Runs -> PCs]
    BY <1>1, WrapCases DEF PCs
  <1>3. Suffix(Last(s, 4), s) => Last(s, 4) \in Seq(Messages)
    BY DEF Suffix
  <1>4. keep' \in [Runs -> Seq(Messages)] /\ \A v \in Runs : Len(keep'[v]) <= 4
    <2>1. CASE keep' = keep
      BY <1>1, <2>1
    <2>2. CASE keep' = [keep EXCEPT ![u] = Last(s, 4)] /\ Suffix(Last(s, 4), s) /\ Len(Last(s, 4)) <= 4
      <3>1. keep' \in [Runs -> Seq(Messages)]
        BY <1>1, <1>3, <2>2
      <3>2. \A v \in Runs : keep'[v] = IF v = u THEN Last(s, 4) ELSE keep[v]
        BY <1>1, <2>2
      <3>3. ASSUME NEW v \in Runs PROVE Len(keep'[v]) <= 4
        BY Zenon, <1>1, <2>2, <3>2
      <3> QED
        BY <3>1, <3>3
    <2> QED
      BY <2>1, <2>2, WrapCases
  <1> QED
    BY <1>2, <1>4

LEMMA CountedType ==
  ASSUME Types, NEW u \in Runs, Counted(u)
  PROVE  llmCalls' \in Nat /\ own' \in [Runs -> Nat]
  BY SMT DEF Types, Counted

LEMMA AddType ==
  ASSUME Types, NEW role \in Roles, NEW u \in Runs, AddMessage(role, u)
  PROVE  messages' \in Seq(Messages) /\ messages' = Append(messages, Message(role, u))
  BY MessageType, AppendFacts DEF Types, AddMessage

LEMMA RolesFacts == {"user", "assistant", "calls", "tool"} \subseteq Roles
  BY DEF Roles

\* What the tools may write.
LEMMA MemoryStoreType ==
  ASSUME Types, NEW u \in Runs
  PROVE  MemoryStore(u) \in [memory : Memories, session : Seq(Messages)] /\ MemoryStore(u).session = store.session
  BY DEF Types, MemoryStore, Memories

LEMMA LoadingTypes ==
  ASSUME Types, NEW u \in Runs, LoadMemory(u) \/ LoadSession(u) \/ Start(u)
  PROVE  Types'
  <1>1. CASE LoadMemory(u)
    <2>1. longTerm' \in Memories
      BY <1>1 DEF LoadMemory, Types
    <2>2. shared' \in [Runs -> BOOLEAN] /\ pc' \in [Runs -> PCs]
      BY <1>1 DEF LoadMemory, Types, PCs
    <2> QED
      BY <1>1, <2>1, <2>2 DEF LoadMemory, Types, progress
  <1>2. CASE LoadSession(u)
    <2>1. messages' \in Seq(Messages) /\ pc' \in [Runs -> PCs]
      BY <1>2 DEF LoadSession, Types, PCs
    <2> QED
      BY <1>2, <2>1 DEF LoadSession, Types, progress
  <1>3. CASE Start(u)
    <2>1. Append(messages, Message("user", u)) \in Seq(Messages)
      BY RolesFacts, MessageType, AppendFacts DEF Types
    <2>2. messages' \in Seq(Messages)
      BY <1>3, <2>1, CompressionsSuffix DEF Start, Suffix
    <2>3. from' \in [Runs -> Nat] /\ pc' \in [Runs -> PCs]
      BY <1>3 DEF Start, Snapshot, Types, PCs
    <2>4. iter' \in [Runs -> 0..MaxIter]
      BY <1>3, ToolLoopAssumption, SMT DEF Start, Types
    <2>5. split' \in BOOLEAN
      BY <1>3 DEF Start, Types, Orphaned
    <2> QED
      BY <1>3, <2>2, <2>3, <2>4, <2>5 DEF Start, Types
  <1> QED
    BY <1>1, <1>2, <1>3

LEMMA AnswerTypes ==
  ASSUME Types, NEW u \in Runs, FinalAnswer(u) \/ ToolCalls(u) \/ ExecuteTool(u)
  PROVE  Types'
  <1>1. CASE FinalAnswer(u)
    <2>1. messages' \in Seq(Messages) /\ llmCalls' \in Nat /\ own' \in [Runs -> Nat]
      BY <1>1, RolesFacts, AddType, CountedType DEF FinalAnswer
    <2>2. /\ pc' \in [Runs -> PCs]
          /\ keep' \in [Runs -> Seq(Messages)] /\ \A v \in Runs : Len(keep'[v]) <= 4
      BY <1>1, <2>1, WrapType DEF FinalAnswer
    <2>3. /\ iter' \in [Runs -> 0..MaxIter] /\ tries' \in [Runs -> 0..(Retries - 1)]
          /\ tools' \in [Runs -> 0..MaxTools]
      BY <1>1, LoopEndsType DEF FinalAnswer
    <2> QED
      BY <1>1, <2>1, <2>2, <2>3 DEF FinalAnswer, Types
  <1>2. CASE ToolCalls(u)
    <2>1. messages' \in Seq(Messages) /\ llmCalls' \in Nat /\ own' \in [Runs -> Nat]
      BY <1>2, RolesFacts, AddType, CountedType DEF ToolCalls
    <2>2. pc' \in [Runs -> PCs]
      BY <1>2 DEF ToolCalls, Types, PCs
    <2>3. tools' \in [Runs -> 0..MaxTools]
      BY <1>2, ToolLoopAssumption, SMT DEF ToolCalls, Types
    <2> QED
      BY <1>2, <2>1, <2>2, <2>3 DEF ToolCalls, Types, history
  <1>3. CASE ExecuteTool(u)
    <2>1. messages' \in Seq(Messages)
      BY <1>3, RolesFacts, AddType DEF ExecuteTool
    <2>2. store' \in [memory : Memories, session : Seq(Messages)]
      <3>1. store' = store \/ store' = MemoryStore(u)
        BY <1>3 DEF ExecuteTool, Executed
      <3> QED
        BY <3>1, MemoryStoreType DEF Types
    <2>3. CASE tools[u] > 1
      <3>0. tools' = [tools EXCEPT ![u] = tools[u] - 1] /\ tools \in [Runs -> 0..MaxTools]
        BY <1>3, <2>3 DEF ExecuteTool, Types
      <3>1. tools' \in [Runs -> 0..MaxTools]
        BY <2>3, <3>0, ToolLoopAssumption, SMT
      <3> QED
        BY <1>3, <2>1, <2>2, <2>3, <3>1 DEF ExecuteTool, Types
    <2>4. CASE ~(tools[u] > 1) /\ IterationLeft(u)
      <3>0. /\ pc' = [pc EXCEPT ![u] = "llm"]
            /\ iter' = [iter EXCEPT ![u] = iter[u] + 1]
            /\ tries' = [tries EXCEPT ![u] = 0]
            /\ tools' = [tools EXCEPT ![u] = 0]
        BY <1>3, <2>4 DEF ExecuteTool
      <3>1. iter' \in [Runs -> 0..MaxIter]
        BY <2>4, <3>0, ToolLoopAssumption, SMT DEF Types, IterationLeft
      <3>2. tries' \in [Runs -> 0..(Retries - 1)] /\ tools' \in [Runs -> 0..MaxTools]
        BY <3>0, ToolLoopAssumption, SMT DEF Types
      <3>3. pc' \in [Runs -> PCs]
        BY <3>0 DEF Types, PCs
      <3> QED
        BY <1>3, <2>1, <2>2, <2>4, <3>1, <3>2, <3>3 DEF ExecuteTool, Types
    <2>5. CASE ~(tools[u] > 1) /\ ~IterationLeft(u)
      <3>1. Wrap(u, messages') /\ LoopEnds(u)
        BY <1>3, <2>5 DEF ExecuteTool
      <3> QED
        BY <1>3, <2>1, <2>2, <3>1, WrapType, LoopEndsType DEF ExecuteTool, Types
    <2> QED
      BY <2>3, <2>4, <2>5
  <1> QED
    BY <1>1, <1>2, <1>3

LEMMA ErrorTypes ==
  ASSUME Types, NEW u \in Runs, Overflow(u) \/ LLMError(u) \/ CancelRun(u)
  PROVE  Types'
  <1>1. CASE Overflow(u)
    <2>1. messages' \in Seq(Messages)
      BY <1>1, CompressSuffix DEF Overflow, Types, Suffix
    <2>2. split' \in BOOLEAN
      BY <1>1 DEF Overflow, Types, Orphaned
    <2>3. CASE tries[u] + 1 < Retries
      <3>1. tries' = [tries EXCEPT ![u] = tries[u] + 1] /\ tries \in [Runs -> 0..(Retries - 1)]
        BY <1>1, <2>3 DEF Overflow, Types
      <3>2. tries' \in [Runs -> 0..(Retries - 1)]
        BY <2>3, <3>1, ToolLoopAssumption, SMT
      <3> QED
        BY <1>1, <2>1, <2>2, <2>3, <3>2 DEF Overflow, Types
    <2>4. CASE ~(tries[u] + 1 < Retries)
      <3>1. Raises(u)
        BY <1>1, <2>4 DEF Overflow
      <3> QED
        BY <1>1, <2>1, <2>2, <3>1, RaisesType DEF Overflow, Types
    <2> QED
      BY <2>3, <2>4
  <1>2. CASE LLMError(u)
    <2>1. llmCalls' \in Nat
      BY <1>2, SMT DEF LLMError, Types
    <2>2. Raises(u)
      BY <1>2 DEF LLMError
    <2> QED
      BY <1>2, <2>1, <2>2, RaisesType DEF LLMError, Types, memory
  <1>3. CASE CancelRun(u)
    <2>1. llmCalls' \in Nat
      BY <1>3, SMT DEF CancelRun, Types
    <2>2. store' \in [memory : Memories, session : Seq(Messages)]
      BY <1>3, MemoryStoreType, SMTT(20) DEF CancelRun, Types
    <2>3. Raises(u)
      BY <1>3 DEF CancelRun
    <2> QED
      BY <1>3, <2>1, <2>2, <2>3, RaisesType DEF CancelRun, Types, memory
  <1> QED
    BY <1>1, <1>2, <1>3

LEMMA EndingTypes ==
  ASSUME Types, NEW u \in Runs, Summarize(u) \/ SaveMemory(u) \/ SaveSession(u) \/ Report(u)
  PROVE  Types'
  <1>1. CASE Summarize(u)
    <2>1. llmCalls' \in Nat /\ own' \in [Runs -> Nat]
      BY <1>1, CountedType DEF Summarize, Chat, Types
    <2>2. messages' \in Seq(Messages) /\ pc' \in [Runs -> PCs]
      BY <1>1 DEF Summarize, Types, PCs
    <2>3. split' \in BOOLEAN
      BY <1>1 DEF Summarize, Types, Orphaned
    <2>4. /\ keep' = [keep EXCEPT ![u] = <<>>] /\ keep \in [Runs -> Seq(Messages)]
          /\ \A v \in Runs : Len(keep[v]) <= 4
      BY <1>1 DEF Summarize, Types
    <2>5. <<>> \in Seq(Messages) /\ Len(<<>>) <= 4
      BY SMT
    <2>6. keep' \in [Runs -> Seq(Messages)] /\ \A v \in Runs : Len(keep'[v]) <= 4
      BY <2>4, <2>5
    <2> QED
      BY <1>1, <2>1, <2>2, <2>3, <2>6 DEF Summarize, Types, progress
  <1>2. CASE SaveMemory(u)
    <2>1. store' \in [memory : Memories, session : Seq(Messages)] /\ pc' \in [Runs -> PCs]
      BY <1>2 DEF SaveMemory, Types, PCs
    <2> QED
      BY <1>2, <2>1 DEF SaveMemory, Types, memory, progress, history
  <1>3. CASE SaveSession(u)
    <2>1. store' \in [memory : Memories, session : Seq(Messages)] /\ pc' \in [Runs -> PCs]
      BY <1>3 DEF SaveSession, Types, PCs
    <2> QED
      BY <1>3, <2>1 DEF SaveSession, Types, memory, progress, history
  <1>4. CASE Report(u)
    <2>1. usage' \in [Runs -> Int] /\ from' \in [Runs -> Nat] /\ pc' \in [Runs -> PCs]
      BY <1>4, SMT DEF Report, Types, PCs
    <2> QED
      BY <1>4, <2>1 DEF Report, Types, memory, progress, history
  <1> QED
    BY <1>1, <1>2, <1>3, <1>4

LEMMA NextTypes == ASSUME Types, [Next]_vars PROVE Types'
  <1>1. CASE UNCHANGED vars
    BY <1>1 DEF vars, memory, progress, history, Types
  <1>2. CASE Next
    BY <1>2, LoadingTypes, AnswerTypes, ErrorTypes, EndingTypes DEF Next, RunStep
  <1> QED
    BY <1>1, <1>2

LEMMA InitTypes == ASSUME Init PROVE Types
  <1>1. PICK n \in Earlier : store = [memory |-> None, session |-> Exchanges(n)]
    BY DEF Init
  <1>2. n \in Nat
    BY ToolLoopAssumption, SMT
  <1>3. \A i \in 1..n : Exchanges(n)[i] \in Messages
    BY DEF Exchanges, Message, Messages, Roles
  <1>4. Exchanges(n) \in Seq(Messages)
    BY <1>2, <1>3, SMT DEF Exchanges
  <1>5. store \in [memory : Memories, session : Seq(Messages)]
    BY <1>1, <1>4 DEF Memories
  <1>6. pc \in [Runs -> PCs] /\ longTerm \in Memories /\ messages \in Seq(Messages)
    BY SMT DEF Init, PCs, Memories
  <1>7. /\ iter \in [Runs -> 0..MaxIter] /\ tries \in [Runs -> 0..(Retries - 1)]
        /\ tools \in [Runs -> 0..MaxTools]
    BY ToolLoopAssumption, SMT DEF Init
  <1>8. keep \in [Runs -> Seq(Messages)] /\ \A u \in Runs : Len(keep[u]) <= 4
    <2>1. <<>> \in Seq(Messages) /\ Len(<<>>) <= 4
      BY SMT
    <2> QED
      BY <2>1 DEF Init
  <1>9. /\ llmCalls \in Nat /\ from \in [Runs -> Nat] /\ own \in [Runs -> Nat] /\ usage \in [Runs -> Int]
    BY SMT DEF Init
  <1>10. shared \in [Runs -> BOOLEAN] /\ split \in BOOLEAN
    <2>1. shared \in [Runs -> BOOLEAN]
      BY DEF Init
    <2>2. split \in BOOLEAN
      BY Zenon DEF Init
    <2> QED
      BY <2>1, <2>2
  <1> QED
    BY <1>5, <1>6, <1>7, <1>8, <1>9, <1>10 DEF Types

-----------------------------------------------------------------------------
(* Runs that overlap *)

\* A run other than u takes no part in a step of u.
LEMMA OthersWait ==
  ASSUME Types, NEW u \in Runs, RunStep(u) \/ CancelRun(u)
  PROVE  /\ \A v \in Runs : v # u => pc'[v] = pc[v]
         /\ u \in Active /\ shared' = shared
  <1>1. pc \in [Runs -> PCs]
    BY DEF Types
  <1>2. CASE LoadSession(u) \/ Start(u)
    BY <1>1, <1>2 DEF LoadSession, Start, Active, PCs
  <1>3. CASE FinalAnswer(u) \/ ToolCalls(u)
    <2>1. CASE FinalAnswer(u)
      BY <1>1, <2>1 DEF FinalAnswer, Wrap, Active
    <2>2. CASE ToolCalls(u)
      BY <1>1, <2>2 DEF ToolCalls, Active, history
    <2> QED
      BY <1>3, <2>1, <2>2
  <1>4. CASE Overflow(u) \/ LLMError(u) \/ CancelRun(u)
    BY <1>1, <1>4 DEF Overflow, LLMError, CancelRun, Raises, Active
  <1>5. CASE ExecuteTool(u)
    BY <1>1, <1>5 DEF ExecuteTool, Wrap, Active
  <1>6. CASE Summarize(u) \/ SaveMemory(u) \/ SaveSession(u) \/ Report(u)
    BY <1>1, <1>6 DEF Summarize, SaveMemory, SaveSession, Report, Active, history
  <1> QED
    BY <1>2, <1>3, <1>4, <1>5, <1>6 DEF RunStep

LEMMA NextOverlap == ASSUME Types, OverlapInv, [Next]_vars PROVE OverlapInv'
  <1>1. CASE UNCHANGED vars
    BY <1>1 DEF vars, OverlapInv, Active, history
  <1>2. ASSUME NEW u \in Runs, LoadMemory(u) PROVE OverlapInv'
    <2>1. pc' = [pc EXCEPT ![u] = "loadSession"] /\ pc[u] = "new" /\ pc \in [Runs -> PCs]
      BY <1>2 DEF LoadMemory, Types
    <2>2. Active' = Active \cup {u} /\ u \notin Active /\ Active \subseteq Runs
      BY <2>1 DEF Active
    <2>3. \A v \in Runs : shared'[v] <=> shared[v] \/ (Active # {} /\ v \in Active \cup {u})
      BY <1>2 DEF LoadMemory
    <2> QED
      BY <2>2, <2>3 DEF OverlapInv
  <1>3. ASSUME NEW u \in Runs, RunStep(u) \/ CancelRun(u) PROVE OverlapInv'
    <2>1. Active' \subseteq Active
      BY <1>3, OthersWait DEF Active
    <2> QED
      BY <1>3, <2>1, OthersWait DEF OverlapInv
  <1> QED
    BY <1>1, <1>2, <1>3 DEF Next

-----------------------------------------------------------------------------
(* The LLM calls a run reports *)

Looping == {"llm", "tool", "summarize", "saveMemory", "saveSession", "report"}

\* A step of u counts at most one call, and counts it for u.
LEMMA OthersCount ==
  ASSUME Types, NEW u \in Runs, RunStep(u) \/ CancelRun(u)
  PROVE  /\ \A v \in Runs : v # u => own'[v] = own[v] /\ from'[v] = from[v] /\ usage'[v] = usage[v]
         /\ llmCalls' \in {llmCalls, llmCalls + 1}
  <1>1. from \in [Runs -> Nat] /\ own \in [Runs -> Nat] /\ usage \in [Runs -> Int]
    BY DEF Types
  <1>2. CASE LoadSession(u) \/ Start(u)
    BY <1>1, <1>2 DEF LoadSession, Start, Snapshot
  <1>3. CASE FinalAnswer(u) \/ ToolCalls(u)
    BY <1>1, <1>3 DEF FinalAnswer, ToolCalls, Counted
  <1>4. CASE Overflow(u) \/ LLMError(u) \/ CancelRun(u)
    BY <1>1, <1>4 DEF Overflow, LLMError, CancelRun, Raises
  <1>5. CASE ExecuteTool(u)
    BY <1>1, <1>5 DEF ExecuteTool
  <1>6. CASE Summarize(u) \/ SaveMemory(u) \/ SaveSession(u) \/ Report(u)
    BY <1>1, <1>6 DEF Summarize, Chat, Counted, SaveMemory, SaveSession, Report
  <1> QED
    BY <1>2, <1>3, <1>4, <1>5, <1>6 DEF RunStep

\* What UsageInv says of one run.
UsageOf(u) ==
    /\ pc[u] \in {"new", "loadSession", "loadSummary"} => own[u] = 0
    /\ pc[u] \in Looping =>
          llmCalls - from[u] >= own[u] /\ (Alone(u) => llmCalls - from[u] = own[u])
    /\ pc[u] = "done" => usage[u] >= own[u] /\ (Alone(u) => usage[u] = own[u])

LEMMA UsageEach == UsageInv <=> \A u \in Runs : UsageOf(u)
  BY DEF UsageInv, UsageCovers, UsageOf, Looping

LEMMA OwnUsage ==
  ASSUME Types, NEW u \in Runs, UsageOf(u), RunStep(u) \/ CancelRun(u)
  PROVE  UsageOf(u)'
  <1>1. /\ from \in [Runs -> Nat] /\ own \in [Runs -> Nat] /\ usage \in [Runs -> Int]
        /\ pc \in [Runs -> PCs] /\ llmCalls \in Nat /\ shared \in [Runs -> BOOLEAN]
    BY DEF Types
  <1>0. own[u] \in Nat /\ from[u] \in Nat
    BY <1>1
  <1> USE DEF Alone
  <1>2. CASE LoadSession(u)
    BY <1>1, <1>2 DEF LoadSession, UsageOf, Looping
  <1>3. CASE Start(u)
    BY <1>1, <1>3, SMT DEF Start, Snapshot, UsageOf, Looping
  <1>4. CASE FinalAnswer(u)
    <2>1. pc'[u] \in {"summarize", "saveMemory"}
      BY <1>1, <1>4 DEF FinalAnswer, Wrap
    <2>2. /\ own'[u] = own[u] + 1 /\ llmCalls' = llmCalls + 1 /\ pc[u] = "llm"
          /\ UNCHANGED <<from, shared>>
      BY <1>1, <1>4 DEF FinalAnswer, Counted
    <2> QED
      BY <1>0, <1>1, <2>1, <2>2, SMT DEF UsageOf, Looping
  <1>5. CASE ToolCalls(u)
    <2>2. /\ own'[u] = own[u] + 1 /\ llmCalls' = llmCalls + 1 /\ pc[u] = "llm" /\ pc'[u] = "tool"
          /\ UNCHANGED <<from, shared>>
      BY <1>1, <1>5 DEF ToolCalls, Counted, history
    <2> QED
      BY <1>0, <1>1, <2>2, SMT DEF UsageOf, Looping
  <1>6. CASE Overflow(u)
    <2>1. CASE tries[u] + 1 < Retries
      BY <1>6, <2>1 DEF Overflow, UsageOf, Looping
    <2>2. CASE ~(tries[u] + 1 < Retries)
      BY <1>1, <1>6, <2>2 DEF Overflow, Raises, UsageOf, Looping
    <2> QED
      BY <2>1, <2>2
  <1>7. CASE LLMError(u) \/ CancelRun(u)
    BY <1>1, <1>7 DEF LLMError, CancelRun, Raises, UsageOf, Looping
  <1>8. CASE ExecuteTool(u)
    <2>1. pc'[u] \in {"tool", "llm", "summarize", "saveMemory"} /\ pc[u] = "tool"
      BY <1>1, <1>8 DEF ExecuteTool, Wrap
    <2> QED
      BY <1>8, <2>1 DEF ExecuteTool, UsageOf, Looping
  <1>9. CASE Summarize(u)
    <2>1. pc[u] = "summarize" /\ pc'[u] = "saveMemory" /\ UNCHANGED <<from, shared>>
      BY <1>1, <1>9 DEF Summarize
    <2>2. \/ own'[u] = own[u] + 1 /\ llmCalls' = llmCalls + 1
          \/ own'[u] = own[u] /\ llmCalls' = llmCalls
      BY <1>1, <1>9 DEF Summarize, Chat, Counted
    <2> QED
      BY <1>0, <1>1, <2>1, <2>2, SMT DEF UsageOf, Looping
  <1>10. CASE SaveMemory(u) \/ SaveSession(u)
    <2>1. pc[u] \in Looping /\ pc'[u] \in {"saveSession", "report"} /\ UNCHANGED <<from, shared, own, llmCalls>>
      BY <1>1, <1>10 DEF SaveMemory, SaveSession, Looping, history
    <2> QED
      BY <2>1 DEF UsageOf, Looping
  <1>11. CASE Report(u)
    <2>1. /\ pc[u] = "report" /\ pc'[u] = "done" /\ usage'[u] = llmCalls - from[u]
          /\ UNCHANGED <<shared, own, llmCalls>>
      BY <1>1, <1>11 DEF Report, history
    <2> QED
      BY <2>1 DEF UsageOf, Looping
  <1> QED
    BY <1>2, <1>3, <1>4, <1>5, <1>6, <1>7, <1>8, <1>9, <1>10, <1>11 DEF RunStep

LEMMA NextUsage == ASSUME Types, OverlapInv, UsageInv, [Next]_vars PROVE UsageInv'
  <1>0. \A v \in Runs : UsageOf(v)
    BY UsageEach
  <1> SUFFICES ASSUME NEW v \in Runs PROVE UsageOf(v)'
    BY DEF UsageInv, UsageCovers, UsageOf, Looping
  <1>1. CASE UNCHANGED vars
    BY <1>0, <1>1 DEF vars, UsageOf, Alone, history
  <1>2. ASSUME NEW u \in Runs, LoadMemory(u) PROVE UsageOf(v)'
    <2>1. /\ UNCHANGED <<own, from, usage, llmCalls>> /\ pc \in [Runs -> PCs]
          /\ pc' = [pc EXCEPT ![u] = "loadSession"] /\ pc[u] = "new"
          /\ shared[v] => shared'[v]
      BY <1>2 DEF LoadMemory, Types
    <2>2. pc'[v] = IF v = u THEN "loadSession" ELSE pc[v]
      BY <2>1
    <2> QED
      BY <1>0, <2>1, <2>2 DEF UsageOf, Alone, Looping
  <1>3. ASSUME NEW u \in Runs, RunStep(u) \/ CancelRun(u) PROVE UsageOf(v)'
    <2>1. CASE v = u
      BY <1>0, <1>3, <2>1, OwnUsage
    <2>2. CASE v # u
      <3>1. /\ own'[v] = own[v] /\ from'[v] = from[v] /\ usage'[v] = usage[v] /\ pc'[v] = pc[v]
            /\ llmCalls' \in {llmCalls, llmCalls + 1} /\ shared' = shared /\ u \in Active
        BY <1>3, <2>2, OthersCount, OthersWait
      <3>2. own[v] \in Nat /\ from[v] \in Nat /\ llmCalls \in Nat
        BY DEF Types
      <3>3. pc[v] \in Looping => shared[v]
        BY <2>2, <3>1 DEF OverlapInv, Active, Looping
      <3> QED
        BY <1>0, <3>1, <3>2, <3>3, SMT DEF UsageOf, Alone
    <2> QED
      BY <2>1, <2>2
  <1> QED
    BY <1>1, <1>2, <1>3 DEF Next

-----------------------------------------------------------------------------
(* The stored session *)

\* Only save writes the session.
LEMMA SessionKept ==
  ASSUME Types, NEW u \in Runs, RunStep(u) \/ CancelRun(u)
  PROVE  \/ store'.session = store.session
         \/ SaveSession(u) /\ store'.session = messages
  <1>0. store \in [memory : Memories, session : Seq(Messages)]
    BY DEF Types
  <1>1. CASE LoadSession(u) \/ Start(u) \/ FinalAnswer(u) \/ ToolCalls(u) \/ Overflow(u) \/ LLMError(u)
             \/ Summarize(u) \/ Report(u)
    BY <1>1 DEF LoadSession, Start, FinalAnswer, ToolCalls, Overflow, LLMError, Summarize, Report
  <1>2. CASE ExecuteTool(u)
    BY <1>2, MemoryStoreType DEF ExecuteTool, Executed
  <1>3. CASE CancelRun(u)
    BY <1>3, MemoryStoreType DEF CancelRun
  <1>4. CASE SaveMemory(u)
    BY <1>0, <1>4 DEF SaveMemory
  <1>5. CASE SaveSession(u)
    BY <1>0, <1>5 DEF SaveSession
  <1> QED
    BY <1>1, <1>2, <1>3, <1>4, <1>5 DEF RunStep

\* A run that is alone is not disturbed: no other run is under way.
LEMMA NoOther ==
  ASSUME Types, OverlapInv, NEW u \in Active, NEW v \in Runs, Alone(v), v # u
  PROVE  pc[v] \in {"new", "done", "failed"}
  BY DEF OverlapInv, Active, Alone

\* A run that joins changes neither the conversation nor the store, and whoever
\* is under way is no longer alone.
LEMMA JoinFacts ==
  ASSUME Types, NEW u \in Runs, LoadMemory(u)
  PROVE  /\ UNCHANGED <<messages, store, keep, missed, squeezed, split>>
         /\ pc'[u] = "loadSession" /\ \A v \in Runs : v # u => pc'[v] = pc[v]
         /\ \A v \in Runs : Alone(v)' => Alone(v)
         /\ \A v \in Active : ~Alone(v)'
  <1>1. /\ pc' = [pc EXCEPT ![u] = "loadSession"] /\ pc \in [Runs -> PCs]
        /\ \A v \in Runs : shared'[v] = (shared[v] \/ (Active # {} /\ v \in Active \cup {u}))
    BY DEF LoadMemory, Types
  <1>2. Active \subseteq Runs
    BY DEF Active
  <1> QED
    BY <1>1, <1>2 DEF LoadMemory, Alone

LEMMA NextSession == ASSUME Types, OverlapInv, SessionInv, [Next]_vars PROVE SessionInv'
  <1>1. CASE UNCHANGED vars
    BY <1>1 DEF vars, memory, history, SessionInv, AllAlone, Alone
  <1>2. ASSUME NEW u \in Runs, LoadMemory(u) PROVE SessionInv'
    BY <1>2, JoinFacts DEF SessionInv, AllAlone
  <1>3. ASSUME NEW u \in Runs, RunStep(u) \/ CancelRun(u), AllAlone'
        PROVE  /\ Len(store'.session) <= Threshold
               /\ pc'[u] \in {"saveMemory", "saveSession"} => Len(messages') <= Threshold
    <2>0. AllAlone /\ pc \in [Runs -> PCs] /\ messages \in Seq(Messages)
      BY <1>3, OthersWait DEF AllAlone, Alone, Types
    <2>1. Len(store'.session) <= Threshold
      BY <1>3, <2>0, SessionKept DEF SessionInv, SaveSession
    <2>2. ASSUME pc'[u] \in {"saveMemory", "saveSession"} PROVE Len(messages') <= Threshold
      <3>1. CASE LoadSession(u) \/ Start(u) \/ ToolCalls(u) \/ Report(u)
        BY <2>0, <2>2, <3>1 DEF LoadSession, Start, ToolCalls, Report
      <3>2. CASE Overflow(u) \/ LLMError(u) \/ CancelRun(u)
        BY <2>0, <2>2, <3>2 DEF Overflow, LLMError, CancelRun, Raises
      <3>3. CASE FinalAnswer(u)
        <4>1. messages' \in Seq(Messages) /\ Wrap(u, messages')
          BY <3>3, RolesFacts, AddType DEF FinalAnswer
        <4> QED
          BY <2>0, <2>2, <4>1, WrapCases
      <3>4. CASE ExecuteTool(u)
        <4>1. messages' \in Seq(Messages)
          BY <3>4, RolesFacts, AddType DEF ExecuteTool
        <4>2. Wrap(u, messages')
          BY <2>0, <2>2, <3>4 DEF ExecuteTool
        <4> QED
          BY <2>0, <2>2, <4>1, <4>2, WrapCases
      <3>5. CASE Summarize(u)
        <4>1. keep[u] \in Seq(Messages) /\ Len(keep[u]) <= 4 /\ messages' = keep[u]
          BY <3>5 DEF Summarize, Types
        <4>2. Len(keep[u]) \in Nat /\ Threshold \in Nat /\ Threshold >= 4
          BY <4>1, ToolLoopAssumption, SMT
        <4> QED
          BY <4>1, <4>2, SMT
      <3>6. CASE SaveMemory(u) \/ SaveSession(u)
        BY <2>0, <3>6 DEF SaveMemory, SaveSession, SessionInv, memory
      <3> QED
        BY <1>3, <3>1, <3>2, <3>3, <3>4, <3>5, <3>6 DEF RunStep
    <2> QED
      BY <2>1, <2>2
  <1>4. ASSUME NEW u \in Runs, RunStep(u) \/ CancelRun(u) PROVE SessionInv'
    <2>1. ASSUME AllAlone', NEW v \in Runs, v # u
          PROVE  pc'[v] \in {"new", "done", "failed"}
      BY <1>4, <2>1, OthersWait, NoOther DEF AllAlone, Alone
    <2> QED
      BY <1>3, <1>4, <2>1 DEF SessionInv
  <1> QED
    BY <1>1, <1>2, <1>4 DEF Next

-----------------------------------------------------------------------------
(* Tool results follow their request *)

Whole(s) == Paired(s) /\ ~Orphaned(s)

EndsIn(s, u) == s # <<>> /\ s[Len(s)] \in {Message("calls", u), Message("tool", u)}

\* A cut that leaves a result without its call is noted for good.
LEMMA SplitStays ==
  ASSUME Types, NEW u \in Runs, RunStep(u) \/ CancelRun(u), ~split'
  PROVE  /\ ~split
         /\ Start(u) \/ Overflow(u) \/ Summarize(u) => ~Orphaned(messages')
  <1>1. CASE Start(u) \/ Overflow(u) \/ Summarize(u)
    <2>1. split' = (split \/ Orphaned(messages'))
      BY <1>1 DEF Start, Overflow, Summarize
    <2> QED
      BY <2>1
  <1>2. ASSUME ~(Start(u) \/ Overflow(u) \/ Summarize(u)) PROVE split' = split
    BY <1>2 DEF RunStep, CancelRun, LoadSession, FinalAnswer, ToolCalls, LLMError,
         ExecuteTool, SaveMemory, SaveSession, Report, history
  <1> QED
    BY <1>1, <1>2, SMT

\* After a message has been added, what is added or kept is paired.
LEMMA AddWhole ==
  ASSUME Types, Whole(messages), NEW u \in Runs, NEW role \in Roles, AddMessage(role, u),
         role = "tool" => EndsIn(messages, u)
  PROVE  /\ Whole(messages') /\ messages' \in Seq(Messages)
         /\ role \in {"calls", "tool"} => EndsIn(messages', u)
  <1>1. messages' = Append(messages, Message(role, u)) /\ messages \in Seq(Messages)
    BY AddType DEF Types
  <1>2. /\ Message(role, u) \in Messages /\ Message(role, u).role = role
        /\ Message(role, u).run = u
    BY MessageType
  <1>3. Whole(messages')
    BY <1>1, <1>2, AppendPaired DEF Whole, EndsIn
  <1>4. /\ messages' \in Seq(Messages) /\ messages' # <<>>
        /\ messages'[Len(messages')] = Message(role, u)
    BY <1>1, <1>2, AppendFacts, SMT
  <1> QED
    BY <1>3, <1>4 DEF EndsIn

LEMMA WrapPaired ==
  ASSUME Types, NEW u \in Runs, NEW s \in Seq(Messages), Wrap(u, s), Paired(s)
  PROVE  pc'[u] # "tool" /\ (pc'[u] = "summarize" => Paired(keep'[u]))
  <1>1. pc \in [Runs -> PCs] /\ keep \in [Runs -> Seq(Messages)]
    BY DEF Types
  <1>2. Suffix(Last(s, 4), s) => Paired(Last(s, 4))
    BY SuffixPaired
  <1> QED
    BY <1>1, <1>2, WrapCases

\* What the step of a run that is alone makes of a paired conversation.
LEMMA OwnPair ==
  ASSUME Types, NEW u \in Runs, RunStep(u) \/ CancelRun(u), ~split',
         Whole(messages), Whole(store.session),
         pc[u] = "summarize" => Paired(keep[u]),
         pc[u] = "tool" => EndsIn(messages, u)
  PROVE  /\ Whole(messages') /\ Whole(store'.session)
         /\ pc'[u] = "summarize" => Paired(keep'[u])
         /\ pc'[u] = "tool" => EndsIn(messages', u)
  <1>0. /\ pc \in [Runs -> PCs] /\ messages \in Seq(Messages) /\ keep \in [Runs -> Seq(Messages)]
        /\ store.session \in Seq(Messages)
    BY DEF Types
  <1>1. Whole(store'.session)
    BY SessionKept
  <1>2. CASE LoadSession(u)
    BY <1>0, <1>1, <1>2 DEF LoadSession
  <1>3. CASE Start(u)
    <2> DEFINE s == Append(messages, Message("user", u))
    <2>1. Message("user", u) \in Messages /\ Message("user", u).role = "user"
      BY RolesFacts, MessageType
    <2>2. Whole(s) /\ s \in Seq(Messages)
      BY <1>0, <2>1, AppendPaired, AppendFacts DEF Whole
    <2>3. messages' \in Compressions(s)
      BY <1>3 DEF Start
    <2> HIDE DEF s
    <2>4. Paired(messages')
      BY <2>2, <2>3, CompressionsSuffix, SuffixPaired DEF Whole
    <2>5. pc'[u] = "llm"
      BY <1>0, <1>3 DEF Start
    <2> QED
      BY <1>1, <1>3, <2>4, <2>5, SplitStays DEF Whole
  <1>4. CASE FinalAnswer(u)
    <2>1. Whole(messages') /\ messages' \in Seq(Messages)
      BY <1>4, RolesFacts, AddWhole DEF FinalAnswer
    <2> QED
      BY <1>1, <1>4, <2>1, WrapPaired DEF FinalAnswer, Whole
  <1>5. CASE ToolCalls(u)
    <2>1. Whole(messages') /\ EndsIn(messages', u)
      BY <1>5, RolesFacts, AddWhole DEF ToolCalls
    <2> QED
      BY <1>0, <1>1, <1>5, <2>1 DEF ToolCalls
  <1>6. CASE Overflow(u)
    <2>1. Whole(messages')
      BY <1>0, <1>6, CompressSuffix, SuffixPaired, SplitStays DEF Overflow, Whole
    <2>2. pc'[u] \in {"llm", "failed"}
      BY <1>0, <1>6 DEF Overflow, Raises
    <2> QED
      BY <1>1, <2>1, <2>2
  <1>7. CASE LLMError(u) \/ CancelRun(u)
    <2>1. pc'[u] = "failed" /\ messages' = messages
      BY <1>0, <1>7 DEF LLMError, CancelRun, Raises, memory
    <2> QED
      BY <1>1, <2>1
  <1>8. CASE ExecuteTool(u)
    <2>1. Whole(messages') /\ EndsIn(messages', u) /\ messages' \in Seq(Messages)
      BY <1>8, RolesFacts, AddWhole DEF ExecuteTool
    <2>2. \/ pc' = pc \/ pc' = [pc EXCEPT ![u] = "llm"] \/ Wrap(u, messages')
      BY <1>8 DEF ExecuteTool
    <2>3. pc[u] = "tool"
      BY <1>8 DEF ExecuteTool
    <2> QED
      BY <1>0, <1>1, <2>1, <2>2, <2>3, WrapPaired DEF Whole
  <1>9. CASE Summarize(u)
    BY <1>0, <1>1, <1>9, SplitStays DEF Summarize, Whole
  <1>10. CASE SaveMemory(u) \/ SaveSession(u) \/ Report(u)
    BY <1>0, <1>1, <1>10 DEF SaveMemory, SaveSession, Report, memory
  <1> QED
    BY <1>2, <1>3, <1>4, <1>5, <1>6, <1>7, <1>8, <1>9, <1>10 DEF RunStep

LEMMA NextPair == ASSUME Types, OverlapInv, PairInv, [Next]_vars PROVE PairInv'
  <1>1. CASE UNCHANGED vars
    BY <1>1 DEF vars, memory, history, PairInv, AllAlone, Alone, Paired, Belongs, Orphaned
  <1>2. ASSUME NEW u \in Runs, LoadMemory(u) PROVE PairInv'
    <2>1. /\ messages' = messages /\ store' = store /\ keep' = keep /\ split' = split
          /\ AllAlone' => AllAlone
          /\ \A v \in Runs : pc'[v] = pc[v] \/ pc'[v] = "loadSession"
      BY <1>2, JoinFacts DEF AllAlone
    <2>2. /\ Paired(messages)' = Paired(messages) /\ Orphaned(messages)' = Orphaned(messages)
          /\ Paired(store.session)' = Paired(store.session)
          /\ Orphaned(store.session)' = Orphaned(store.session)
          /\ \A v \in Runs : Paired(keep[v])' = Paired(keep[v])
      BY <2>1 DEF Paired, Belongs, Orphaned
    <2> QED
      BY <2>1, <2>2 DEF PairInv
  <1>3. ASSUME NEW u \in Runs, RunStep(u) \/ CancelRun(u) PROVE PairInv'
    <2> SUFFICES ASSUME AllAlone', ~split'
                 PROVE  /\ Whole(messages') /\ Whole(store'.session)
                        /\ \A v \in Runs : /\ pc'[v] = "summarize" => Paired(keep'[v])
                                           /\ pc'[v] = "tool" => EndsIn(messages', v)
      BY DEF PairInv, Whole, EndsIn, Paired, Belongs, Orphaned
    <2>1. AllAlone /\ ~split
      BY <1>3, OthersWait, SplitStays DEF AllAlone, Alone
    <2>2. /\ Whole(messages) /\ Whole(store.session)
          /\ pc[u] = "summarize" => Paired(keep[u])
          /\ pc[u] = "tool" => EndsIn(messages, u)
      BY <2>1 DEF PairInv, Whole, EndsIn
    <2>3. \A v \in Runs : v # u => pc'[v] \in {"new", "done", "failed"}
      BY <1>3, <2>1, OthersWait, NoOther DEF AllAlone
    <2> QED
      BY <1>3, <2>2, <2>3, OwnPair
  <1> QED
    BY <1>1, <1>2, <1>3 DEF Next

-----------------------------------------------------------------------------
(* What the LLM is shown *)

HasPrompt(s, u) == \E i \in 1..Len(s) : s[i] = Message("user", u)

\* Every message of s is u's own, or of a run that the stored session knows.
KnownTo(s, u, session) ==
    \A i \in 1..Len(s) : s[i].run = u \/ \E j \in 1..Len(session) : session[j].run = s[i].run

LEMMA AddKnown ==
  ASSUME NEW s \in Seq(Messages), NEW u \in Runs, NEW role \in Roles, NEW session
  PROVE  /\ KnownTo(s, u, session) => KnownTo(Append(s, Message(role, u)), u, session)
         /\ HasPrompt(s, u) => HasPrompt(Append(s, Message(role, u)), u)
         /\ HasPrompt(Append(s, Message("user", u)), u)
  <1>1. \A r \in Roles : Message(r, u) \in Messages /\ Message(r, u).run = u
    BY MessageType
  <1>2. Message(role, u) \in Messages /\ Message("user", u) \in Messages
    BY <1>1, RolesFacts
  <1>3. KnownTo(s, u, session) => KnownTo(Append(s, Message(role, u)), u, session)
    BY <1>1, <1>2, AppendFacts, SMT DEF KnownTo
  <1>4. HasPrompt(s, u) => HasPrompt(Append(s, Message(role, u)), u)
    BY <1>2, AppendFacts, SMT DEF HasPrompt
  <1>5. HasPrompt(Append(s, Message("user", u)), u)
    BY <1>2, AppendFacts, SMT DEF HasPrompt
  <1> QED
    BY <1>3, <1>4, <1>5

LEMMA SuffixKnown ==
  ASSUME NEW s \in Seq(Messages), NEW t, Suffix(t, s), NEW u \in Runs, NEW session,
         KnownTo(s, u, session)
  PROVE  KnownTo(t, u, session)
  BY SuffixElements, SMT DEF KnownTo

LEMMA OwnPrompt ==
  ASSUME Types, NEW u \in Runs, RunStep(u) \/ CancelRun(u),
         pc[u] \in {"llm", "tool"} /\ u \notin squeezed => HasPrompt(messages, u),
         pc'[u] \in {"llm", "tool"}, u \notin squeezed'
  PROVE  HasPrompt(messages', u)
  <1>0. pc \in [Runs -> PCs] /\ messages \in Seq(Messages)
    BY DEF Types
  <1>1. CASE Start(u)
    <2>1. messages' = Append(messages, Message("user", u))
      BY <1>1 DEF Start
    <2> QED
      BY <1>0, <2>1, RolesFacts, AddKnown
  <1>2. CASE ToolCalls(u)
    <2>1. messages' = Append(messages, Message("calls", u)) /\ HasPrompt(messages, u)
      BY <1>2 DEF ToolCalls, AddMessage, history
    <2> QED
      BY <1>0, <2>1, RolesFacts, AddKnown
  <1>3. CASE ExecuteTool(u)
    <2>1. ~Wrap(u, messages')
      BY <1>0 DEF Wrap
    <2>2. messages' = Append(messages, Message("tool", u)) /\ HasPrompt(messages, u)
      BY <1>3, <2>1 DEF ExecuteTool, AddMessage
    <2> QED
      BY <1>0, <2>2, RolesFacts, AddKnown
  <1>4. CASE Overflow(u)
    BY <1>0, <1>4 DEF Overflow, Raises
  <1>5. CASE LoadSession(u) \/ FinalAnswer(u) \/ LLMError(u) \/ CancelRun(u) \/ Summarize(u)
             \/ SaveMemory(u) \/ SaveSession(u) \/ Report(u)
    BY <1>0, <1>5 DEF LoadSession, FinalAnswer, Wrap, LLMError, CancelRun, Raises, Summarize,
                      SaveMemory, SaveSession, Report
  <1> QED
    BY <1>1, <1>2, <1>3, <1>4, <1>5 DEF RunStep

LEMMA OwnKnown ==
  ASSUME Types, NEW u \in Runs, RunStep(u) \/ CancelRun(u),
         pc[u] \in {"loadSummary", "llm", "tool"} /\ u \notin missed /\ store.session # <<>>
            => KnownTo(messages, u, store.session),
         pc'[u] \in {"loadSummary", "llm", "tool"}, u \notin missed', store'.session # <<>>
  PROVE  KnownTo(messages', u, store'.session)
  <1>0. pc \in [Runs -> PCs] /\ messages \in Seq(Messages) /\ store.session \in Seq(Messages)
    BY DEF Types
  <1>1. CASE LoadSession(u)
    <2>1. store' = store /\ messages' = store.session
      BY <1>1 DEF LoadSession
    <2> QED
      BY <2>1 DEF KnownTo
  <1>2. CASE Start(u)
    <2> DEFINE s == Append(messages, Message("user", u))
    <2>1. store' = store /\ messages' \in Compressions(s) /\ KnownTo(messages, u, store.session)
      BY <1>2 DEF Start
    <2>2. KnownTo(s, u, store.session) /\ s \in Seq(Messages)
      BY <1>0, <2>1, RolesFacts, AddKnown, MessageType, AppendFacts
    <2> HIDE DEF s
    <2> QED
      BY <2>1, <2>2, CompressionsSuffix, SuffixKnown
  <1>3. CASE ToolCalls(u)
    <2>1. /\ messages' = Append(messages, Message("calls", u)) /\ store' = store
          /\ KnownTo(messages, u, store.session)
      BY <1>3 DEF ToolCalls, AddMessage, history
    <2> QED
      BY <1>0, <2>1, RolesFacts, AddKnown
  <1>4. CASE ExecuteTool(u)
    <2>1. ~Wrap(u, messages') /\ store'.session = store.session
      BY <1>0, <1>4, MemoryStoreType DEF Wrap, ExecuteTool, Executed
    <2>2. messages' = Append(messages, Message("tool", u)) /\ KnownTo(messages, u, store.session)
      BY <1>4, <2>1 DEF ExecuteTool, AddMessage
    <2> QED
      BY <1>0, <2>1, <2>2, RolesFacts, AddKnown
  <1>5. CASE Overflow(u)
    <2>1. pc'[u] # "failed"
      BY <1>0
    <2>2. ~Raises(u)
      BY <1>0, <2>1 DEF Raises
    <2>3. /\ messages' = ForceCompress(messages) /\ store' = store
          /\ KnownTo(messages, u, store.session)
      BY <1>5, <2>2 DEF Overflow
    <2> QED
      BY <1>0, <2>3, CompressSuffix, SuffixKnown
  <1>6. CASE FinalAnswer(u) \/ LLMError(u) \/ CancelRun(u) \/ Summarize(u)
             \/ SaveMemory(u) \/ SaveSession(u) \/ Report(u)
    BY <1>0, <1>6 DEF FinalAnswer, Wrap, LLMError, CancelRun, Raises, Summarize,
                      SaveMemory, SaveSession, Report
  <1> QED
    BY <1>1, <1>2, <1>3, <1>4, <1>5, <1>6 DEF RunStep

\* Only its own steps change what a run that is alone sees.
LEMMA NextContext ==
  ASSUME Types, OverlapInv, PromptInv, ForgetInv, [Next]_vars
  PROVE  PromptInv' /\ ForgetInv'
  <1>0. \A u \in Runs :
          /\ Alone(u) /\ pc[u] \in {"llm", "tool"} /\ u \notin squeezed => HasPrompt(messages, u)
          /\ Alone(u) /\ pc[u] \in {"loadSummary", "llm", "tool"} /\ u \notin missed /\ store.session # <<>>
                => KnownTo(messages, u, store.session)
    BY DEF PromptInv, ForgetInv, HasPrompt, KnownTo
  <1> SUFFICES ASSUME NEW v \in Runs, Alone(v)'
               PROVE  /\ pc'[v] \in {"llm", "tool"} /\ v \notin squeezed' => HasPrompt(messages', v)
                      /\ pc'[v] \in {"loadSummary", "llm", "tool"} /\ v \notin missed' /\ store'.session # <<>>
                            => KnownTo(messages', v, store'.session)
    BY DEF PromptInv, ForgetInv, HasPrompt, KnownTo
  <1>1. CASE UNCHANGED vars
    BY <1>0, <1>1 DEF vars, memory, history, Alone
  <1>2. ASSUME NEW u \in Runs, LoadMemory(u) PROVE pc'[v] \notin {"loadSummary", "llm", "tool"}
    <2>1. CASE v = u
      BY <1>2, <2>1, JoinFacts
    <2>2. CASE v # u
      BY <1>2, <2>2, JoinFacts DEF Active
    <2> QED
      BY <2>1, <2>2
  <1>3. ASSUME NEW u \in Runs, RunStep(u) \/ CancelRun(u), v # u
        PROVE  pc'[v] \notin {"loadSummary", "llm", "tool"}
    <2>1. Alone(v) /\ u \in Active /\ pc'[v] = pc[v]
      BY <1>3, OthersWait DEF Alone
    <2> QED
      BY <1>3, <2>1, NoOther
  <1>4. CASE RunStep(v) \/ CancelRun(v)
    <2>1. Alone(v)
      BY <1>4, OthersWait DEF Alone
    <2> QED
      BY <1>0, <1>4, <2>1, OwnPrompt, OwnKnown
  <1> QED
    BY <1>1, <1>2, <1>3, <1>4 DEF Next

-----------------------------------------------------------------------------

LEMMA InitInv == ASSUME Init PROVE ToolLoopInv
  <1>1. Types
    BY InitTypes
  <1>2. PICK n \in Earlier : store = [memory |-> None, session |-> Exchanges(n)]
    BY DEF Init
  <1>3. n \in Nat /\ n <= Threshold
    BY ToolLoopAssumption, SMT
  <1>4. store.session = Exchanges(n) /\ Len(Exchanges(n)) = n
    BY <1>2, <1>3, SMT DEF Exchanges
  <1>5. \A i \in 1..n : Exchanges(n)[i].role # "tool"
    BY DEF Exchanges, Message
  <1>6. SessionInv
    BY <1>3, <1>4 DEF Init, SessionInv
  <1>7. Paired(store.session) /\ ~Orphaned(store.session)
    <2>1. store.session \in Seq(Messages)
      BY <1>1 DEF Types
    <2>2. store.session # <<>> => Head(store.session) = store.session[1] /\ 1 \in 1..n
      BY <1>3, <1>4, <2>1, SMT
    <2> QED
      BY <1>3, <1>4, <1>5, <2>2, SMT DEF Paired, Orphaned
  <1>8. PairInv
    <2>1. Paired(messages) /\ ~Orphaned(messages)
      BY SMT DEF Init, Paired, Orphaned
    <2> QED
      BY <1>7, <2>1 DEF Init, PairInv
  <1>9. OverlapInv /\ UsageInv /\ PromptInv /\ ForgetInv
    BY DEF Init, OverlapInv, UsageInv, UsageCovers, PromptInv, ForgetInv, Active
  <1> QED
    BY <1>1, <1>6, <1>8, <1>9 DEF ToolLoopInv

\* The inductive invariant of the agent loop, over every interleaving of its runs.
THEOREM ToolLoopInvariant == Spec => []ToolLoopInv
  <1>1. Init => ToolLoopInv
    BY InitInv
  <1>2. ToolLoopInv /\ [Next]_vars => ToolLoopInv'
    BY NextTypes, NextOverlap, NextUsage, NextSession, NextPair, NextContext DEF ToolLoopInv
  <1> QED
    BY <1>1, <1>2, PTL DEF Spec

\* Iterations, retries and tool calls stay within their limits (AgentLoop.run),
\* and a summary keeps four messages at most.
THEOREM ToolLoopTypes == Spec => []TypeOK
  <1>1. ToolLoopInv => TypeOK
    <2>1. ASSUME Types, NEW i \in 1..Len(messages) PROVE messages[i] \in Messages
      BY <2>1, SMT DEF Types
    <2>2. Types => TypeOK
      BY <2>1 DEF Types, TypeOK, PCs, Messages
    <2> QED
      BY <2>2 DEF ToolLoopInv
  <1> QED
    BY <1>1, ToolLoopInvariant, PTL

\* The messages handed to the chat API hold the prompt of the run that calls it
\* and have every tool result behind its request, except for the overlaps and
\* the cuts the property names (AgentLoop.run, AgentMemory.force_compress).
THEOREM ContextAccepted == Spec => []ContextWellFormed
  <1>1. ToolLoopInv => PromptInContext
    BY DEF ToolLoopInv, PromptInv, PromptInContext
  <1>2. ToolLoopInv => ToolResultsPaired
    <2> SUFFICES ASSUME ToolLoopInv, AllAlone, ~split,
                        NEW i \in 1..Len(messages), messages[i].role = "tool"
                 PROVE  i > 1 /\ Belongs(messages, i)
      BY DEF ToolResultsPaired, AllAlone, Belongs
    <2>1. messages \in Seq(Messages) /\ Paired(messages) /\ ~Orphaned(messages)
      BY DEF ToolLoopInv, Types, PairInv
    <2>2. Len(messages) \in Nat /\ messages # <<>> /\ Head(messages) = messages[1]
      BY <2>1, SMT
    <2>3. i # 1
      BY <2>1, <2>2 DEF Orphaned
    <2>4. i \in 2..Len(messages)
      BY <2>2, <2>3, SMT
    <2> QED
      BY <2>1, <2>4, SMT DEF Paired
  <1>3. ToolLoopInv => ContextWellFormed
    BY <1>1, <1>2 DEF ContextWellFormed
  <1> QED
    BY <1>3, ToolLoopInvariant, PTL

\* A run never reports fewer LLM calls than it made, and exactly those when no
\* other run shared its LLMClient (tool_agent.py, the counters).
THEOREM UsageIsCovered == Spec => []UsageCovers
  <1>1. ToolLoopInv => UsageCovers
    BY DEF ToolLoopInv, UsageInv
  <1> QED
    BY <1>1, ToolLoopInvariant, PTL

\* Sessions that do not overlap store no more than the threshold, however many
\* follow each other (needs_summarization, AgentMemory.save).
THEOREM SessionStaysBounded == Spec => []SessionBounded
  <1>1. ToolLoopInv => SessionBounded
    BY DEF ToolLoopInv, SessionInv, SessionBounded, AllAlone
  <1> QED
    BY <1>1, ToolLoopInvariant, PTL

\* What a failed or cancelled run leaves in memory is not shown to the next one,
\* unless it was saved (AgentMemory.load).
THEOREM FailedRunsForgotten == Spec => []FailedRunForgotten
  <1>1. ToolLoopInv => FailedRunForgotten
    BY DEF ToolLoopInv, ForgetInv, FailedRunForgotten
  <1> QED
    BY <1>1, ToolLoopInvariant, PTL
=============================================================================
