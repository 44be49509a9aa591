------------------------- MODULE ProcessTreeProofs -------------------------
(***************************************************************************)
(* Proofs about ProcessTree and about the maid that scans it, for every    *)
(* number of PIDs, names, tiers and concurrent goroutines.                 *)
(***************************************************************************)
EXTENDS Maid, TLAPS

\* A step is first-order unless it names SMT, for arithmetic and sequences.
USE Zenon

-----------------------------------------------------------------------------
(* The inductive invariant: what the goroutines in progress know. *)

\* PIDs below nextPID are the ones in use; the kernel is the only root.
TableInv ==
    /\ registered \subseteq Allocated
    /\ attr[KingPID] = KernelAttr
    /\ \A p \in Allocated \ {KingPID} :
          /\ ppid[p] # NoPID
          /\ attr[p].role \in Roles

\* A spawn in progress holds an allocated parent, and what it has checked of
\* the parent stays true because nothing rewrites those fields.
SpawnInv ==
    \A s \in Spawners :
        /\ sp[s].pc # "idle" =>
              /\ sp[s].parent \in Allocated
              /\ sp[s].attr.role \in Roles
              /\ UserInherited(sp[s].parent, sp[s].attr)
        /\ sp[s].pc \in {"count", "register"} =>
              sp[s].attr.tier >= attr[sp[s].parent].tier
        /\ sp[s].pc = "launch" => sp[s].pid \in Allocated \ {KingPID}

\* No kill in progress has the kernel among its victims.
KillInv ==
    \A k \in Killers :
        kl[k].pc = "kill" => kl[k].target \in Allocated \ {KingPID} /\ KingPID \notin kl[k].todo

\* The children the reaper still has to move are under the process it reaps:
\* no other goroutine writes PPID.
ReapInv ==
    /\ scan \subseteq Allocated \ {KingPID}
    /\ reap.pc # "idle" => reap.cur \in Allocated \ {KingPID}
    /\ \A c \in reap.kids :
          reap.pc # "idle" /\ c \in Allocated \ {KingPID} /\ ppid[c] = reap.cur

TreeInv ==
    /\ TypeOK /\ TableInv /\ SpawnInv /\ KillInv /\ ReapInv
    /\ ParentOlder /\ TierMonotone /\ UserMonotone /\ NameIndexSound /\ KingSurvives

USE DEF NoPID, KingPID, Pids, PidOr0

\* The table NewRegistry and SpawnKernel leave behind satisfies the inductive invariant.
LEMMA InitTreeInv == Init => TreeInv
<1> SUFFICES ASSUME Init PROVE TreeInv
  OBVIOUS
<1> USE BoundAssumption, RequestAssumption DEF Init, Attr, KernelAttr, Allocated
<1>1. TypeOK
  BY SMT DEF TypeOK, IdleSpawn, IdleKill, IdleReap, States,
         SpawnCall, SpawnPC, KillCall, ReapCall
<1>2. TableInv
  BY SMT DEF TableInv
<1>3. SpawnInv /\ KillInv /\ ReapInv
  BY DEF SpawnInv, KillInv, ReapInv, IdleSpawn, IdleKill, IdleReap
<1>4. ParentOlder /\ TierMonotone /\ UserMonotone
  BY SMT DEF ParentOlder, TierMonotone, UserMonotone
<1>5. NameIndexSound /\ KingSurvives
  BY SMT DEF NameIndexSound, KingSurvives
<1> QED
  BY <1>1, <1>2, <1>3, <1>4, <1>5 DEF TreeInv

\* A goroutine with no SpawnChild in progress is a well-formed call.
LEMMA IdleSpawnType == IdleSpawn \in SpawnCall
  BY BoundAssumption, RequestAssumption, SMT
     DEF IdleSpawn, SpawnCall, SpawnPC, Attr, KernelAttr

\* A step that changes nothing keeps the inductive invariant.
LEMMA StutterPreserves ==
    ASSUME TreeInv, UNCHANGED vars
    PROVE  TreeInv'
<1> USE DEF TreeInv, Allocated, vars
<1>1. TypeOK' /\ TableInv' /\ SpawnInv'
  BY DEF TypeOK, TableInv, SpawnInv, UserInherited
<1>2. KillInv' /\ ReapInv'
  BY DEF KillInv, ReapInv
<1>3. ParentOlder' /\ TierMonotone' /\ UserMonotone' /\ NameIndexSound' /\ KingSurvives'
  BY DEF ParentOlder, TierMonotone, UserMonotone, NameIndexSound, KingSurvives
<1> QED
  BY <1>1, <1>2, <1>3

\* Every process but the kernel has a parent that was allocated before it.
LEMMA ParentAllocated ==
    ASSUME TreeInv
    PROVE  \A p \in Allocated \ {KingPID} : ppid[p] \in Allocated /\ ppid[p] \in Pids
<1> SUFFICES ASSUME NEW p \in Allocated \ {KingPID}
             PROVE  ppid[p] \in Allocated /\ ppid[p] \in Pids
  OBVIOUS
<1>1. nextPID \in 2..(MaxPID + 1) /\ p \in Pids
  BY BoundAssumption, SMT DEF TreeInv, TypeOK, Allocated
<1>2. ppid[p] \in PidOr0 /\ ppid[p] # NoPID /\ ppid[p] < p
  BY <1>1 DEF TreeInv, TypeOK, TableInv, ParentOlder
<1> QED
  BY <1>1, <1>2, BoundAssumption, SMT DEF Allocated

\* A step that changes only Process.State leaves the shape of the table alone;
\* the kernel is not its target.
LEMMA StateStep ==
    ASSUME TreeInv,
           NEW p \in Pids \ {KingPID}, NEW s \in States, SetState(p, s),
           UNCHANGED <<registered, ppid, attr, byName, nextPID, sp, reap>>
    PROVE  /\ state' \in [Pids -> States]
           /\ scan' \subseteq Pids
           /\ TableInv' /\ SpawnInv' /\ ReapInv'
           /\ ParentOlder' /\ TierMonotone' /\ UserMonotone'
           /\ NameIndexSound' /\ KingSurvives'
<1> USE DEF TreeInv, Allocated
<1>1. state' \in [Pids -> States] /\ scan' \subseteq scan /\ state'[KingPID] = state[KingPID]
  BY BoundAssumption, SMT DEF SetState, TypeOK
<1>2. scan' \subseteq Pids
  BY <1>1 DEF TypeOK
<1>3. TableInv' /\ SpawnInv'
  BY DEF TableInv, SpawnInv, UserInherited
<1>4. ReapInv'
  BY <1>1 DEF ReapInv
<1>5. ParentOlder' /\ TierMonotone' /\ UserMonotone' /\ NameIndexSound'
  BY DEF ParentOlder, TierMonotone, UserMonotone, NameIndexSound
<1>6. KingSurvives'
  BY <1>1 DEF KingSurvives
<1> QED
  BY <1>1, <1>2, <1>3, <1>4, <1>5, <1>6

\* Advancing a SpawnChild call leaves it well formed.
LEMMA SpawnCallPC ==
    ASSUME NEW r \in SpawnCall, NEW q \in SpawnPC
    PROVE  [r EXCEPT !.pc = q] \in SpawnCall
  BY DEF SpawnCall

\* So does recording the PID that Register handed out.
LEMMA SpawnCallPID ==
    ASSUME NEW r \in SpawnCall, NEW q \in PidOr0
    PROVE  [r EXCEPT !.pid = q] \in SpawnCall
  BY DEF SpawnCall

\* The steps of a spawn that touch nothing but the call's own locals.
LEMMA SpawnLocalStep ==
    ASSUME TreeInv, sp' \in [Spawners -> SpawnCall], SpawnInv',
           UNCHANGED <<table, kl, scan, reap>>
    PROVE  TreeInv'
<1> USE DEF TreeInv, Allocated, table
<1>1. TypeOK'
  BY DEF TypeOK
<1>2. TableInv' /\ KillInv' /\ ReapInv'
  BY DEF TableInv, KillInv, ReapInv
<1>3. ParentOlder' /\ TierMonotone' /\ UserMonotone' /\ NameIndexSound' /\ KingSurvives'
  BY DEF ParentOlder, TierMonotone, UserMonotone, NameIndexSound, KingSurvives
<1> QED
  BY <1>1, <1>2, <1>3

\* The permission checks and the lookup of the parent keep the invariant.
LEMMA SpawnLookupPreserves ==
    ASSUME TreeInv, NEW s \in Spawners, SpawnLookup(s)
    PROVE  TreeInv'
<1>1. PICK parent \in registered, a \in Attr :
         /\ a.role \in Roles
         /\ UserInherited(parent, a)
         /\ sp' = [sp EXCEPT ![s] = [pc |-> "check", parent |-> parent,
                                     attr |-> a, pid |-> NoPID]]
  BY DEF SpawnLookup
<1>2. sp \in [Spawners -> SpawnCall] /\ parent \in PidOr0 /\ parent \in Allocated
  BY BoundAssumption, SMT DEF TreeInv, TypeOK, TableInv
<1>3. sp' \in [Spawners -> SpawnCall]
  BY <1>1, <1>2, BoundAssumption, SMT DEF SpawnCall, SpawnPC
<1>4. UNCHANGED <<table, kl, scan, reap>>
  BY DEF SpawnLookup
<1>5. SpawnInv'
  BY <1>1, <1>2, <1>4 DEF TreeInv, SpawnInv, UserInherited, table, Allocated
<1> QED
  BY <1>3, <1>4, <1>5, SpawnLocalStep

\* So do the two halves of validate, and the end of SpawnChild.
LEMMA SpawnAdvancePreserves ==
    ASSUME TreeInv, NEW s \in Spawners,
           SpawnCheck(s) \/ SpawnCount(s) \/ SpawnDone(s)
    PROVE  TreeInv'
<1>1. sp \in [Spawners -> SpawnCall]
  BY DEF TreeInv, TypeOK
<1>2. UNCHANGED <<table, kl, scan, reap>>
  BY DEF SpawnCheck, SpawnCount, SpawnDone
<1>3. \/ sp' = [sp EXCEPT ![s] = IdleSpawn]
      \/ /\ sp[s].pc = "check" /\ TierAllowed(sp[s].parent, sp[s].attr)
         /\ sp' = [sp EXCEPT ![s] = [sp[s] EXCEPT !.pc = "count"]]
      \/ /\ sp[s].pc = "count"
         /\ sp' = [sp EXCEPT ![s] = [sp[s] EXCEPT !.pc = "register"]]
  BY <1>1 DEF SpawnCheck, SpawnCount, SpawnDone
<1>4. [sp[s] EXCEPT !.pc = "count"] \in SpawnCall /\ [sp[s] EXCEPT !.pc = "register"] \in SpawnCall
  BY <1>1, SpawnCallPC DEF SpawnPC
<1>5. sp' \in [Spawners -> SpawnCall]
  BY <1>1, <1>3, <1>4, IdleSpawnType
<1>6. SpawnInv'
  <2> SUFFICES ASSUME NEW r \in Spawners
               PROVE  SpawnInv!(r)'
    BY DEF SpawnInv
  <2>1. CASE sp'[r] = sp[r]
    BY <2>1, <1>2 DEF TreeInv, SpawnInv, UserInherited, table, Allocated
  <2>2. CASE r = s /\ sp'[s] = IdleSpawn
    BY <2>2, SMT DEF IdleSpawn
  <2>3. CASE r = s /\ sp[s].pc \in {"check", "count"}
             /\ sp'[s] \in {[sp[s] EXCEPT !.pc = "count"], [sp[s] EXCEPT !.pc = "register"]}
    <3>1. /\ sp'[s].parent = sp[s].parent /\ sp'[s].attr = sp[s].attr
          /\ sp'[s].pc \in {"count", "register"}
      BY <1>1, <2>3 DEF SpawnCall
    <3>2. sp[s].attr.tier >= attr[sp[s].parent].tier
      <4>1. sp'[s] # IdleSpawn
        BY <3>1, SMT DEF IdleSpawn
      <4>2. sp[s].pc = "check" => TierAllowed(sp[s].parent, sp[s].attr)
        BY <1>1, <1>3, <4>1
      <4> QED
        BY <2>3, <4>2 DEF TreeInv, SpawnInv, TierAllowed
    <3> QED
      BY <1>2, <2>3, <3>1, <3>2 DEF TreeInv, SpawnInv, UserInherited, table, Allocated
  <2> QED
    BY <1>1, <1>3, <2>1, <2>2, <2>3
<1> QED
  BY <1>2, <1>5, <1>6, SpawnLocalStep

\* Register keeps it: what validate read of the parent is still true.
LEMMA SpawnRegisterPreserves ==
    ASSUME TreeInv, NEW s \in Spawners, SpawnRegister(s)
    PROVE  TreeInv'
<1> DEFINE parent == sp[s].parent
           a      == sp[s].attr
<1>0. /\ TypeOK /\ TableInv /\ SpawnInv /\ KillInv /\ ReapInv
      /\ ParentOlder /\ TierMonotone /\ UserMonotone /\ NameIndexSound /\ KingSurvives
  BY DEF TreeInv
<1>1. sp \in [Spawners -> SpawnCall] /\ sp[s].pc = "register" /\ sp[s] \in SpawnCall
  BY <1>0 DEF TypeOK, SpawnRegister
<1>2. /\ registered' = registered \cup {nextPID}
      /\ ppid' = [ppid EXCEPT ![nextPID] = parent]
      /\ attr' = [attr EXCEPT ![nextPID] = a]
      /\ state' = [state EXCEPT ![nextPID] = "idle"]
      /\ byName' = [byName EXCEPT ![a.name] = nextPID]
      /\ nextPID' = nextPID + 1
      /\ sp' = [sp EXCEPT ![s] = [[sp[s] EXCEPT !.pc = "launch"] EXCEPT !.pid = nextPID]]
      /\ UNCHANGED <<kl, scan, reap>>
  BY <1>1 DEF SpawnRegister, Register
<1>3. /\ nextPID \in Pids \ {KingPID}
      /\ nextPID \in 2..MaxPID
      /\ Allocated' = Allocated \cup {nextPID}
      /\ nextPID \notin Allocated
      /\ Allocated \subseteq Pids
  BY <1>0, <1>2, BoundAssumption, SMT DEF TypeOK, SpawnRegister, Register, Allocated
<1>4. /\ parent \in Allocated /\ parent \in PidOr0
      /\ a \in Attr /\ a.role \in Roles /\ a.name \in Names
      /\ UserInherited(parent, a)
      /\ a.tier >= attr[parent].tier
  <2>1. a \in Attr /\ parent \in PidOr0
    BY <1>1 DEF SpawnCall
  <2> QED
    BY <1>0, <1>1, <2>1 DEF SpawnInv, Attr
<1>5. \A p \in Allocated : ppid'[p] = ppid[p] /\ attr'[p] = attr[p] /\ state'[p] = state[p]
  BY <1>0, <1>2, <1>3 DEF TypeOK
<1>6. ppid'[nextPID] = parent /\ attr'[nextPID] = a
  BY <1>0, <1>2, <1>3 DEF TypeOK
<1>7. sp' \in [Spawners -> SpawnCall]
  <2>0. [sp[s] EXCEPT !.pc = "launch"] \in SpawnCall
    BY <1>1, SpawnCallPC DEF SpawnPC
  <2>1. [[sp[s] EXCEPT !.pc = "launch"] EXCEPT !.pid = nextPID] \in SpawnCall
    <3>1. nextPID \in PidOr0
      BY <1>3, BoundAssumption, SMT
    <3> HIDE DEF PidOr0
    <3> QED
      BY <2>0, <3>1, SpawnCallPID
  <2> QED
    BY <1>1, <1>2, <2>1
<1>8. TypeOK'
  <2>1. registered' \subseteq Pids /\ ppid' \in [Pids -> PidOr0] /\ attr' \in [Pids -> Attr]
    BY <1>0, <1>2, <1>3, <1>4 DEF TypeOK
  <2>2. state' \in [Pids -> States] /\ byName' \in [Names -> PidOr0]
    BY <1>0, <1>2, <1>3, <1>4, SMT DEF TypeOK, States
  <2>3. nextPID' \in 2..(MaxPID + 1)
    BY <1>2, <1>3, BoundAssumption, SMT
  <2> QED
    BY <1>0, <1>2, <1>7, <2>1, <2>2, <2>3 DEF TypeOK
<1>9. TableInv'
  BY <1>0, <1>2, <1>3, <1>4, <1>5, <1>6, SMT DEF TableInv, Allocated, TypeOK
<1>10. SpawnInv'
  <2> SUFFICES ASSUME NEW r \in Spawners
               PROVE  SpawnInv!(r)'
    BY DEF SpawnInv
  <2>1. CASE r # s
    <3>1. sp'[r] = sp[r]
      BY <1>1, <1>2, <2>1
    <3>2. SpawnInv!(r)
      BY <1>0 DEF SpawnInv
    <3>3. CASE sp[r].pc = "idle"
      BY <3>1, <3>3
    <3>4. CASE sp[r].pc # "idle"
      <4>1. sp[r].parent \in Allocated /\ attr'[sp[r].parent] = attr[sp[r].parent]
        BY <3>2, <3>4, <1>5
      <4> QED
        BY <1>3, <3>1, <3>2, <4>1 DEF UserInherited
    <3> QED
      BY <3>3, <3>4
  <2>2. CASE r = s
    <3>1. /\ sp'[s].pc = "launch" /\ sp'[s].pid = nextPID
          /\ sp'[s].parent = parent /\ sp'[s].attr = a
      BY <1>1, <1>2, <1>7 DEF SpawnCall
    <3> QED
      BY <2>2, <3>1, <1>3, <1>4, <1>5 DEF UserInherited
  <2> QED
    BY <2>1, <2>2
<1>11. KillInv' /\ ReapInv'
  BY <1>0, <1>2, <1>3, <1>5 DEF KillInv, ReapInv
<1>12. ParentOlder'
  BY <1>0, <1>3, <1>4, <1>5, <1>6, SMT DEF ParentOlder, Allocated, TypeOK
<1>13. TierMonotone' /\ UserMonotone'
  <2>1. \A p \in Allocated \ {KingPID} : ppid[p] \in Allocated
    BY ParentAllocated
  <2>2. parent # KingPID => attr[parent].role # "kernel"
    BY <1>0, <1>4, RequestAssumption DEF TableInv
  <2>5. \A p \in Allocated \ {KingPID} :
           ppid'[p] = ppid[p] /\ attr'[p] = attr[p] /\ attr'[ppid[p]] = attr[ppid[p]]
    BY <1>5, <2>1
  <2>6. attr'[parent] = attr[parent]
    BY <1>4, <1>5
  <2>3. TierMonotone'
    BY <1>0, <1>3, <1>4, <1>6, <2>5, <2>6, SMT DEF TierMonotone
  <2>4. UserMonotone'
    BY <1>0, <1>3, <1>4, <1>6, <2>2, <2>5, <2>6, SMT DEF UserMonotone, UserInherited
  <2> QED
    BY <2>3, <2>4
<1>14. NameIndexSound'
  BY <1>0, <1>2, <1>3, <1>4, <1>5, <1>6, SMT DEF NameIndexSound, TableInv, TypeOK
<1>15. KingSurvives'
  BY <1>0, <1>2, <1>3 DEF KingSurvives, TypeOK
<1> QED
  BY <1>8, <1>9, <1>10, <1>11, <1>12, <1>13, <1>14, <1>15 DEF TreeInv

\* Registry.Remove, called by a spawn that failed and by the reaper.
LEMMA RemoveKeeps ==
    ASSUME TreeInv, NEW p \in Pids \ {KingPID}, Remove(p),
           UNCHANGED <<ppid, attr, state, nextPID, kl, scan>>
    PROVE  /\ registered' \subseteq Pids /\ byName' \in [Names -> PidOr0]
           /\ TableInv' /\ KillInv'
           /\ ParentOlder' /\ TierMonotone' /\ UserMonotone'
           /\ NameIndexSound' /\ KingSurvives'
<1> USE DEF TreeInv
<1>1. attr[p].name \in Names
  BY DEF TypeOK, Attr
<1>2. registered' \subseteq registered \ {p} /\ registered \ {p} \subseteq registered'
  BY DEF Remove
<1>3. registered' \subseteq Pids /\ byName' \in [Names -> PidOr0]
  <2>1. NoPID \in PidOr0
    BY BoundAssumption, SMT
  <2>2. byName \in [Names -> PidOr0] /\ registered \subseteq Pids
    BY DEF TypeOK
  <2> QED
    BY <1>1, <1>2, <2>1, <2>2 DEF Remove
<1>4. TableInv' /\ KillInv'
  BY <1>2 DEF TableInv, KillInv, Allocated
<1>5. ParentOlder' /\ TierMonotone' /\ UserMonotone'
  BY DEF ParentOlder, TierMonotone, UserMonotone, Allocated
<1>6. NameIndexSound'
  BY <1>1, SMT DEF NameIndexSound, Remove, TypeOK
<1>7. KingSurvives'
  BY <1>2 DEF KingSurvives
<1> QED
  BY <1>3, <1>4, <1>5, <1>6, <1>7

\* The rollback of SpawnChild keeps the invariant.
LEMMA SpawnRollbackPreserves ==
    ASSUME TreeInv, NEW s \in Spawners, SpawnRollback(s)
    PROVE  TreeInv'
<1>1. /\ sp \in [Spawners -> SpawnCall]
      /\ sp[s].pc = "launch"
      /\ sp' = [sp EXCEPT ![s] = IdleSpawn]
      /\ Remove(sp[s].pid)
      /\ UNCHANGED <<ppid, attr, state, nextPID, kl, scan, reap>>
  BY DEF TreeInv, TypeOK, SpawnRollback
<1>2. sp[s].pid \in Pids \ {KingPID}
  BY <1>1, BoundAssumption, SMT DEF TreeInv, TypeOK, SpawnInv, Allocated
<1>3. /\ registered' \subseteq Pids /\ byName' \in [Names -> PidOr0]
      /\ TableInv' /\ KillInv'
      /\ ParentOlder' /\ TierMonotone' /\ UserMonotone'
      /\ NameIndexSound' /\ KingSurvives'
  BY <1>1, <1>2, RemoveKeeps
<1>4. TypeOK'
  <2>1. sp' \in [Spawners -> SpawnCall]
    BY <1>1, IdleSpawnType
  <2> QED
    BY <1>1, <1>3, <2>1 DEF TreeInv, TypeOK
<1>5. SpawnInv'
  <2>1. \A r \in Spawners : sp'[r] = sp[r] \/ sp'[r].pc = "idle"
    BY <1>1 DEF IdleSpawn
  <2> QED
    BY <1>1, <2>1 DEF TreeInv, SpawnInv, UserInherited, Allocated
<1>6. ReapInv'
  BY <1>1 DEF TreeInv, ReapInv, Allocated
<1> QED
  BY <1>3, <1>4, <1>5, <1>6 DEF TreeInv

-----------------------------------------------------------------------------
(* Kills and state changes *)

\* KillChild and handleKill keep the invariant.
LEMMA KillPreserves ==
    ASSUME TreeInv, NEW k \in Killers, KillStep(k)
    PROVE  TreeInv'
<1>0. kl \in [Killers -> KillCall] /\ kl[k] \in KillCall
  BY DEF TreeInv, TypeOK
<1>1. CASE KillStart(k)
  <2>1. PICK t \in registered, recursive \in BOOLEAN :
           /\ ppid[t] # NoPID
           /\ kl' = [kl EXCEPT ![k] =
                        [pc |-> "kill", target |-> t,
                         todo |-> IF recursive THEN Descendants(t) ELSE {}]]
    BY <1>1 DEF KillStart
  <2>2. UNCHANGED <<table, sp, scan, reap>>
    BY <1>1 DEF KillStart
  <2> DEFINE victims == IF recursive THEN Descendants(t) ELSE {}
  <2>3. victims \subseteq registered /\ \A d \in victims : ppid[d] \in Pids
    BY DEF Descendants
  <2>4. ppid[KingPID] = NoPID
    BY BoundAssumption, SMT DEF TreeInv, TypeOK, ParentOlder, Allocated
  <2>14. registered \subseteq Pids /\ registered \subseteq Allocated
    BY DEF TreeInv, TypeOK, TableInv
  <2>5. t \in Allocated \ {KingPID} /\ KingPID \notin victims /\ t \in PidOr0 /\ victims \subseteq Pids
    <3>1. t # KingPID /\ KingPID \notin victims
      BY <2>1, <2>3, <2>4, SMT
    <3> HIDE DEF victims
    <3> QED
      BY <2>1, <2>3, <2>14, <3>1, BoundAssumption, SMT
  <2>6. [pc |-> "kill", target |-> t, todo |-> victims] \in KillCall
    BY <2>5 DEF KillCall
  <2>7. kl' = [kl EXCEPT ![k] = [pc |-> "kill", target |-> t, todo |-> victims]]
    BY <2>1
  <2>8. kl' \in [Killers -> KillCall]
    BY <1>0, <2>6, <2>7
  <2>9. KillInv'
    BY <1>0, <2>2, <2>5, <2>7 DEF TreeInv, KillInv, Allocated, table
  <2>10. TypeOK'
    BY <2>2, <2>8 DEF TreeInv, TypeOK, table
  <2>11. TableInv' /\ SpawnInv' /\ ReapInv'
    BY <2>2 DEF TreeInv, TableInv, SpawnInv, ReapInv, UserInherited, Allocated, table
  <2>12. ParentOlder' /\ TierMonotone' /\ UserMonotone' /\ NameIndexSound' /\ KingSurvives'
    BY <2>2 DEF TreeInv, ParentOlder, TierMonotone, UserMonotone, NameIndexSound,
                KingSurvives, Allocated, table
  <2> QED
    BY <2>9, <2>10, <2>11, <2>12 DEF TreeInv
<1>2. CASE KillDescendant(k) \/ KillTarget(k)
  <2>1. kl[k].pc = "kill" /\ kl[k].target \in Pids \ {KingPID} /\ kl[k].todo \subseteq Pids \ {KingPID}
    BY <1>0, <1>2, BoundAssumption, SMTT(20)
       DEF KillDescendant, KillTarget, TreeInv, TypeOK, KillInv, KillCall, Allocated
  <2>2. PICK d \in Pids \ {KingPID} : SetState(d, "zombie")
    BY <1>2, <2>1 DEF KillDescendant, KillTarget
  <2>3. UNCHANGED <<registered, ppid, attr, byName, nextPID, sp, reap>>
    BY <1>2 DEF KillDescendant, KillTarget
  <2>4. /\ state' \in [Pids -> States]
        /\ scan' \subseteq Pids
        /\ TableInv' /\ SpawnInv' /\ ReapInv'
        /\ ParentOlder' /\ TierMonotone' /\ UserMonotone'
        /\ NameIndexSound' /\ KingSurvives'
    BY <2>2, <2>3, StateStep DEF States
  <2>5. \/ kl' = [kl EXCEPT ![k] = IdleKill]
        \/ \E e \in kl[k].todo : kl' = [kl EXCEPT ![k] = [kl[k] EXCEPT !.todo = kl[k].todo \ {e}]]
    BY <1>0, <1>2 DEF KillDescendant, KillTarget
  <2>6. IdleKill \in KillCall /\ \A e : [kl[k] EXCEPT !.todo = kl[k].todo \ {e}] \in KillCall
    BY <1>0, BoundAssumption, SMT DEF IdleKill, KillCall
  <2>7. kl' \in [Killers -> KillCall]
    BY <1>0, <2>5, <2>6, SMT
  <2>8. TypeOK'
    BY <2>3, <2>4, <2>7 DEF TreeInv, TypeOK
  <2>9. \A j \in Killers :
           \/ kl'[j] = kl[j]
           \/ kl'[j].pc = "idle"
           \/ kl'[j].target = kl[j].target /\ kl'[j].todo \subseteq kl[j].todo /\ kl[j].pc = "kill"
    BY <1>0, <2>1, <2>5, SMT DEF KillCall, IdleKill
  <2>10. KillInv'
    BY <2>3, <2>9 DEF TreeInv, KillInv, Allocated
  <2> QED
    BY <2>4, <2>8, <2>10 DEF TreeInv
<1> QED
  BY <1>1, <1>2 DEF KillStep

\* Exits, restarts and cron wakes keep the invariant.
LEMMA StateChangePreserves ==
    ASSUME TreeInv, ChildExit \/ RestartsExhausted \/ Restarted \/ CronWake
    PROVE  TreeInv'
<1>1. PICK p \in registered, s \in States :
         StateChange(p, s) /\ (p = KingPID => s = "running")
  BY DEF ChildExit, RestartsExhausted, Restarted, CronWake, Agents, States
<1>2. UNCHANGED <<registered, ppid, attr, byName, nextPID, sp, kl, reap>> /\ SetState(p, s)
  BY <1>1 DEF StateChange
<1>3. CASE p # KingPID
  <2>1. p \in Pids \ {KingPID}
    BY <1>3 DEF TreeInv, TypeOK
  <2>2. /\ state' \in [Pids -> States]
        /\ scan' \subseteq Pids
        /\ TableInv' /\ SpawnInv' /\ ReapInv'
        /\ ParentOlder' /\ TierMonotone' /\ UserMonotone'
        /\ NameIndexSound' /\ KingSurvives'
    BY <1>2, <2>1, StateStep
  <2>3. TypeOK' /\ KillInv'
    BY <1>2, <2>2 DEF TreeInv, TypeOK, KillInv, Allocated
  <2> QED
    BY <2>2, <2>3 DEF TreeInv
<1>4. CASE p = KingPID
  <2>1. state' = state /\ scan' = scan
    <3>1. state' = [state EXCEPT ![KingPID] = "running"] /\ scan' = scan \ {KingPID}
      BY <1>1, <1>2, <1>4 DEF SetState
    <3>2. state \in [Pids -> States] /\ state[KingPID] = "running" /\ KingPID \notin scan
      BY DEF TreeInv, TypeOK, KingSurvives, ReapInv
    <3> QED
      BY <3>1, <3>2
  <2>2. UNCHANGED vars
    BY SMTT(30), <1>2, <2>1 DEF vars
  <2> QED
    BY <2>2, StutterPreserves
<1> QED
  BY <1>3, <1>4

-----------------------------------------------------------------------------
(* The reaper *)

\* The steps of reapZombies leave its local state well formed.
LEMMA ReapRecordType ==
    ASSUME NEW r \in ReapCall
    PROVE  /\ r.cur \in PidOr0 /\ r.kids \subseteq Pids
           /\ \A c : [r EXCEPT !.kids = r.kids \ {c}] \in ReapCall
           /\ \A K \in SUBSET Pids : [[r EXCEPT !.pc = "reparent"] EXCEPT !.kids = K] \in ReapCall
  BY DEF ReapCall

\* The steps of the reaper that only choose what to do next.
LEMMA ReapChoicePreserves ==
    ASSUME TreeInv, ReapScan \/ ReapNext \/ ReapChildren
    PROVE  TreeInv'
<1>0. reap \in ReapCall /\ registered \subseteq Pids /\ registered \subseteq Allocated
  BY DEF TreeInv, TypeOK, TableInv
<1>1. UNCHANGED <<table, sp, kl>>
  BY DEF ReapScan, ReapNext, ReapChildren
<1>2. scan' \subseteq Pids /\ reap' \in ReapCall /\ ReapInv'
  <2>1. CASE ReapScan
    <3>1. scan' \subseteq {p \in registered : state[p] = "zombie"} /\ reap' = reap
      BY <2>1 DEF ReapScan
    <3>2. KingPID \notin scan'
      BY <3>1 DEF TreeInv, KingSurvives
    <3> QED
      BY <1>0, <1>1, <3>1, <3>2 DEF TreeInv, ReapInv, Allocated, table
  <2>2. CASE ReapNext
    <3>1. PICK p \in scan : reap' = [pc |-> "children", cur |-> p, kids |-> {}] /\ scan' = scan \ {p}
      BY <2>2 DEF ReapNext
    <3>2. p \in Allocated \ {KingPID} /\ p \in PidOr0
      BY BoundAssumption, SMT DEF TreeInv, TypeOK, ReapInv
    <3>3. reap' \in ReapCall
      BY <3>1, <3>2 DEF ReapCall
    <3> QED
      BY <1>1, <3>1, <3>2, <3>3 DEF TreeInv, TypeOK, ReapInv, Allocated, table
  <2>3. CASE ReapChildren
    <3>1. /\ reap.pc = "children" /\ scan' = scan
          /\ reap' = [[reap EXCEPT !.pc = "reparent"] EXCEPT !.kids = Children(reap.cur)]
      BY <1>0, <2>3 DEF ReapChildren, ReapCall
    <3>2. Children(reap.cur) \subseteq Pids /\ reap.cur \in Allocated \ {KingPID}
      BY <1>0, <3>1 DEF TreeInv, ReapInv, Children
    <3>3. reap' \in ReapCall
      BY <1>0, <3>1, <3>2, ReapRecordType
    <3>4. reap'.cur = reap.cur /\ reap'.kids = Children(reap.cur) /\ reap'.pc = "reparent"
      BY <1>0, <3>1 DEF ReapCall
    <3>5. \A c \in Children(reap.cur) : c \in Allocated \ {KingPID} /\ ppid[c] = reap.cur
      BY <1>0, <3>2, BoundAssumption, SMT
         DEF Children, TreeInv, TypeOK, ParentOlder, Allocated
    <3> QED
      BY <1>1, <3>1, <3>2, <3>3, <3>4, <3>5 DEF TreeInv, TypeOK, ReapInv, Allocated, table
  <2> QED
    BY <2>1, <2>2, <2>3
<1>3. TypeOK'
  BY <1>1, <1>2 DEF TreeInv, TypeOK, table
<1>4. TableInv' /\ SpawnInv' /\ KillInv'
  BY <1>1 DEF TreeInv, TableInv, SpawnInv, KillInv, UserInherited, Allocated, table
<1>5. ParentOlder' /\ TierMonotone' /\ UserMonotone' /\ NameIndexSound' /\ KingSurvives'
  BY <1>1 DEF TreeInv, ParentOlder, TierMonotone, UserMonotone, NameIndexSound,
              KingSurvives, Allocated, table
<1> QED
  BY <1>2, <1>3, <1>4, <1>5 DEF TreeInv

\* The heart of the argument: a child moves from its parent to its
\* grandparent, which is older, at least as capable and, unless it is the
\* kernel, of the same user.
LEMMA ReparentPreserves ==
    ASSUME TreeInv, ReapReparent
    PROVE  TreeInv'
<1>0. reap \in ReapCall /\ reap.pc = "reparent"
  BY DEF TreeInv, TypeOK, ReapReparent
<1>1. PICK c \in reap.kids :
         /\ IF state[c] # "dead" /\ ppid[reap.cur] \in registered /\ c \in registered
            THEN /\ ppid' = [ppid EXCEPT ![c] = ppid[reap.cur]]
                 /\ scan' = scan \ {c}
            ELSE UNCHANGED <<ppid, scan>>
         /\ reap' = [reap EXCEPT !.kids = reap.kids \ {c}]
  BY <1>0 DEF ReapReparent, ReapCall
<1>2. UNCHANGED <<registered, attr, state, byName, nextPID, sp, kl>>
  BY DEF ReapReparent
<1> DEFINE cur == reap.cur
           g   == ppid[cur]
<1>3. /\ c \in Allocated \ {KingPID} /\ cur \in Allocated \ {KingPID}
      /\ ppid[c] = cur /\ c \in Pids
      /\ g \in Allocated /\ g \in Pids
  BY <1>0, <1>1, ParentAllocated, ReapRecordType DEF TreeInv, ReapInv
<1>4. ppid' = ppid \/ ppid' = [ppid EXCEPT ![c] = g]
  BY <1>1
<1>5. ppid \in [Pids -> PidOr0] /\ nextPID \in 2..(MaxPID + 1) /\ Allocated' = Allocated
  BY <1>2 DEF TreeInv, TypeOK, Allocated
<1>6. \A p \in Pids : ppid'[p] = ppid[p] \/ (p = c /\ ppid'[p] = g)
  BY <1>3, <1>4, <1>5
<1>7. reap' \in ReapCall /\ reap'.pc = "reparent" /\ reap'.cur = cur /\ reap'.kids = reap.kids \ {c}
  BY <1>0, <1>1, ReapRecordType DEF ReapCall
<1>8. TypeOK'
  <2>1. ppid' \in [Pids -> PidOr0]
    BY <1>3, <1>4, <1>5, SMT
  <2> QED
    BY <1>1, <1>2, <1>7, <2>1 DEF TreeInv, TypeOK
<1>9. Allocated \subseteq Pids
  BY <1>5, BoundAssumption, SMT DEF Allocated
<1>10. TableInv'
  BY <1>2, <1>3, <1>5, <1>6, <1>9 DEF TreeInv, TableInv
<1>11. SpawnInv' /\ KillInv'
  BY <1>2, <1>5 DEF TreeInv, SpawnInv, KillInv, UserInherited
<1>12. ReapInv'
  BY <1>1, <1>3, <1>5, <1>6, <1>7, <1>9 DEF TreeInv, ReapInv
<1>13. ParentOlder'
  <2>1. g < c
    <3>1. g < cur /\ cur < c
      BY <1>3 DEF TreeInv, ParentOlder
    <3>3. g \in Pids /\ cur \in Pids /\ c \in Pids
      BY <1>3, <1>9
    <3> HIDE DEF g, cur
    <3>2. g \in Nat /\ cur \in Nat /\ c \in Nat
      BY <3>3, BoundAssumption, SMT
    <3> QED
      BY <3>1, <3>2, SMT
  <2> QED
    BY <1>5, <1>6, <1>9, <2>1 DEF TreeInv, ParentOlder
<1>14. TierMonotone'
  <2>1. attr[c].tier >= attr[cur].tier /\ attr[cur].tier >= attr[g].tier
    BY <1>3 DEF TreeInv, TierMonotone
  <2>2. attr[c].tier \in Nat /\ attr[cur].tier \in Nat /\ attr[g].tier \in Nat
    BY <1>3, <1>9, RequestAssumption DEF TreeInv, TypeOK, Attr
  <2>3. attr[c].tier >= attr[g].tier
    BY <2>1, <2>2, SMT
  <2> QED
    BY <1>2, <1>5, <1>6, <1>9, <2>3 DEF TreeInv, TierMonotone
<1>15. UserMonotone'
  <2>1. attr[c].user = attr[cur].user /\ (g # KingPID => attr[cur].user = attr[g].user)
    BY <1>3 DEF TreeInv, UserMonotone
  <2> QED
    BY <1>2, <1>5, <1>6, <1>9, <2>1 DEF TreeInv, UserMonotone
<1>16. NameIndexSound' /\ KingSurvives'
  BY <1>2 DEF TreeInv, NameIndexSound, KingSurvives
<1> QED
  BY <1>8, <1>10, <1>11, <1>12, <1>13, <1>14, <1>15, <1>16 DEF TreeInv

\* Removing the reaped process keeps the invariant.
LEMMA ReapRemovePreserves ==
    ASSUME TreeInv, ReapRemove
    PROVE  TreeInv'
<1>1. /\ reap \in ReapCall /\ reap.pc = "reparent" /\ Remove(reap.cur) /\ reap' = IdleReap
      /\ UNCHANGED <<ppid, attr, state, nextPID, sp, kl, scan>>
  BY DEF TreeInv, TypeOK, ReapRemove
<1>2. reap.cur \in Pids \ {KingPID}
  BY <1>1, BoundAssumption, SMT DEF TreeInv, TypeOK, ReapInv, Allocated
<1>3. /\ registered' \subseteq Pids /\ byName' \in [Names -> PidOr0]
      /\ TableInv' /\ KillInv'
      /\ ParentOlder' /\ TierMonotone' /\ UserMonotone'
      /\ NameIndexSound' /\ KingSurvives'
  BY <1>1, <1>2, RemoveKeeps
<1>4. TypeOK'
  <2>1. reap' \in ReapCall
    BY <1>1, BoundAssumption, SMT DEF IdleReap, ReapCall
  <2> QED
    BY <1>1, <1>3, <2>1 DEF TreeInv, TypeOK
<1>5. SpawnInv' /\ ReapInv'
  BY <1>1 DEF TreeInv, SpawnInv, ReapInv, UserInherited, IdleReap, Allocated
<1> QED
  BY <1>3, <1>4, <1>5 DEF TreeInv

\* Every step on the table keeps the inductive invariant.
LEMMA NextTreeInv == TreeInv /\ [Next]_vars => TreeInv'
<1> SUFFICES ASSUME TreeInv, [Next]_vars PROVE TreeInv'
  OBVIOUS
<1>1. ASSUME NEW s \in Spawners, SpawnStep(s) PROVE TreeInv'
  BY <1>1, SpawnLookupPreserves, SpawnAdvancePreserves, SpawnRegisterPreserves,
     SpawnRollbackPreserves DEF SpawnStep
<1>2. ASSUME NEW k \in Killers, KillStep(k) PROVE TreeInv'
  BY <1>2, KillPreserves
<1>3. CASE ChildExit \/ RestartsExhausted \/ Restarted \/ CronWake
  BY <1>3, StateChangePreserves
<1>4. CASE ReapStep
  BY <1>4, ReapChoicePreserves, ReparentPreserves, ReapRemovePreserves DEF ReapStep
<1>5. CASE UNCHANGED vars
  BY <1>5, StutterPreserves
<1> QED
  BY <1>1, <1>2, <1>3, <1>4, <1>5 DEF Next

\* The inductive invariant holds throughout.
LEMMA TreeInvariant == Spec => []TreeInv
  BY InitTreeInv, NextTreeInv, PTL DEF Spec

-----------------------------------------------------------------------------
(* Main results *)

\* The table, the locals of every SpawnChild and KillChild in progress and
\* those of the reaper keep their types.
THEOREM TypeCorrect == Spec => []TypeOK
<1>1. TreeInv => TypeOK
  BY DEF TreeInv
<1> QED
  BY <1>1, TreeInvariant, PTL

\* The parent chain of every process strictly descends to the kernel, so no
\* interleaving of spawns, kills and reaps can close a cycle on which the
\* registry's walks would not terminate; and the tier and user rules that a
\* spawn checks once survive every reparenting the reaper does without
\* checking them.
THEOREM RulesSurviveReaping == Spec => []ParentRules
<1>1. TreeInv => ParentRules
  BY DEF TreeInv, ParentRules
<1> QED
  BY <1>1, TreeInvariant, PTL

\* Name lookup never answers with a removed or differently named process.
THEOREM NameLookupSound == Spec => []NameIndexSound
<1>1. TreeInv => NameIndexSound
  BY DEF TreeInv
<1> QED
  BY <1>1, TreeInvariant, PTL

\* Neither a kill nor the reaper ever reaches PID 1.
THEOREM KingNeverDies == Spec => []KingSurvives
<1>1. TreeInv => KingSurvives
  BY DEF TreeInv
<1> QED
  BY <1>1, TreeInvariant, PTL

-----------------------------------------------------------------------------
(* No orphans, in a deployment in which nothing brings a process back *)

\* No cron entry wakes a process, no spawn fails after registering, and no
\* process is a daemon (the only role that is restarted or given up as dead).
NoRevival == CronTargets = {} /\ ~LaunchMayFail /\ "daemon" \notin Roles

\* What keeps the table closed under parents: a process found past its
\* timeout stays a zombie until it is removed, a removed process stays a
\* zombie, no spawn in progress holds a process that is being reaped, and the
\* reaper knows every child of the process it reaps.
OrphanInv ==
    /\ NoOrphan
    /\ \A p \in Pids : state[p] # "dead"
    /\ \A p \in Allocated \ registered : state[p] = "zombie"
    /\ \A p \in scan : p \in registered /\ state[p] = "zombie"
    /\ reap.pc # "idle" =>
          reap.cur \in registered /\ state[reap.cur] = "zombie" /\ reap.cur \notin scan
    /\ \A s \in Spawners : sp[s].pc \in {"count", "register"} =>
          /\ sp[s].parent \in registered \ scan
          /\ reap.pc # "idle" => sp[s].parent # reap.cur
    /\ reap.pc = "reparent" => Children(reap.cur) \subseteq reap.kids

\* The strengthening for NoOrphan holds at the start.
LEMMA InitOrphanInv == Init => OrphanInv
<1>1. SUFFICES ASSUME Init PROVE OrphanInv
  OBVIOUS
<1>2. registered = {1} /\ nextPID = 2 /\ scan = {} /\ 1 \in Pids
  BY <1>1, BoundAssumption, SMT DEF Init
<1>3. NoOrphan
  BY <1>2 DEF NoOrphan, Agents
<1>4. \A p \in Pids : state[p] # "dead"
  BY <1>1 DEF Init
<1>5. Allocated \ registered = {}
  BY <1>2, SMT DEF Allocated
<1>6. reap.pc = "idle"
  BY <1>1 DEF Init, IdleReap
<1>7. \A s \in Spawners : sp[s].pc = "idle"
  BY SMTT(30), <1>1 DEF Init, IdleSpawn
<1> QED
  BY <1>2, <1>3, <1>4, <1>5, <1>6, <1>7 DEF OrphanInv

\* Zombifying a process takes nobody's parent away.
LEMMA ZombifyKeepsClosed ==
    ASSUME TreeInv, OrphanInv, NEW p \in Pids, SetState(p, "zombie"),
           UNCHANGED <<registered, ppid, attr, byName, nextPID, sp, reap>>
    PROVE  OrphanInv'
<1>1. state \in [Pids -> States] /\ reap \in ReapCall /\ Allocated \subseteq Pids
  BY BoundAssumption, SMT DEF TreeInv, TypeOK, Allocated
<1>2. /\ \A q \in Pids : state'[q] = state[q] \/ state'[q] = "zombie"
      /\ scan' \subseteq scan
  BY <1>1 DEF SetState
<1>3. registered \subseteq Pids /\ scan \subseteq Pids
  BY DEF TreeInv, TypeOK
<1> QED
  BY <1>1, <1>2, <1>3 DEF OrphanInv, NoOrphan, Agents, Children, Allocated

\* A spawn that is not rolled back registers its child under a registered parent.
LEMMA SpawnKeepsClosed ==
    ASSUME NoRevival, TreeInv, OrphanInv, NEW s \in Spawners, SpawnStep(s)
    PROVE  OrphanInv'
<1>0. /\ sp \in [Spawners -> SpawnCall]
      /\ registered \subseteq Pids /\ scan \subseteq Pids
      /\ registered \subseteq Allocated
      /\ reap \in ReapCall
  BY DEF TreeInv, TypeOK, TableInv
<1>1. CASE SpawnLookup(s) \/ SpawnCheck(s) \/ SpawnCount(s) \/ SpawnDone(s)
  <2>1. UNCHANGED <<table, kl, scan, reap>>
    BY <1>1 DEF SpawnLookup, SpawnCheck, SpawnCount, SpawnDone
  <2>2. \A r \in Spawners : sp'[r].pc \in {"count", "register"} =>
           /\ sp'[r].parent = sp[r].parent
           /\ \/ sp[r].pc \in {"count", "register"}
              \/ sp[r].pc = "check" /\ ParentAlive(sp[r].parent)
    BY SMTT(30), <1>0, <1>1 DEF SpawnLookup, SpawnCheck, SpawnCount, SpawnDone, SpawnCall, IdleSpawn
  <2>3. \A r \in Spawners : sp[r].pc = "check" /\ ParentAlive(sp[r].parent) =>
           /\ sp[r].parent \in registered \ scan
           /\ reap.pc # "idle" => sp[r].parent # reap.cur
    BY SMTT(30) DEF TreeInv, SpawnInv, OrphanInv, ParentAlive
  <2>4. \A r \in Spawners : sp'[r].pc \in {"count", "register"} =>
           /\ sp'[r].parent \in registered \ scan
           /\ reap.pc # "idle" => sp'[r].parent # reap.cur
    BY <2>2, <2>3 DEF OrphanInv
  <2> QED
    BY <2>1, <2>4 DEF OrphanInv, NoOrphan, Agents, Children, Allocated, table
<1>2. CASE SpawnRegister(s)
  <2> DEFINE parent == sp[s].parent
  <2>1. /\ registered' = registered \cup {nextPID}
        /\ ppid' = [ppid EXCEPT ![nextPID] = parent]
        /\ state' = [state EXCEPT ![nextPID] = "idle"]
        /\ nextPID' = nextPID + 1
        /\ sp' = [sp EXCEPT ![s].pc = "launch", ![s].pid = nextPID]
        /\ sp[s].pc = "register"
        /\ UNCHANGED <<kl, scan, reap>>
    BY <1>2 DEF SpawnRegister, Register
  <2>2. /\ nextPID \in Pids /\ nextPID \notin Allocated
        /\ Allocated' = Allocated \cup {nextPID} /\ Allocated \subseteq Pids
    BY <1>2, <2>1, BoundAssumption, SMT DEF TreeInv, TypeOK, SpawnRegister, Register, Allocated
  <2>3. /\ \A q \in Pids \ {nextPID} : ppid'[q] = ppid[q] /\ state'[q] = state[q]
        /\ ppid'[nextPID] = parent /\ state'[nextPID] = "idle"
    BY <2>1, <2>2 DEF TreeInv, TypeOK
  <2>4. /\ parent \in registered \ scan
        /\ reap.pc # "idle" => parent # reap.cur
    BY <2>1 DEF OrphanInv
  <2>5. \A r \in Spawners : sp'[r].pc \in {"count", "register"} =>
           sp[r].pc \in {"count", "register"} /\ sp'[r].parent = sp[r].parent
    BY <1>0, <2>1 DEF SpawnCall
  <2>6. nextPID \notin registered /\ nextPID \notin scan /\ (reap.pc # "idle" => reap.cur # nextPID)
    BY <1>0, <2>2 DEF OrphanInv
  <2>7. NoOrphan'
    BY <1>0, <2>1, <2>2, <2>3, <2>4, <2>6, SMT DEF OrphanInv, NoOrphan, Agents
  <2>8. /\ \A p \in Pids : state'[p] # "dead"
        /\ \A p \in Allocated' \ registered' : state'[p] = "zombie"
        /\ \A p \in scan' : p \in registered' /\ state'[p] = "zombie"
    BY <1>0, <2>1, <2>2, <2>3, <2>6, SMT DEF OrphanInv
  <2>9. reap.pc # "idle" =>
          reap.cur \in registered' /\ state'[reap.cur] = "zombie" /\ reap.cur \notin scan'
    BY <1>0, <2>1, <2>3, <2>6 DEF OrphanInv
  <2>10. \A r \in Spawners : sp'[r].pc \in {"count", "register"} =>
          /\ sp'[r].parent \in registered' \ scan'
          /\ reap.pc # "idle" => sp'[r].parent # reap.cur
    <3>1. \A r \in Spawners : sp[r].pc \in {"count", "register"} =>
             /\ sp[r].parent \in registered \ scan
             /\ reap.pc # "idle" => sp[r].parent # reap.cur
      BY DEF OrphanInv
    <3>2. registered \subseteq registered' /\ scan' = scan
      BY <2>1
    <3> QED
      BY <2>5, <3>1, <3>2
  <2>11. reap.pc = "reparent" => Children(reap.cur)' \subseteq reap.kids
    <3>1. ASSUME reap.pc = "reparent", NEW q \in registered', ppid'[q] = reap.cur, q # reap.cur
          PROVE  q \in reap.kids
      <4>1. q # nextPID
        BY <2>3, <2>4, <3>1
      <4>2. q \in Children(reap.cur)
        BY <1>0, <2>1, <2>3, <3>1, <4>1 DEF Children
      <4> QED
        BY <3>1, <4>2 DEF OrphanInv
    <3> QED
      BY <2>1, <3>1 DEF Children
  <2> QED
    BY <2>1, <2>7, <2>8, <2>9, <2>10, <2>11 DEF OrphanInv
<1>3. ~SpawnRollback(s)
  BY DEF NoRevival, SpawnRollback
<1> QED
  BY <1>1, <1>2, <1>3 DEF SpawnStep

\* A kill only zombifies.
LEMMA KillKeepsClosed ==
    ASSUME TreeInv, OrphanInv, NEW k \in Killers, KillStep(k)
    PROVE  OrphanInv'
<1>0. kl[k] \in KillCall
  BY DEF TreeInv, TypeOK
<1>1. CASE KillStart(k)
  BY <1>1 DEF KillStart, OrphanInv, NoOrphan, Agents, Children, Allocated, table
<1>2. CASE KillDescendant(k) \/ KillTarget(k)
  <2>1. kl[k].target \in Pids /\ kl[k].todo \subseteq Pids
    BY SMTT(30), <1>0, <1>2, BoundAssumption
       DEF KillDescendant, KillTarget, TreeInv, TypeOK, KillInv, KillCall, Allocated
  <2>2. PICK d \in Pids : SetState(d, "zombie")
    BY <1>2, <2>1 DEF KillDescendant, KillTarget
  <2>3. UNCHANGED <<registered, ppid, attr, byName, nextPID, sp, reap>>
    BY <1>2 DEF KillDescendant, KillTarget
  <2> QED
    BY <2>2, <2>3, ZombifyKeepsClosed
<1> QED
  BY <1>1, <1>2 DEF KillStep

\* An exit only zombifies.
LEMMA ExitKeepsClosed ==
    ASSUME NoRevival, TreeInv, OrphanInv,
           ChildExit \/ RestartsExhausted \/ Restarted \/ CronWake
    PROVE  OrphanInv'
<1>1. \A p \in Agents : p \in Pids /\ attr[p].role # "daemon"
  BY DEF NoRevival, Agents, TreeInv, TypeOK, TableInv
<1>2. PICK p \in Pids : StateChange(p, "zombie")
  BY <1>1 DEF NoRevival, ChildExit, RestartsExhausted, Restarted, CronWake
<1> QED
  BY <1>2, ZombifyKeepsClosed DEF StateChange

\* The reaper removes a process only when it has no child left.
LEMMA ReapKeepsClosed ==
    ASSUME TreeInv, OrphanInv, ReapStep
    PROVE  OrphanInv'
<1>0. /\ reap \in ReapCall
      /\ registered \subseteq Pids /\ registered \subseteq Allocated
      /\ ppid \in [Pids -> PidOr0]
      /\ KingPID \in registered
  BY DEF TreeInv, TypeOK, TableInv, KingSurvives
<1>1. CASE ReapScan
  BY <1>1 DEF ReapScan, SpawningUnder, OrphanInv, NoOrphan, Agents, Children, Allocated, table
<1>2. CASE ReapNext
  BY SMTT(30), <1>2 DEF ReapNext, OrphanInv, NoOrphan, Agents, Children, Allocated, table
<1>3. CASE ReapChildren
  <2>1. /\ reap.pc = "children" /\ UNCHANGED <<table, sp, kl, scan>>
        /\ reap'.pc = "reparent" /\ reap'.cur = reap.cur /\ reap'.kids = Children(reap.cur)
    BY <1>0, <1>3 DEF ReapChildren, ReapCall
  <2> QED
    BY <2>1 DEF OrphanInv, NoOrphan, Agents, Children, Allocated, table
<1>4. CASE ReapReparent
  <2>1. PICK c \in reap.kids :
           /\ IF state[c] # "dead" /\ ppid[reap.cur] \in registered /\ c \in registered
              THEN /\ ppid' = [ppid EXCEPT ![c] = ppid[reap.cur]]
                   /\ scan' = scan \ {c}
              ELSE UNCHANGED <<ppid, scan>>
           /\ reap' = [reap EXCEPT !.kids = reap.kids \ {c}]
    BY <1>0, <1>4 DEF ReapReparent, ReapCall
  <2>2. /\ reap.pc = "reparent" /\ reap'.pc = "reparent" /\ reap'.cur = reap.cur
        /\ reap'.kids = reap.kids \ {c}
        /\ UNCHANGED <<registered, attr, state, byName, nextPID, sp, kl>>
    BY <1>0, <1>4, <2>1 DEF ReapReparent, ReapCall
  <2>3. /\ reap.cur \in registered \ {KingPID} /\ ppid[reap.cur] \in registered
        /\ ppid[reap.cur] # reap.cur /\ state[c] # "dead" /\ c \in Pids
    <3>1. reap.cur \in registered \ {KingPID} /\ reap.kids \subseteq Pids
      BY <1>0, <2>2, ReapRecordType DEF OrphanInv, TreeInv, ReapInv
    <3>2. ppid[reap.cur] < reap.cur
      BY <1>0, <3>1 DEF TreeInv, ParentOlder
    <3>3. ppid[reap.cur] # reap.cur
      <4>1. reap.cur \in Pids /\ ppid[reap.cur] \in PidOr0
        BY <1>0, <3>1
      <4>2. \A m \in PidOr0, n \in Pids : m < n => m # n
        BY BoundAssumption, SMT
      <4> QED
        BY <3>2, <4>1, <4>2
    <3> QED
      BY <2>1, <3>1, <3>3 DEF OrphanInv, NoOrphan, Agents
  <2>4. /\ scan' \subseteq scan
        /\ \A q \in registered \ {c} : ppid'[q] = ppid[q]
        /\ c \in registered => ppid'[c] = ppid[reap.cur]
    BY <1>0, <2>1, <2>3
  <2>5. NoOrphan'
    BY <2>2, <2>3, <2>4 DEF OrphanInv, NoOrphan, Agents
  <2>6. Children(reap.cur)' \subseteq reap.kids \ {c}
    BY <2>2, <2>3, <2>4 DEF OrphanInv, Children
  <2> QED
    BY <2>2, <2>4, <2>5, <2>6 DEF OrphanInv, Children, Allocated
<1>5. CASE ReapRemove
  <2>1. /\ reap.pc = "reparent" /\ reap.kids = {} /\ reap' = IdleReap
        /\ UNCHANGED <<ppid, attr, state, nextPID, sp, kl, scan>>
    BY SMTT(30), <1>5 DEF ReapRemove
  <2>2. registered' = registered \ {reap.cur}
    BY SMTT(30), <1>5, <2>1 DEF ReapRemove, Remove, OrphanInv
  <2>3. \A q \in registered \ {reap.cur} : ppid[q] # reap.cur
    BY <2>1 DEF OrphanInv, Children
  <2>4. NoOrphan'
    BY <2>1, <2>2, <2>3 DEF OrphanInv, NoOrphan, Agents
  <2> QED
    BY <2>1, <2>2, <2>4 DEF OrphanInv, IdleReap, Allocated
<1> QED
  BY <1>1, <1>2, <1>3, <1>4, <1>5 DEF ReapStep

\* Where nothing brings a process back, every process in the table always has
\* its parent in the table, through any interleaving of spawns, kills, exits
\* and the separate critical sections of the reaper.
THEOREM TableStaysClosed ==
    ASSUME NoRevival
    PROVE  Spec => []NoOrphan
<1>1. TreeInv /\ OrphanInv /\ [Next]_vars => OrphanInv'
  <2> SUFFICES ASSUME TreeInv, OrphanInv, [Next]_vars PROVE OrphanInv'
    OBVIOUS
  <2>1. ASSUME NEW s \in Spawners, SpawnStep(s) PROVE OrphanInv'
    BY <2>1, SpawnKeepsClosed
  <2>2. ASSUME NEW k \in Killers, KillStep(k) PROVE OrphanInv'
    BY <2>2, KillKeepsClosed
  <2>3. CASE ChildExit \/ RestartsExhausted \/ Restarted \/ CronWake
    BY <2>3, ExitKeepsClosed
  <2>4. CASE ReapStep
    BY <2>4, ReapKeepsClosed
  <2>5. CASE UNCHANGED vars
    BY <2>5 DEF vars, OrphanInv, NoOrphan, Agents, Children, Allocated
  <2> QED
    BY <2>1, <2>2, <2>3, <2>4, <2>5 DEF Next
<1>2. OrphanInv => NoOrphan
  BY DEF OrphanInv
<1> QED
  BY <1>1, <1>2, InitOrphanInv, TreeInvariant, PTL DEF Spec

-----------------------------------------------------------------------------
(* The maid's scan *)

\* A PID below the scan's position that was looked up without failing and was
\* not found is gone for good if it had been handed out when the scan began;
\* every parent among the answers was answered, failed or is newer than that.
MaidInv ==
    /\ maid \in Scan
    /\ maid.pc = "idle" => maid = IdleScan
    /\ maid.at <= MaxPidScan /\ maid.born <= nextPID
    /\ \A q \in Pids :
          q < maid.at /\ q < maid.born /\ q \notin maid.found \cup maid.failed
              => q \notin registered
    /\ \A p \in maid.found :
          \/ maid.par[p] = NoPID
          \/ maid.par[p] \in maid.found \cup maid.failed
          \/ maid.par[p] >= maid.born

\* The table gains no PID but the next one, and the counter never goes back.
LEMMA OnlyNextIsAdded ==
    ASSUME TreeInv, [Next]_vars
    PROVE  registered' \subseteq registered \cup {nextPID} /\ nextPID' >= nextPID
<1>0. nextPID \in Nat
  BY BoundAssumption, SMT DEF TreeInv, TypeOK
<1>1. ASSUME NEW s \in Spawners, SpawnStep(s)
      PROVE  registered' \subseteq registered \cup {nextPID} /\ nextPID' >= nextPID
  BY <1>0, <1>1, SMT DEF SpawnStep, SpawnLookup, SpawnCheck, SpawnCount, SpawnRegister,
                    Register, SpawnDone, SpawnRollback, Remove, table
<1>2. ASSUME NEW k \in Killers, KillStep(k)
      PROVE  registered' \subseteq registered \cup {nextPID} /\ nextPID' >= nextPID
  BY <1>0, <1>2, SMT DEF KillStep, KillStart, KillDescendant, KillTarget, table
<1>3. CASE ChildExit \/ RestartsExhausted \/ Restarted \/ CronWake
  BY <1>0, <1>3, SMT DEF ChildExit, RestartsExhausted, Restarted, CronWake, StateChange
<1>4. CASE ReapStep
  BY <1>0, <1>4, SMT DEF ReapStep, ReapScan, ReapNext, ReapChildren, ReapReparent,
                    ReapRemove, Remove, table
<1>5. CASE UNCHANGED vars
  BY <1>0, <1>5, SMT DEF vars
<1> QED
  BY <1>1, <1>2, <1>3, <1>4, <1>5 DEF Next

\* The idle scan is a scan of which nothing is claimed.
LEMMA IdleScanType == IdleScan \in Scan
  BY BoundAssumption, SMT DEF IdleScan, Scan, Pids, PidOr0, NoPID, States

\* An idle maid claims nothing.
LEMMA IdleMaidInv ==
    ASSUME TreeInv, maid' = IdleScan, UNCHANGED vars
    PROVE  MaidInv'
<1>1. nextPID' \in Nat /\ nextPID' >= 1
  BY BoundAssumption, SMT DEF TreeInv, TypeOK, vars
<1>2. maid'.at = 1 /\ maid'.found = {} /\ maid'.born = 1
  BY DEF IdleScan
<1>3. maid' \in Scan
  BY IdleScanType
<1>4. 1 <= MaxPidScan
  BY ScanAssumption, BoundAssumption, SMT
<1> QED
  BY <1>1, <1>2, <1>3, <1>4, SMT DEF MaidInv

\* A step of the table leaves the claims of the scan true.
LEMMA TableKeepsMaid ==
    ASSUME TreeInv, MaidInv, [Next]_vars, UNCHANGED maid
    PROVE  MaidInv'
<1>1. registered' \subseteq registered \cup {nextPID} /\ nextPID' >= nextPID
  BY OnlyNextIsAdded
<1>3. maid.born \in Nat
  BY BoundAssumption, SMT DEF MaidInv, Scan
<1>4. TypeOK'
  BY NextTreeInv DEF TreeInv
<1>5. nextPID \in Nat /\ nextPID' \in Nat
  BY <1>4, BoundAssumption, SMT DEF TreeInv, TypeOK
<1>6. maid.born <= nextPID'
  BY <1>1, <1>3, <1>5, SMT DEF MaidInv
<1>7. \A q \in Pids : q < maid.born => q # nextPID
  BY <1>3, <1>5, SMT DEF MaidInv, Pids
<1> QED
  BY <1>1, <1>6, <1>7 DEF MaidInv

\* Going on to the next PID, or to the report, leaves the answers alone.
LEMMA AdvanceStep ==
    ASSUME NEW m \in Scan, m.pc = "scan", m.at <= MaxPidScan
    PROVE  /\ Advance(m) \in Scan /\ Advance(m).pc # "idle"
           /\ Advance(m).at <= MaxPidScan /\ Advance(m).at <= m.at + 1
           /\ Advance(m).born = m.born /\ Advance(m).found = m.found
           /\ Advance(m).failed = m.failed /\ Advance(m).par = m.par
<1>1. m.at \in Nat /\ 1 <= m.at /\ MaxPidScan \in Pids /\ MaxPID \in Nat
  BY BoundAssumption, ScanAssumption, SMT DEF Scan
<1>2. CASE m.at = MaxPidScan
  <2>1. Advance(m) = [m EXCEPT !.pc = "store"]
    BY <1>2 DEF Advance
  <2>2. Advance(m) \in Scan
    BY <2>1 DEF Scan
  <2>3. /\ Advance(m).pc = "store" /\ Advance(m).at = m.at /\ Advance(m).born = m.born
        /\ Advance(m).found = m.found /\ Advance(m).failed = m.failed
        /\ Advance(m).par = m.par
    BY <2>1 DEF Scan
  <2> QED
    BY <2>2, <2>3, <1>1, <1>2, SMT
<1>3. CASE m.at # MaxPidScan
  <2>1. Advance(m) = [m EXCEPT !.at = m.at + 1]
    BY <1>3 DEF Advance
  <2>2. m.at + 1 \in 1..(MaxPID + 1) /\ m.at + 1 <= MaxPidScan
    BY <1>1, <1>3, SMT
  <2>3. Advance(m) \in Scan
    BY <2>1, <2>2 DEF Scan
  <2>4. /\ Advance(m).pc = "scan" /\ Advance(m).at = m.at + 1 /\ Advance(m).born = m.born
        /\ Advance(m).found = m.found /\ Advance(m).failed = m.failed
        /\ Advance(m).par = m.par
    BY <2>1 DEF Scan
  <2> QED
    BY <2>2, <2>3, <2>4, <1>1, SMT
<1> QED
  BY <1>2, <1>3

\* One lookup of the scan, answered or not.
LEMMA LookupKeepsMaid ==
    ASSUME TreeInv, NoOrphan, MaidInv, Probe \/ ProbeFails, UNCHANGED vars
    PROVE  MaidInv'
<1> DEFINE p == maid.at
<1>1. /\ maid \in Scan /\ maid.pc = "scan" /\ p \in Nat /\ maid.born \in Nat
      /\ nextPID \in Nat /\ MaxPidScan \in Pids /\ MaxPID \in Nat \ {0}
  BY BoundAssumption, ScanAssumption, SMTT(20) DEF MaidInv, Scan, Probe, ProbeFails, TreeInv, TypeOK
<1>2. /\ registered \subseteq Allocated /\ registered \subseteq Pids /\ ParentOlder
      /\ ppid \in [Pids -> PidOr0] /\ state \in [Pids -> States]
  BY DEF TreeInv, TableInv, TypeOK
<1>3. p \in Pids /\ p <= MaxPidScan
  BY <1>1, SMT DEF MaidInv, Scan
<1> DEFINE found == IF Probe /\ p \in registered THEN maid.found \cup {p} ELSE maid.found
           failed == IF Probe THEN maid.failed ELSE maid.failed \cup {p}
           m == IF Probe
                THEN IF p \in registered THEN Answered(p) ELSE maid
                ELSE [maid EXCEPT !.failed = maid.failed \cup {p}]
<1>4. maid' = Advance(m)
  BY DEF Probe, ProbeFails, PidAt
<1>5. /\ m \in Scan /\ m.pc = "scan" /\ m.at = p /\ m.born = maid.born
      /\ m.found = found /\ m.failed = failed
  BY <1>1, <1>2, <1>3 DEF Scan, Answered
<1>6. \/ m.par = maid.par /\ found = maid.found
      \/ p \in registered /\ m.par = [maid.par EXCEPT ![p] = ppid[p]]
  BY <1>1 DEF Scan, Answered
<1>7. /\ maid' \in Scan /\ maid'.pc # "idle" /\ maid'.at <= MaxPidScan
      /\ maid'.at <= p + 1
      /\ maid'.born = maid.born /\ maid'.found = found /\ maid'.failed = failed
      /\ maid'.par = m.par
  BY <1>3, <1>4, <1>5, AdvanceStep
<1>8. UNCHANGED <<registered, nextPID>>
  BY DEF vars
<1>9. ASSUME NEW q \in Pids, q < maid'.at, q < maid.born, q \notin found \cup failed
      PROVE  q \notin registered
  <2>1. CASE q = p
    BY <2>1, <1>9
  <2>2. CASE q # p
    <3>1. maid'.at \in Nat
      BY <1>1, <1>7, SMT DEF Scan
    <3>2. q < p
      BY <2>2, <3>1, <1>1, <1>7, <1>9, SMT
    <3>3. q \notin maid.found \cup maid.failed
      BY <1>9
    <3> QED
      BY <3>2, <3>3, <1>9 DEF MaidInv
  <2> QED
    BY <2>1, <2>2
<1>10. ASSUME NEW c \in found
       PROVE  \/ m.par[c] = NoPID
              \/ m.par[c] \in found \cup failed
              \/ m.par[c] >= maid.born
  <2>1. CASE c \in maid.found /\ m.par[c] = maid.par[c]
    BY <2>1, SMT DEF MaidInv
  <2>2. CASE c = p /\ p \in registered /\ m.par[p] = ppid[p]
    <3>1. p # KingPID => ppid[p] \in registered
      BY <2>2 DEF NoOrphan, Agents
    <3>2. ppid[p] < p /\ ppid[p] \in Nat
      <4>1. ppid[p] \in PidOr0 /\ ppid[p] < p
        BY <2>2, <1>2, <1>3 DEF ParentOlder
      <4> QED
        BY <4>1, <1>1, SMT
    <3>3. p = KingPID => ppid[p] = NoPID
      BY <3>2, SMT
    <3>4. ppid[p] \in registered /\ ppid[p] < maid.born => ppid[p] \in maid.found \cup maid.failed
      BY <1>2, <3>2 DEF MaidInv
    <3> QED
      BY <2>2, <1>1, <3>1, <3>2, <3>3, <3>4, SMT
  <2> QED
    BY SMTT(30), <1>1, <1>5, <1>6, <2>1, <2>2 DEF Scan
<1> QED
  BY <1>7, <1>8, <1>9, <1>10 DEF MaidInv

\* The scan of a daemon that reports on the table of NoRevival never calls an
\* older process parentless: MissingParentIsNew for any number of processes,
\* spawners, killers and any length of the scan.
THEOREM OrphanVerdictSound ==
    ASSUME NoRevival
    PROVE  MaidSpec => []MissingParentIsNew
<1>1. MaidInit => MaidInv
  <2> SUFFICES ASSUME MaidInit PROVE MaidInv
    OBVIOUS
  <2>1. maid = IdleScan /\ maid.at = 1 /\ maid.found = {} /\ maid.born = 1 /\ nextPID = 2
    BY SMT DEF MaidInit, Init, IdleScan
  <2>2. 1 <= MaxPidScan
    BY ScanAssumption, BoundAssumption, SMT
  <2> QED
    BY <2>1, <2>2, IdleScanType, SMT DEF MaidInv
<1>2. TreeInv /\ NoOrphan /\ MaidInv /\ [MaidNext]_maidVars => MaidInv'
  <2> SUFFICES ASSUME TreeInv, NoOrphan, MaidInv, [MaidNext]_maidVars PROVE MaidInv'
    OBVIOUS
  <2>1. CASE Next /\ UNCHANGED maid
    BY <2>1, TableKeepsMaid
  <2>2. CASE UNCHANGED maidVars
    BY <2>2, TableKeepsMaid DEF maidVars, vars
  <2>3. CASE Wake /\ UNCHANGED vars
    <3>1. maid = IdleScan /\ maid' = [IdleScan EXCEPT !.pc = "scan", !.born = nextPID]
      BY <2>3 DEF Wake, MaidInv
    <3>2. nextPID \in 1..(MaxPID + 1) /\ UNCHANGED <<nextPID, registered>>
      BY <2>3, BoundAssumption, SMT DEF TreeInv, TypeOK, vars
    <3>3. maid' \in Scan /\ maid'.pc = "scan" /\ maid'.at = 1 /\ maid'.born = nextPID /\ maid'.found = {}
      BY <3>1, <3>2, IdleScanType DEF IdleScan, Scan
    <3>4. 1 <= MaxPidScan /\ nextPID <= nextPID
      BY <3>2, ScanAssumption, BoundAssumption, SMT
    <3> QED
      BY <3>2, <3>3, <3>4, SMT DEF MaidInv
  <2>4. CASE (Probe \/ ProbeFails) /\ UNCHANGED vars
    BY <2>4, LookupKeepsMaid
  <2>5. CASE (Escalate \/ Stop) /\ UNCHANGED vars
    BY <2>5, IdleMaidInv DEF Escalate, Stop
  <2>6. CASE Store /\ UNCHANGED vars
    <3>1. CASE maid' = IdleScan
      BY <2>6, <3>1, IdleMaidInv
    <3>2. CASE maid' = [maid EXCEPT !.pc = "escalate"]
      <4>1. /\ maid' \in Scan /\ maid'.pc # "idle" /\ maid'.at = maid.at /\ maid'.born = maid.born
            /\ maid'.found = maid.found /\ maid'.failed = maid.failed /\ maid'.par = maid.par
        BY <3>2 DEF MaidInv, Scan
      <4>2. UNCHANGED <<nextPID, registered>>
        BY <2>6 DEF vars
      <4> QED
        BY <4>1, <4>2 DEF MaidInv
    <3> QED
      BY <2>6, <3>1, <3>2 DEF Store
  <2> QED
    BY <2>1, <2>2, <2>3, <2>4, <2>5, <2>6 DEF MaidNext, MaidStep
<1>3. MaidInv => MissingParentIsNew
  BY DEF MaidInv, MissingParentIsNew, Adrift
<1>4. MaidSpec => Spec
  <2>1. MaidInit => Init
    BY DEF MaidInit
  <2>2. [MaidNext]_maidVars => [Next]_vars
    BY DEF MaidNext, maidVars, vars
  <2> QED
    BY <2>1, <2>2, PTL DEF MaidSpec, Spec
<1>5. Spec => []NoOrphan
  BY TableStaysClosed
<1> QED
  BY <1>1, <1>2, <1>3, <1>4, <1>5, TreeInvariant, PTL DEF MaidSpec
=============================================================================
