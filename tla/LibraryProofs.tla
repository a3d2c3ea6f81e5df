--------------------------- MODULE LibraryProofs ---------------------------
(***************************************************************************)
(* Theorems about the two libraries below the programs, HandleCache and    *)
(* RotatingLog. They share nothing: each theorem is about the              *)
(* specification of one of them, for any values of its constants.          *)
(***************************************************************************)
EXTENDS HandleCache, RotatingLog, FiniteSetTheorems, TLAPS

-----------------------------------------------------------------------------
(* HandleCache.                                                            *)

(* The steps taken with the lock.                                          *)
Locked == {"check", "open", "assign", "slot", "close", "delete"}

(* Only the holder is past Lock.                                           *)
LockInv == \A c \in Procs : pc[c] \in Locked => holder = c

(* What a goroutine with the lock knows of its name.                       *)
StepInv ==
  \A c \in Procs :
    /\ pc[c] \in {"open", "assign", "slot"} => dbMap[name[c]] = 0
    /\ pc[c] \in {"assign", "slot"} => <<name[c], made[name[c]]>> \in open
    /\ pc[c] = "delete" => <<name[c], dbMap[name[c]]>> \notin open
    /\ pc[c] \in {"close", "delete"} => c \in Closers

(* Opened and not yet in the map; closed and still in the map.             *)
Pending  == {<<name[c], made[name[c]]>> : c \in {d \in Procs : pc[d] \in {"assign", "slot"}}}
Deleting == {<<name[c], dbMap[name[c]]>> : c \in {d \in Procs : pc[d] = "delete"}}
Dead     == (Cached \ open) \ Deleting

OpenInv == open \subseteq Cached \cup Pending
DeadInv == IsFiniteSet(Dead) /\ Cardinality(Dead) <= closeFails

(* Before the first Close what a caller was given is what the map has.     *)
NoClose == \A d \in Closers : calls[d] = 0
GotInv  == /\ \A d \in Closers : calls[d] = 0 => pc[d] = "idle"
           /\ NoClose => \A c \in Callers : \A g \in got[c] : dbMap[g[1]] = g[2]

IInv == TypeOK /\ LockInv /\ StepInv /\ OpenInv /\ DeadInv /\ GotInv

-----------------------------------------------------------------------------
LEMMA InitIInv == ASSUME ConstantsOK, Init PROVE IInv
<1>1. TypeOK BY DEF Init, TypeOK, Procs
<1>2. LockInv /\ StepInv BY DEF Init, LockInv, StepInv, Locked
<1>3. Cached = {} BY DEF Init, Cached
<1>4. OpenInv BY DEF Init, OpenInv
<1>5. DeadInv
  <2>1. Dead = {} BY <1>3 DEF Dead
  <2> QED BY <2>1, FS_EmptySet DEF DeadInv, Init
<1>6. GotInv BY DEF Init, GotInv, NoClose, Procs
<1> QED BY <1>1, <1>2, <1>4, <1>5, <1>6 DEF IInv

LEMMA NextTypeOK == ASSUME ConstantsOK, TypeOK, LockInv, StepInv, [Next]_vars PROVE TypeOK'
<1> USE DEF TypeOK, Goto, Return, ReturnDB, Rest, Map, Unlock, At, Finds
<1>1. CASE UNCHANGED vars BY <1>1 DEF vars
<1>2. ASSUME NEW c \in Procs, Call(c) PROVE TypeOK' BY <1>2 DEF Call
<1>3. ASSUME NEW c \in Procs, PeekGet(c) PROVE TypeOK'
  <2>1. CASE Finds(c) /\ ReturnDB(c, dbMap[name[c]]) /\ UNCHANGED fatal
    <3>1. dbMap[name[c]] \in Nat \ {0} BY <2>1
    <3> QED BY <1>3, <2>1, <3>1 DEF PeekGet
  <2>2. CASE Goto(c, "lock") /\ UNCHANGED <<got, fatal>> BY <1>3, <2>2 DEF PeekGet
  <2>3. CASE Fatal /\ UNCHANGED <<pc, got>> BY <1>3, <2>3 DEF PeekGet, Fatal
  <2> QED BY <1>3, <2>1, <2>2, <2>3 DEF PeekGet
<1>4. ASSUME NEW c \in Procs, PeekClose(c) PROVE TypeOK' BY <1>4 DEF PeekClose, Fatal
<1>5. ASSUME NEW c \in Procs, Lock(c) PROVE TypeOK' BY <1>5 DEF Lock
<1>6. ASSUME NEW c \in Procs, CheckGet(c) PROVE TypeOK' BY <1>6 DEF CheckGet
<1>7. ASSUME NEW c \in Procs, Open(c) PROVE TypeOK' BY <1>7 DEF Open, Opens
<1>8. ASSUME NEW c \in Procs, Assign(c) PROVE TypeOK' BY <1>8 DEF Assign
<1>9. ASSUME NEW c \in Procs, Store(c) PROVE TypeOK'
  <2>1. made[name[c]] \in Nat \ {0} BY <1>9 DEF Store, StepInv
  <2> QED BY <1>9, <2>1 DEF Store
<1>10. ASSUME NEW c \in Procs, CheckClose(c) PROVE TypeOK' BY <1>10 DEF CheckClose
<1>11. ASSUME NEW c \in Procs, CloseHandle(c) PROVE TypeOK' BY <1>11 DEF CloseHandle
<1>12. ASSUME NEW c \in Procs, Delete(c) PROVE TypeOK' BY <1>12 DEF Delete
<1> QED BY <1>1, <1>2, <1>3, <1>4, <1>5, <1>6, <1>7, <1>8, <1>9, <1>10, <1>11, <1>12
        DEF Next, Step

LEMMA NextLockInv == ASSUME ConstantsOK, TypeOK, LockInv, [Next]_vars PROVE LockInv'
<1> USE DEF TypeOK, LockInv, Locked, Goto, Return, ReturnDB, Rest, Map, Unlock, At
<1>1. CASE UNCHANGED vars BY <1>1 DEF vars
<1>2. ASSUME NEW c \in Procs, Call(c) PROVE LockInv' BY <1>2 DEF Call
<1>3. ASSUME NEW c \in Procs, PeekGet(c) PROVE LockInv' BY <1>3 DEF PeekGet
<1>4. ASSUME NEW c \in Procs, PeekClose(c) PROVE LockInv' BY <1>4 DEF PeekClose
<1>5. ASSUME NEW c \in Procs, Lock(c) PROVE LockInv'
  BY <1>5 DEF Lock, ConstantsOK, Procs
<1>6. ASSUME NEW c \in Procs, CheckGet(c) PROVE LockInv' BY <1>6 DEF CheckGet
<1>7. ASSUME NEW c \in Procs, Open(c) PROVE LockInv' BY <1>7 DEF Open, Opens
<1>8. ASSUME NEW c \in Procs, Assign(c) PROVE LockInv' BY <1>8 DEF Assign
<1>9. ASSUME NEW c \in Procs, Store(c) PROVE LockInv' BY <1>9 DEF Store
<1>10. ASSUME NEW c \in Procs, CheckClose(c) PROVE LockInv' BY <1>10 DEF CheckClose
<1>11. ASSUME NEW c \in Procs, CloseHandle(c) PROVE LockInv' BY <1>11 DEF CloseHandle
<1>12. ASSUME NEW c \in Procs, Delete(c) PROVE LockInv' BY <1>12 DEF Delete
<1> QED BY <1>1, <1>2, <1>3, <1>4, <1>5, <1>6, <1>7, <1>8, <1>9, <1>10, <1>11, <1>12
        DEF Next, Step

LEMMA NextStepInv ==
  ASSUME ConstantsOK, TypeOK, LockInv, StepInv, [Next]_vars PROVE StepInv'
<1> USE DEF TypeOK, LockInv, Locked, StepInv, Goto, Return, ReturnDB, Rest, Map, Unlock, At, Finds
<1>1. CASE UNCHANGED vars BY <1>1 DEF vars
<1>2. ASSUME NEW c \in Procs, Call(c) PROVE StepInv' BY <1>2 DEF Call
<1>3. ASSUME NEW c \in Procs, PeekGet(c) PROVE StepInv' BY <1>3 DEF PeekGet
<1>4. ASSUME NEW c \in Procs, PeekClose(c) PROVE StepInv' BY <1>4 DEF PeekClose
<1>5. ASSUME NEW c \in Procs, Lock(c) PROVE StepInv' BY <1>5 DEF Lock
<1>6. ASSUME NEW c \in Procs, CheckGet(c) PROVE StepInv' BY <1>6 DEF CheckGet
<1>7. ASSUME NEW c \in Procs, Open(c) PROVE StepInv' BY <1>7 DEF Open, Opens
<1>8. ASSUME NEW c \in Procs, Assign(c) PROVE StepInv' BY <1>8 DEF Assign
<1>9. ASSUME NEW c \in Procs, Store(c) PROVE StepInv' BY <1>9 DEF Store
<1>10. ASSUME NEW c \in Procs, CheckClose(c) PROVE StepInv' BY <1>10 DEF CheckClose
<1>11. ASSUME NEW c \in Procs, CloseHandle(c) PROVE StepInv' BY <1>11 DEF CloseHandle
<1>12. ASSUME NEW c \in Procs, Delete(c) PROVE StepInv' BY <1>12 DEF Delete
<1> QED BY <1>1, <1>2, <1>3, <1>4, <1>5, <1>6, <1>7, <1>8, <1>9, <1>10, <1>11, <1>12
        DEF Next, Step

-----------------------------------------------------------------------------
(* What one goroutine with the lock makes of the two sets.                 *)
LEMMA OneHolder ==
  ASSUME LockInv, NEW c \in Procs, pc[c] \in Locked
  PROVE  /\ Pending = IF pc[c] \in {"assign", "slot"} THEN {<<name[c], made[name[c]]>>} ELSE {}
         /\ Deleting = IF pc[c] = "delete" THEN {<<name[c], dbMap[name[c]]>>} ELSE {}
<1>1. \A d \in Procs : pc[d] \in Locked => d = c BY DEF LockInv
<1> QED BY <1>1 DEF Pending, Deleting, Locked

(* The steps that leave the map and the handles alone.                     *)
LEMMA LooksKeep ==
  ASSUME TypeOK, LockInv, NEW c \in Procs,
         \/ Call(c) \/ PeekGet(c) \/ PeekClose(c) \/ Lock(c)
         \/ CheckGet(c) \/ CheckClose(c) \/ Assign(c)
  PROVE  /\ UNCHANGED <<Pending, Deleting, Cached, open, closeFails>>
<1> USE DEF TypeOK, Goto, Return, ReturnDB, Rest, Map, At
<1>1. UNCHANGED <<dbMap, made, open, closeFails>>
  BY DEF Call, PeekGet, PeekClose, Lock, CheckGet, CheckClose, Assign
<1>2. \A d \in Procs : /\ pc'[d] \in {"assign", "slot"} <=> pc[d] \in {"assign", "slot"}
                       /\ pc'[d] = "delete" <=> pc[d] = "delete"
                       /\ pc[d] \in {"assign", "slot", "delete"} => name'[d] = name[d]
  BY DEF Call, PeekGet, PeekClose, Lock, CheckGet, CheckClose, Assign
<1>3. UNCHANGED Cached BY <1>1 DEF Cached
<1>4. UNCHANGED Pending BY <1>1, <1>2 DEF Pending
<1>5. UNCHANGED Deleting BY <1>1, <1>2 DEF Deleting
<1> QED BY <1>1, <1>3, <1>4, <1>5

LEMMA NextOpenDead ==
  ASSUME ConstantsOK, TypeOK, LockInv, LockInv', StepInv, OpenInv, DeadInv, [Next]_vars
  PROVE  OpenInv' /\ DeadInv'
<1> USE DEF TypeOK, Goto, Return, ReturnDB, Rest, Map, Unlock, At, Finds, Locked
<1>0. ASSUME Dead' \subseteq Dead, closeFails' \in Nat, closeFails' >= closeFails PROVE DeadInv'
  <2>1. IsFiniteSet(Dead') /\ Cardinality(Dead') <= Cardinality(Dead)
    BY <1>0, FS_Subset DEF DeadInv
  <2>2. Cardinality(Dead) \in Nat /\ Cardinality(Dead') \in Nat
    BY <2>1, FS_CardinalityType DEF DeadInv
  <2> QED BY <1>0, <2>1, <2>2 DEF DeadInv
<1>1. CASE UNCHANGED vars
  <2>1. UNCHANGED <<Pending, Deleting, Cached>>
    BY <1>1 DEF vars, Pending, Deleting, Cached
  <2> QED BY <1>1, <2>1 DEF vars, OpenInv, DeadInv, Dead
<1>2. ASSUME NEW c \in Procs,
             \/ Call(c) \/ PeekGet(c) \/ PeekClose(c) \/ Lock(c)
             \/ CheckGet(c) \/ CheckClose(c) \/ Assign(c)
      PROVE  OpenInv' /\ DeadInv'
  <2>1. UNCHANGED <<Pending, Deleting, Cached, open, closeFails>> BY <1>2, LooksKeep
  <2> QED BY <2>1 DEF OpenInv, DeadInv, Dead
<1>3. ASSUME NEW c \in Procs, Open(c) PROVE OpenInv' /\ DeadInv'
  <2>1. pc[c] = "open" /\ UNCHANGED <<dbMap, name, closeFails>> BY <1>3 DEF Open
  <2>2. Pending = {} /\ Deleting = {} BY <2>1, OneHolder
  <2>3. UNCHANGED Cached BY <2>1 DEF Cached
  <2>4. CASE Opens(c)
    <3>1. pc'[c] = "assign" /\ open' = open \cup {<<name'[c], made'[name'[c]]>>}
      BY <2>1, <2>4 DEF Opens
    <3>2. Pending' = {<<name'[c], made'[name'[c]]>>} 
      <4>1. \A d \in Procs : pc'[d] \in Locked => d = c BY <3>1 DEF LockInv
      <4> QED BY <3>1, <4>1 DEF Pending
    <3>3. OpenInv' BY <2>2, <2>3, <3>1, <3>2 DEF OpenInv
    <3>4. Dead' \subseteq Dead BY <2>2, <2>3, <3>1 DEF Dead
    <3> QED BY <1>0, <2>1, <3>3, <3>4
  <2>5. CASE UNCHANGED <<made, open>>
    <3>1. OpenInv' BY <2>2, <2>3, <2>5 DEF OpenInv
    <3>2. Dead' \subseteq Dead BY <2>2, <2>3, <2>5 DEF Dead
    <3> QED BY <1>0, <2>1, <3>1, <3>2
  <2> QED BY <1>3, <2>4, <2>5 DEF Open
<1>4. ASSUME NEW c \in Procs, Store(c) PROVE OpenInv' /\ DeadInv'
  <2> DEFINE new == <<name[c], made[name[c]]>>
  <2>1. /\ pc[c] = "slot" /\ dbMap[name[c]] = 0 /\ new \in open
        /\ dbMap' = [dbMap EXCEPT ![name[c]] = made[name[c]]]
        /\ pc' = [pc EXCEPT ![c] = "idle"]
        /\ UNCHANGED <<name, made, open, closeFails>>
    BY <1>4 DEF Store, StepInv
  <2>2. Pending = {new} /\ Deleting = {} BY <2>1, OneHolder
  <2>3. Pending' = {} /\ Deleting' = {}
    <3>1. \A d \in Procs : pc'[d] \notin {"assign", "slot", "delete"} BY <2>1 DEF LockInv
    <3> QED BY <3>1 DEF Pending, Deleting
  <2>4. made[name[c]] # 0 BY <2>1
  <2>5. Cached' = Cached \cup {new} BY <2>1, <2>4 DEF Cached
  <2> HIDE DEF new
  <2>6. OpenInv' BY <2>1, <2>2, <2>5 DEF OpenInv
  <2>7. Dead' \subseteq Dead BY <2>1, <2>2, <2>3, <2>5 DEF Dead
  <2> QED BY <1>0, <2>1, <2>6, <2>7
<1>5. ASSUME NEW c \in Procs, CloseHandle(c) PROVE OpenInv' /\ DeadInv'
  <2> DEFINE old == <<name[c], dbMap[name[c]]>>
  <2>1. pc[c] = "close" /\ open' = open \ {old} /\ UNCHANGED <<dbMap, name, made>>
    BY <1>5 DEF CloseHandle
  <2>2. Pending = {} /\ Deleting = {} BY <2>1, OneHolder
  <2>3. UNCHANGED Cached BY <2>1 DEF Cached
  <2>4. OpenInv' BY <2>1, <2>2, <2>3 DEF OpenInv
  <2>5. CASE Goto(c, "delete") /\ UNCHANGED <<closeFails, holder>>
    <3>1. pc' = [pc EXCEPT ![c] = "delete"] /\ \A d \in Procs : pc[d] \in Locked => d = c
      BY <2>1, <2>5 DEF LockInv
    <3>2. Deleting' = {old} BY <2>1, <3>1 DEF Deleting
    <3> HIDE DEF old
    <3>3. Dead' \subseteq Dead BY <2>1, <2>2, <2>3, <3>2 DEF Dead
    <3> QED BY <1>0, <2>4, <2>5, <3>3
  <2>6. CASE closeFails' = closeFails + 1
    <3> HIDE DEF old
    <3>1. Dead' \subseteq Dead \cup {old} BY <2>1, <2>2, <2>3 DEF Dead
    <3>2. /\ IsFiniteSet(Dead \cup {old})
          /\ Cardinality(Dead \cup {old}) <= Cardinality(Dead) + 1
      <4>1. IsFiniteSet(Dead) /\ Cardinality(Dead) \in Nat BY FS_CardinalityType DEF DeadInv
      <4>2. /\ IsFiniteSet(Dead \cup {old})
            /\ \/ Cardinality(Dead \cup {old}) = Cardinality(Dead)
               \/ Cardinality(Dead \cup {old}) = Cardinality(Dead) + 1
        BY <4>1, FS_AddElement
      <4> QED BY <4>1, <4>2
    <3>3. IsFiniteSet(Dead') /\ Cardinality(Dead') <= Cardinality(Dead \cup {old})
      BY <3>1, <3>2, FS_Subset
    <3>4. {Cardinality(Dead), Cardinality(Dead'), Cardinality(Dead \cup {old})} \subseteq Nat
      BY <3>2, <3>3, FS_CardinalityType DEF DeadInv
    <3>5. DeadInv' BY <2>6, <3>2, <3>3, <3>4 DEF DeadInv
    <3> QED BY <2>4, <3>5
  <2>7. \/ Goto(c, "delete") /\ UNCHANGED <<closeFails, holder>>
        \/ closeFails' = closeFails + 1
    BY <1>5 DEF CloseHandle
  <2> HIDE DEF old
  <2> QED BY <2>5, <2>6, <2>7
<1>6. ASSUME NEW c \in Procs, Delete(c) PROVE OpenInv' /\ DeadInv'
  <2> DEFINE old == <<name[c], dbMap[name[c]]>>
  <2>1. /\ pc[c] = "delete" /\ old \notin open
        /\ dbMap' = [dbMap EXCEPT ![name[c]] = 0]
        /\ pc' = [pc EXCEPT ![c] = "idle"]
        /\ UNCHANGED <<name, made, open, closeFails>>
    BY <1>6 DEF Delete, StepInv
  <2>2. Pending = {} /\ Deleting = {old} BY <2>1, OneHolder
  <2>3. Deleting' = {}
    <3>1. \A d \in Procs : pc'[d] # "delete" BY <2>1 DEF LockInv
    <3> QED BY <3>1 DEF Deleting
  <2>4. Cached' = Cached \ {old} BY <2>1 DEF Cached
  <2> HIDE DEF old
  <2>5. OpenInv' BY <2>1, <2>2, <2>4 DEF OpenInv
  <2>6. Dead' \subseteq Dead BY <2>1, <2>2, <2>3, <2>4 DEF Dead
  <2> QED BY <1>0, <2>1, <2>5, <2>6
<1> QED BY <1>1, <1>2, <1>3, <1>4, <1>5, <1>6 DEF Next, Step

LEMMA NextGotInv ==
  ASSUME ConstantsOK, TypeOK, LockInv, StepInv, GotInv, [Next]_vars PROVE GotInv'
<1> USE DEF TypeOK, Goto, Return, ReturnDB, Rest, Map, Unlock, At, Finds
<1>1. CASE UNCHANGED vars BY <1>1 DEF vars, GotInv, NoClose
<1>2. ASSUME NEW c \in Procs, Call(c) PROVE GotInv'
  BY <1>2 DEF Call, GotInv, NoClose, Procs
<1>3. ASSUME NEW c \in Procs, ~ Call(c), Step(c) PROVE GotInv'
  <2>1. \A d \in Closers : calls[d] = 0 => pc[d] = "idle" BY DEF GotInv
  <2>2. UNCHANGED calls
    BY <1>3 DEF Step, PeekGet, PeekClose, Lock, CheckGet, Open, Assign, Store, CheckClose,
                CloseHandle, Delete
  <2>3. pc[c] # "idle" /\ \A d \in Procs \ {c} : pc'[d] = pc[d]
    BY <1>3 DEF Step, PeekGet, PeekClose, Lock, CheckGet, Open, Opens, Assign, Store, CheckClose,
                CloseHandle, Delete
  <2>4. \A d \in Closers : calls'[d] = 0 => pc'[d] = "idle" BY <2>1, <2>2, <2>3 DEF Procs
  <2>5. ASSUME NoClose', NEW d \in Callers, NEW g \in got'[d] PROVE dbMap'[g[1]] = g[2]
    <3>1. NoClose /\ c \in Callers BY <2>1, <2>2, <2>3, <2>5 DEF NoClose, Procs
    <3>2. \A e \in Callers : \A h \in got[e] : dbMap[h[1]] = h[2] /\ h[1] \in Names /\ h[2] # 0
      BY <3>1 DEF GotInv, Procs
    <3>3. CASE UNCHANGED <<got, dbMap>> BY <2>5, <3>2, <3>3
    <3>4. CASE ReturnDB(c, dbMap[name[c]]) /\ UNCHANGED dbMap
      BY <2>5, <3>2, <3>4 DEF Procs
    <3>5. CASE Store(c)
      <4>1. dbMap[name[c]] = 0 /\ dbMap' = [dbMap EXCEPT ![name[c]] = made[name[c]]]
        BY <3>5 DEF Store, StepInv
      <4>2. g \in got[d] \/ g = <<name[c], made[name[c]]>> BY <2>5, <3>5 DEF Store, Procs
      <4> QED BY <2>5, <3>2, <4>1, <4>2
    <3>6. c \notin Closers BY <3>1 DEF ConstantsOK
    <3> QED
      BY <1>3, <3>3, <3>4, <3>5, <3>6
      DEF Step, PeekGet, PeekClose, Lock, CheckGet, Open, Assign, CheckClose, CloseHandle,
          Delete, StepInv
  <2> QED BY <2>4, <2>5 DEF GotInv
<1> QED BY <1>1, <1>2, <1>3 DEF Next

-----------------------------------------------------------------------------
LEMMA Inductive == Spec => []IInv
<1>1. Init => IInv BY InitIInv, ConstantsOK
<1>2. IInv /\ [Next]_vars => IInv'
  BY NextTypeOK, NextLockInv, NextStepInv, NextOpenDead, NextGotInv, ConstantsOK DEF IInv
<1> QED BY <1>1, <1>2, PTL DEF Spec

(* Every variable stays in its set (database.go, mongo.go).                *)
THEOREM TypeCorrect == Spec => []TypeOK
<1>1. IInv => TypeOK BY DEF IInv
<1> QED BY <1>1, Inductive, PTL

(* With the lock free the map has every handle that is open, and besides   *)
(* them only those whose Close has failed (database.go:49-97,              *)
(* mongo.go:39-83).                                                        *)
THEOREM NoHandleLost == Spec => []AtRest
<1>1. IInv => AtRest
  <2> SUFFICES ASSUME IInv, holder = NoOne PROVE open \subseteq Cached /\ Cardinality(Cached \ open) <= closeFails
    BY DEF AtRest
  <2>1. \A c \in Procs : pc[c] \notin {"assign", "slot", "delete"}
    BY ConstantsOK DEF IInv, LockInv, Locked, Procs
  <2>2. Pending = {} /\ Deleting = {} BY <2>1 DEF Pending, Deleting
  <2> QED BY <2>2 DEF IInv, OpenInv, DeadInv, Dead
<1> QED BY <1>1, Inductive, PTL

(* Until somebody calls Close every caller is given the same handle of a   *)
(* name (database.go:74-97, mongo.go:59-83).                               *)
THEOREM HandleShared == Spec => []GotShared
<1>1. IInv => GotShared
  <2> SUFFICES ASSUME IInv, NoClose, NEW c \in Callers, NEW d \in Callers,
                      NEW g \in got[c], NEW h \in got[d], g[1] = h[1]
               PROVE  g = h
    BY DEF GotShared, NoClose
  <2>1. g \in Names \X (Nat \ {0}) /\ h \in Names \X (Nat \ {0})
    BY DEF IInv, TypeOK, Procs
  <2>2. dbMap[g[1]] = g[2] /\ dbMap[h[1]] = h[2] BY DEF IInv, GotInv
  <2> QED BY <2>1, <2>2
<1> QED BY <1>1, Inductive, PTL

-----------------------------------------------------------------------------
(* RotatingLog. The names are taken in turn: Age is how many rotations ago *)
(* the file of a name was moved to it, with the one under way. The name of *)
(* that one is the oldest until its file is removed.                       *)

InTurn == 1 .. MaxNum
UnderWay == IF step \in {"close", "remove", "rename"} THEN 1 ELSE 0
Removed  == IF step = "rename" THEN 1 ELSE 0

Age(n) == IF n = suffix /\ step \in {"close", "remove"} THEN MaxNum ELSE
          IF n <= suffix THEN suffix - n ELSE suffix - n + MaxNum

(* The file of the moment is there until it is renamed, and goes to a name *)
(* that is free.                                                           *)
MoveInv ==
  /\ step # "idle" => suffix \in InTurn
  /\ step \in {"close", "remove", "rename"} => disk[0] # 0
  /\ step = "rename" => disk[suffix] = 0

(* A rotated file is as old as the files rotated after it, one more for    *)
(* each fault and for the rotation under way.                              *)
AgeInv ==
  \A i \in DOMAIN rotated :
    Len(rotated) - i + faults + Removed < MaxNum =>
      \E n \in InTurn : disk[n] = rotated[i] /\ Age(n) <= Len(rotated) - i + faults + UnderWay

(* The levelled lines go to the first file of the process.                 *)
FirstInv == faults = 0 => levelled = IF rotated = <<>> THEN disk[0] ELSE rotated[1]

(* No file has two names, and theirs is at the name they went to.          *)
OneName == \A m, n \in FileNames : disk[m] = disk[n] /\ disk[m] # 0 => m = n

PlaceOf(n) ==
  IF rotated = <<>> THEN n = 0 ELSE n # 0 /\ Age(n) = Len(rotated) - 1 + UnderWay

LevelledAt == \A n \in FileNames : faults = 0 /\ disk[n] = levelled => PlaceOf(n)

(* lg has an open file but from the Close to the SetOutput of a rotation.  *)
OpenLogInv ==
  step \in {"idle", "close"} => ~lgClosed

LogInv == LogTypeOK /\ MoveInv /\ AgeInv /\ FirstInv /\ OneName /\ LevelledAt /\ OpenLogInv

-----------------------------------------------------------------------------
LEMMA LogTypesInit == ASSUME LogInit PROVE LogTypeOK /\ MoveInv
<1> USE LogConstantsOK DEF LogInit, LogTypeOK, Files, FileNames
<1>1. Len(size) = 1 /\ size \in Seq(Nat) /\ rotated \in Seq(Files)
  OBVIOUS
<1>2. disk \in [FileNames -> Files \cup {0}]
  BY <1>1
<1> QED
  BY <1>1, <1>2 DEF MoveInv

(* A file is added, or one of those there are changes its size.            *)
LEMMA Grown ==
  ASSUME LogTypeOK
  PROVE  /\ \A f \in Files : [size EXCEPT ![f] = @ + 1] \in Seq(Nat)
                             /\ Len([size EXCEPT ![f] = @ + 1]) = Len(size)
         /\ \A f \in Files : [size EXCEPT ![f] = 0] \in Seq(Nat)
                             /\ Len([size EXCEPT ![f] = 0]) = Len(size)
         /\ Append(size, 0) \in Seq(Nat) /\ Len(Append(size, 0)) = Len(size) + 1
         /\ Len(size) \in Nat
  BY DEF LogTypeOK, Files

(* Files are never forgotten.                                              *)
LEMMA SizesStep ==
  ASSUME LogTypeOK, [LogNext]_logVars
  PROVE  size' \in Seq(Nat) /\ Files \subseteq Files' /\ 0 \notin Files
<1> USE DEF Files
<1>0. /\ lg \in Files \cup {0} /\ levelled \in Files /\ disk[0] \in Files \cup {0}
      /\ size \in Seq(Nat)
  BY LogConstantsOK DEF LogTypeOK, FileNames
<1> DEFINE F == Files
<1>1. ASSUME \/ UNCHANGED size
             \/ \E f \in F : size' = [size EXCEPT ![f] = @ + 1] \/ size' = [size EXCEPT ![f] = 0]
             \/ size' = Append(size, 0)
      PROVE  size' \in Seq(Nat) /\ Len(size') \in Nat /\ Len(size') >= Len(size)
  <2>1. /\ \A f \in F : /\ [size EXCEPT ![f] = @ + 1] \in Seq(Nat)
                        /\ Len([size EXCEPT ![f] = @ + 1]) = Len(size)
                        /\ [size EXCEPT ![f] = 0] \in Seq(Nat)
                        /\ Len([size EXCEPT ![f] = 0]) = Len(size)
        /\ Append(size, 0) \in Seq(Nat) /\ Len(Append(size, 0)) = Len(size) + 1
        /\ Len(size) \in Nat
    BY Grown
  <2> HIDE DEF F
  <2>2. ASSUME NEW f \in F, size' = [size EXCEPT ![f] = @ + 1] \/ size' = [size EXCEPT ![f] = 0]
        PROVE  size' \in Seq(Nat) /\ Len(size') = Len(size)
    BY <2>1, <2>2
  <2>3. ASSUME size' = Append(size, 0)
        PROVE  size' \in Seq(Nat) /\ Len(size') = Len(size) + 1
    BY <2>1, <2>3
  <2> QED
    BY <1>0, <1>1, <2>1, <2>2, <2>3
<1> HIDE DEF F
<1>2. CASE PrintLine \/ Level
  BY <1>0, <1>1, <1>2 DEF PrintLine, Level, Write, F
<1>3. CASE CreateFile
  BY <1>0, <1>1, <1>3 DEF CreateFile, files, F
<1>4. CASE NewRotatingHandler
  BY <1>1, <1>4 DEF NewRotatingHandler
<1>5. CASE UNCHANGED size
  BY <1>1, <1>5
<1>6. UNCHANGED size \/ PrintLine \/ Level \/ CreateFile \/ NewRotatingHandler
  BY DEF LogNext, Rotate, FileCheck, CloseFile, RemoveOld, RenameFile, SetOutput,
     logVars, files
<1>7. size' \in Seq(Nat) /\ Len(size') \in Nat /\ Len(size') >= Len(size)
  BY <1>1, <1>2, <1>3, <1>4, <1>5, <1>6
<1> QED
  BY <1>7, Grown

LEMMA LogTypesStep ==
  ASSUME LogTypeOK, MoveInv, [LogNext]_logVars
  PROVE  LogTypeOK' /\ MoveInv'
<1> DEFINE F == Files
           G == Files'
<1>1. size' \in Seq(Nat) /\ F \subseteq G /\ 0 \notin F /\ 0 \notin G
  BY SizesStep DEF Files
<1>2. /\ disk \in [FileNames -> F \cup {0}] /\ {lg, logfile} \subseteq F \cup {0} /\ levelled \in F
      /\ lgClosed \in BOOLEAN /\ rotated \in Seq(F) /\ suffix \in FileNames
      /\ up \in BOOLEAN /\ {lost, writes, starts, faults} \subseteq Nat
      /\ step \in {"idle", "close", "remove", "rename", "create", "output"}
  BY DEF LogTypeOK
<1>3. FileNames = 0 .. MaxNum /\ InTurn = 1 .. MaxNum /\ NextSuffix \in InTurn /\ MaxNum \in Nat \ {0}
  BY <1>2, LogConstantsOK DEF NextSuffix, FileNames, InTurn
<1>4. rotated \in Seq(G) /\ <<>> \in Seq(G) /\ \A f \in G : Append(rotated, f) \in Seq(G)
  BY <1>1, <1>2
<1>5. LogTypeOK' <=>
        /\ size' \in Seq(Nat) /\ disk' \in [FileNames -> G \cup {0}]
        /\ {lg', logfile'} \subseteq G \cup {0} /\ levelled' \in G /\ lgClosed' \in BOOLEAN
        /\ suffix' \in FileNames
        /\ step' \in {"idle", "close", "remove", "rename", "create", "output"}
        /\ up' \in BOOLEAN /\ lost' \in Nat /\ rotated' \in Seq(G)
        /\ {writes', starts', faults'} \subseteq Nat
  BY DEF LogTypeOK, FileNames
<1>6. MoveInv' <=>
        /\ step' # "idle" => suffix' \in InTurn
        /\ step' \in {"close", "remove", "rename"} => disk'[0] # 0
        /\ step' = "rename" => disk'[suffix'] = 0
  BY DEF MoveInv, InTurn
<1> USE DEF MoveInv
<1>a. disk[0] \in F \cup {0} /\ disk[0] \in G \cup {0} /\ (disk[0] # 0 => disk[0] \in G)
  BY <1>1, <1>2, <1>3
<1>b. size' = Append(size, 0) => Len(size') = Len(size) + 1 /\ Len(size') \in G /\ Len(size) + 1 \in G
  BY Grown DEF Files
<1>c. /\ G \subseteq G \cup {0} /\ F \cup {0} \subseteq G \cup {0}
      /\ \A S : S \subseteq F => S \subseteq G
      /\ \A f \in G \cup {0} : /\ [disk EXCEPT ![0] = f] \in [FileNames -> G \cup {0}]
                               /\ [disk EXCEPT ![suffix] = f] \in [FileNames -> G \cup {0}]
                               /\ [disk EXCEPT ![suffix] = f, ![0] = 0] \in [FileNames -> G \cup {0}]
      /\ disk \in [FileNames -> G \cup {0}]
  BY <1>1, <1>2, <1>3
<1>d. \A f : [disk EXCEPT ![suffix] = f][suffix] = f /\ (suffix # 0 => [disk EXCEPT ![suffix] = f][0] = disk[0])
  BY <1>2, <1>3
<1> HIDE DEF F, G
<1>7. CASE PrintLine \/ Level
  BY <1>1, <1>2, <1>4, <1>5, <1>6, <1>7 DEF PrintLine, Level, outs
<1>8. CASE FileCheck
  BY <1>1, <1>2, <1>3, <1>4, <1>5, <1>6, <1>a, <1>c, <1>8
     DEF FileCheck, RenameRest, IsMustRename, files
<1>9. CASE CloseFile
  BY <1>1, <1>2, <1>3, <1>4, <1>5, <1>6, <1>c, <1>9 DEF CloseFile, RenameRest, files
<1>10. CASE RemoveOld
  <2>1. suffix # 0 /\ 0 \in G \cup {0}
    BY <1>3, <1>10 DEF RemoveOld
  <2> QED
    BY <1>1, <1>2, <1>3, <1>4, <1>5, <1>6, <1>c, <1>d, <1>10, <2>1 DEF RemoveOld, RenameRest
<1>11. CASE RenameFile
  <2>1. disk[0] \in G /\ step' = "create" /\ UNCHANGED <<size, lg, logfile, lgClosed, suffix>>
        /\ UNCHANGED <<levelled, up, lost, writes, starts>>
    BY <1>a, <1>11 DEF RenameFile, RenameRest
  <2>2. suffix \in InTurn
    BY <1>11 DEF RenameFile
  <2>3. \/ /\ rotated' = Append(rotated, disk[0]) /\ faults' = faults
           /\ disk' = [disk EXCEPT ![suffix] = disk[0], ![0] = 0]
        \/ rotated' = rotated /\ faults' = faults + 1 /\ disk' = disk
    BY <1>11 DEF RenameFile, Fault, NoFault
  <2>4. rotated' \in Seq(G)
    BY <1>4, <2>1, <2>3
  <2>5. disk' \in [FileNames -> G \cup {0}]
    BY <1>c, <2>1, <2>3
  <2>6. faults' \in Nat
    BY <1>2, <2>3
  <2>7. LogTypeOK'
    BY <1>1, <1>2, <1>5, <2>1, <2>4, <2>5, <2>6
  <2> QED
    BY <1>6, <2>1, <2>2, <2>7
<1>12. CASE CreateFile
  BY <1>1, <1>2, <1>3, <1>4, <1>5, <1>6, <1>a, <1>b, <1>c, <1>12
     DEF CreateFile, Fault, NoFault, RenameRest, files
<1>13. CASE SetOutput
  <2>1. lgClosed' \in BOOLEAN
    BY <1>13 DEF SetOutput
  <2>2. /\ step' = "idle" /\ up' = TRUE /\ lg' = logfile /\ UNCHANGED <<levelled, logfile, suffix>>
        /\ UNCHANGED <<size, disk, lost, rotated, writes, starts, faults>>
    BY <1>13 DEF SetOutput, files, bound
  <2>3. LogTypeOK'
    BY <1>1, <1>2, <1>4, <1>5, <1>c, <2>1, <2>2
  <2> QED
    BY <1>6, <2>2, <2>3
<1>14. CASE NewRotatingHandler
  <2>1. \E f \in G : /\ disk' = [disk EXCEPT ![0] = f] /\ lg' = f /\ levelled' = f
                     /\ (disk[0] # 0 => f = disk[0])
    BY <1>a, <1>b, <1>14 DEF NewRotatingHandler
  <2>2. /\ disk' \in [FileNames -> G \cup {0}] /\ lg' \in G /\ levelled' \in G
        /\ (disk[0] # 0 => disk'[0] = disk[0])
    BY <1>2, <1>3, <1>c, <2>1
  <2>3. /\ logfile' = 0 /\ lgClosed' = FALSE /\ lost' = 0 /\ rotated' = <<>> /\ starts' = starts + 1
        /\ UNCHANGED <<writes, faults>> /\ up' \in BOOLEAN
        /\ \/ suffix' = 0 /\ step' = "idle"
           \/ disk[0] # 0 /\ suffix' = 1 /\ step' = "close"
    BY <1>14 DEF NewRotatingHandler, IsMustRename
  <2>4. suffix' \in FileNames /\ (step' # "idle" => suffix' \in InTurn)
    BY <1>3, <2>3
  <2>a. lgClosed' \in BOOLEAN
    BY <2>3
  <2>b. lost' \in Nat /\ rotated' \in Seq(G) /\ {writes', starts', faults'} \subseteq Nat
    BY <1>2, <1>4, <2>3
  <2>c. {lg', logfile'} \subseteq G \cup {0} /\ step' \in {"idle", "close", "remove", "rename", "create", "output"}
    BY <2>2, <2>3
  <2>d. up' \in BOOLEAN
    BY <2>3
  <2>5. LogTypeOK'
    BY <1>1, <1>5, <2>2, <2>4, <2>a, <2>b, <2>c, <2>d
  <2> QED
    BY <1>6, <2>2, <2>3, <2>4, <2>5
<1>15. CASE UNCHANGED logVars
  BY <1>1, <1>2, <1>4, <1>5, <1>6, <1>c, <1>15 DEF logVars, files, outs, bound
<1> QED
  BY <1>7, <1>8, <1>9, <1>10, <1>11, <1>12, <1>13, <1>14, <1>15 DEF LogNext, Rotate

-----------------------------------------------------------------------------
(* A rotation takes the name whose turn it is and makes the others older.  *)
LEMMA Turn ==
  ASSUME suffix \in FileNames
  PROVE  /\ NextSuffix \in InTurn
         /\ NextSuffix = IF suffix = MaxNum THEN 1 ELSE suffix + 1
  BY LogConstantsOK DEF NextSuffix, FileNames, InTurn

LEMMA AgeStep ==
  ASSUME LogTypeOK, MoveInv, AgeInv, [LogNext]_logVars
  PROVE  AgeInv'
<1> DEFINE N == Len(rotated)
<1>a. rotated \in Seq(Files) /\ 0 \notin Files
  BY DEF LogTypeOK, Files
<1>b. N \in Nat /\ DOMAIN rotated = 1 .. N /\ \A i \in 1 .. N : rotated[i] # 0
  BY <1>a
<1>1. /\ MaxNum \in Nat \ {0} /\ suffix \in 0 .. MaxNum /\ faults \in Nat /\ N \in Nat
      /\ DOMAIN rotated = 1 .. N /\ InTurn = 1 .. MaxNum
      /\ disk \in [0 .. MaxNum -> Files \cup {0}] /\ \A i \in 1 .. N : rotated[i] # 0
  BY <1>b, LogConstantsOK DEF LogTypeOK, FileNames, InTurn
<1>2. /\ UnderWay \in 0 .. 1 /\ Removed \in 0 .. 1 /\ (Removed = 1 <=> step = "rename")
      /\ \A n \in InTurn : Age(n) \in 0 .. MaxNum
  BY <1>1 DEF UnderWay, Removed, Age
(* Rotations apart, the files stay where they are.                         *)
<1>3. ASSUME UNCHANGED <<rotated, suffix>>, \A n \in InTurn : disk'[n] = disk[n],
             faults' \in Nat, faults' >= faults,
             UnderWay' = UnderWay, Removed' = Removed, \A n \in InTurn : Age(n)' = Age(n)
      PROVE  AgeInv'
  <2>1. ASSUME NEW i \in 1 .. N, N - i + faults' + Removed < MaxNum
        PROVE  \E n \in InTurn : disk'[n] = rotated[i] /\ Age(n)' <= N - i + faults' + UnderWay
    <3>0. N - i + faults + Removed < MaxNum
      BY <1>1, <1>2, <1>3, <2>1
    <3>1. PICK n \in InTurn : disk[n] = rotated[i] /\ Age(n) <= N - i + faults + UnderWay
      BY <1>1, <2>1, <3>0 DEF AgeInv
    <3>2. disk'[n] = rotated[i] /\ Age(n)' = Age(n) /\ Age(n) \in 0 .. MaxNum
      BY <1>2, <1>3, <3>1
    <3>3. Age(n)' <= N - i + faults' + UnderWay
      BY <1>1, <1>2, <1>3, <3>1, <3>2
    <3> QED
      BY <3>2, <3>3
  <2> QED
    BY <1>1, <1>3, <2>1 DEF AgeInv, InTurn
<1>4. CASE PrintLine \/ Level \/ UNCHANGED logVars
  BY <1>1, <1>3, <1>4 DEF PrintLine, Level, outs, logVars, files, bound, UnderWay, Removed, Age
<1>5. CASE CloseFile
  BY <1>1, <1>3, <1>5 DEF CloseFile, files, UnderWay, Removed, Age
<1>6. CASE SetOutput
  BY <1>1, <1>3, <1>6 DEF SetOutput, files, bound, UnderWay, Removed, Age
<1>7. CASE CreateFile
  <2>1. /\ step = "create" /\ step' = "output" /\ UNCHANGED <<rotated, suffix>>
        /\ \A n \in InTurn : disk'[n] = disk[n]
        /\ faults' = faults \/ faults' = faults + 1
    BY <1>1, <1>7 DEF CreateFile, Fault, NoFault, files
  <2> QED
    BY <1>1, <1>3, <2>1 DEF UnderWay, Removed, Age
<1>8. CASE NewRotatingHandler
  BY <1>8 DEF NewRotatingHandler, AgeInv
<1>9. CASE FileCheck
  <2>1. /\ step = "idle" /\ step' = "close" /\ UNCHANGED <<rotated, disk, faults>>
        /\ suffix' = IF suffix = MaxNum THEN 1 ELSE suffix + 1
    BY <1>1, <1>9, Turn DEF FileCheck, files, FileNames
  <2>2. \A n \in InTurn : Age(n)' = Age(n) + 1
    BY <1>1, <2>1 DEF Age, InTurn
  <2>3. UnderWay = 0 /\ UnderWay' = 1 /\ Removed = 0 /\ Removed' = 0
    BY <2>1 DEF UnderWay, Removed
  <2>4. ASSUME NEW i \in 1 .. N, N - i + faults < MaxNum
        PROVE  \E n \in InTurn : disk[n] = rotated[i] /\ Age(n)' <= N - i + faults + 1
    <3>1. PICK n \in InTurn : disk[n] = rotated[i] /\ Age(n) <= N - i + faults
      BY <1>1, <2>3, <2>4 DEF AgeInv
    <3> QED
      BY <1>1, <1>2, <2>2, <3>1
  <2>5. \A i \in 1 .. N : N - i + faults = N - i + faults + 0
    BY <1>1
  <2> QED
    BY <1>1, <2>1, <2>3, <2>4, <2>5 DEF AgeInv, InTurn
<1>10. CASE RemoveOld
  <2>1. /\ step = "remove" /\ step' = "rename" /\ UNCHANGED <<rotated, suffix, faults>>
        /\ \A n \in InTurn : n # suffix => disk'[n] = disk[n]
    BY <1>1, <1>10 DEF RemoveOld
  <2>2. Age(suffix) = MaxNum /\ \A n \in InTurn : n # suffix => Age(n)' = Age(n)
    BY <1>1, <2>1 DEF Age, InTurn
  <2>3. UnderWay = 1 /\ UnderWay' = 1 /\ Removed = 0 /\ Removed' = 1
    BY <2>1 DEF UnderWay, Removed
  <2>4. ASSUME NEW i \in 1 .. N, N - i + faults + 1 < MaxNum
        PROVE  \E n \in InTurn : disk'[n] = rotated[i] /\ Age(n)' <= N - i + faults + 1
    <3>1. PICK n \in InTurn : disk[n] = rotated[i] /\ Age(n) <= N - i + faults + 1
      BY <1>1, <2>3, <2>4 DEF AgeInv
    <3>2. n # suffix
      BY <1>1, <2>2, <2>4, <3>1
    <3> QED
      BY <2>1, <2>2, <3>1, <3>2
  <2> QED
    BY <1>1, <2>1, <2>3, <2>4 DEF AgeInv, InTurn
<1>11. CASE RenameFile
  <2>1. /\ step = "rename" /\ step' = "create" /\ UNCHANGED suffix /\ suffix \in InTurn
        /\ disk[suffix] = 0
    BY <1>11 DEF RenameFile, MoveInv
  <2>2. UnderWay = 1 /\ UnderWay' = 0 /\ Removed = 1 /\ Removed' = 0
    BY <2>1 DEF UnderWay, Removed
  <2>3. /\ \A n \in InTurn : Age(n)' = Age(n)
        /\ Age(suffix) = 0
    BY <1>1, <2>1 DEF Age, InTurn
  <2>4. ASSUME NEW i \in 1 .. N, N - i + faults + 1 < MaxNum
        PROVE  \E n \in InTurn \ {suffix} : disk[n] = rotated[i] /\ Age(n)' <= N - i + faults + 1
    <3>1. PICK n \in InTurn : disk[n] = rotated[i] /\ Age(n) <= N - i + faults + 1
      BY <1>1, <2>2, <2>4 DEF AgeInv
    <3> QED
      BY <1>1, <2>1, <2>3, <3>1
  <2>5. CASE rotated' = Append(rotated, disk[0]) /\ faults' = faults
             /\ disk' = [disk EXCEPT ![suffix] = disk[0], ![0] = 0]
    <3>1. /\ Len(rotated') = N + 1 /\ DOMAIN rotated' = 1 .. N + 1
          /\ \A i \in 1 .. N : rotated'[i] = rotated[i]
          /\ rotated'[N + 1] = disk[0]
      BY <2>5 DEF LogTypeOK
    <3>2. disk'[suffix] = disk[0] /\ \A n \in InTurn \ {suffix} : disk'[n] = disk[n]
      BY <1>1, <2>1, <2>5
    <3>3. ASSUME NEW i \in 1 .. N + 1, (N + 1) - i + faults < MaxNum
          PROVE  \E n \in InTurn : disk'[n] = rotated'[i] /\ Age(n)' <= (N + 1) - i + faults
      <4>1. CASE i = N + 1
        BY <1>1, <2>1, <2>3, <3>1, <3>2, <4>1
      <4>2. CASE i # N + 1
        <5>1. i \in 1 .. N /\ N - i + faults + 1 < MaxNum /\ (N + 1) - i + faults = N - i + faults + 1
          BY <1>1, <3>3, <4>2
        <5> QED
          BY <2>4, <3>1, <3>2, <5>1
      <4> QED
        BY <4>1, <4>2
    <3> QED
      BY <1>1, <2>2, <2>5, <3>1, <3>3 DEF AgeInv, InTurn
  <2>6. CASE rotated' = rotated /\ faults' = faults + 1 /\ disk' = disk
    <3>1. ASSUME NEW i \in 1 .. N, N - i + (faults + 1) < MaxNum
          PROVE  \E n \in InTurn : disk[n] = rotated[i] /\ Age(n)' <= N - i + (faults + 1)
      BY <1>1, <2>4, <3>1
    <3>2. \A i \in 1 .. N : N - i + (faults + 1) = N - i + (faults + 1) + 0
      BY <1>1
    <3> QED
      BY <1>1, <2>2, <2>6, <3>1, <3>2 DEF AgeInv, InTurn
  <2> QED
    BY <1>11, <2>5, <2>6 DEF RenameFile, Fault, NoFault
<1> QED
  BY <1>4, <1>5, <1>6, <1>7, <1>8, <1>9, <1>10, <1>11 DEF LogNext, Rotate

LEMMA FirstStep ==
  ASSUME LogTypeOK, MoveInv, FirstInv, [LogNext]_logVars
  PROVE  FirstInv'
<1>1. /\ faults \in Nat /\ suffix \in FileNames /\ FileNames = 0 .. MaxNum /\ rotated \in Seq(Files)
      /\ disk \in [FileNames -> Files \cup {0}] /\ levelled # 0 /\ MaxNum \in Nat \ {0}
  BY LogConstantsOK DEF LogTypeOK, FileNames, Files
<1>2. CASE UNCHANGED <<faults, levelled, rotated>> /\ disk'[0] = disk[0]
  BY <1>2 DEF FirstInv
<1>3. CASE faults' = faults + 1
  BY <1>1, <1>3 DEF FirstInv
<1>4. PrintLine \/ Level \/ FileCheck \/ CloseFile \/ SetOutput \/ UNCHANGED logVars
        => UNCHANGED <<faults, levelled, rotated, disk>>
  BY DEF PrintLine, Level, FileCheck, CloseFile, SetOutput, RenameRest, outs, files, bound, logVars
<1>5. CASE RemoveOld
  <2>1. suffix # 0
    BY <1>1, <1>5 DEF RemoveOld, MoveInv, InTurn
  <2> QED
    BY <1>1, <1>2, <1>5, <2>1 DEF RemoveOld, RenameRest
<1>6. CASE RenameFile
  <2>1. CASE Fault
    BY <1>3, <2>1 DEF Fault
  <2>2. CASE ~Fault
    <3>1. /\ UNCHANGED <<faults, levelled>> /\ rotated' = Append(rotated, disk[0]) /\ disk[0] \in Files
      BY <1>1, <1>6, <2>2 DEF RenameFile, RenameRest, NoFault, MoveInv
    <3>2. rotated' # <<>> /\ rotated'[1] = IF rotated = <<>> THEN disk[0] ELSE rotated[1]
      BY <1>1, <3>1
    <3> QED
      BY <3>1, <3>2 DEF FirstInv
  <2> QED
    BY <2>1, <2>2
<1>7. CASE CreateFile
  <2>1. CASE Fault
    BY <1>3, <2>1 DEF Fault
  <2>2. CASE ~Fault
    <3>1. /\ UNCHANGED <<faults, levelled, rotated>>
          /\ disk[0] = 0 \/ UNCHANGED disk
      BY <1>7, <2>2 DEF CreateFile, RenameRest, NoFault
    <3> QED
      BY <1>1, <3>1 DEF FirstInv
  <2> QED
    BY <2>1, <2>2
<1>8. CASE NewRotatingHandler
  <2>1. levelled' = disk'[0] /\ rotated' = <<>>
    BY <1>1, <1>8 DEF NewRotatingHandler
  <2> QED
    BY <2>1 DEF FirstInv
<1> QED
  BY <1>2, <1>4, <1>5, <1>6, <1>7, <1>8 DEF LogNext, Rotate

(* A file gets a name that is free or keeps its own.                       *)
LEMMA OneNameStep ==
  ASSUME LogTypeOK, MoveInv, OneName, [LogNext]_logVars
  PROVE  OneName'
<1>1. /\ suffix \in FileNames /\ FileNames = 0 .. MaxNum /\ disk \in [FileNames -> Files \cup {0}]
      /\ 0 \in FileNames /\ Len(size) + 1 \notin Files \cup {0}
  BY LogConstantsOK DEF LogTypeOK, FileNames, Files
<1>2. CASE UNCHANGED disk
  BY <1>2 DEF OneName, FileNames
<1>3. PrintLine \/ Level \/ FileCheck \/ CloseFile \/ SetOutput \/ UNCHANGED logVars => UNCHANGED disk
  BY DEF PrintLine, Level, FileCheck, CloseFile, SetOutput, files, logVars
<1>4. CASE \E m \in FileNames : disk' = [disk EXCEPT ![m] = 0]
  BY <1>1, <1>4 DEF OneName, FileNames
<1>5. CASE disk' = [disk EXCEPT ![0] = Len(size) + 1]
  <2>1. \A n \in FileNames : disk'[n] = IF n = 0 THEN Len(size) + 1 ELSE disk[n]
    BY <1>1, <1>5
  <2>2. \A n \in FileNames : disk[n] # Len(size) + 1
    BY <1>1
  <2> QED
    BY <2>1, <2>2 DEF OneName, FileNames
<1>6. CASE RemoveOld
  BY <1>1, <1>4, <1>6 DEF RemoveOld
<1>7. CASE RenameFile
  <2>1. CASE disk' = [disk EXCEPT ![suffix] = disk[0], ![0] = 0]
    <3>1. suffix \in FileNames /\ suffix # 0
      BY <1>1, <1>7 DEF RenameFile, MoveInv, InTurn
    <3>2. \A n \in FileNames : disk'[n] = IF n = 0 THEN 0 ELSE IF n = suffix THEN disk[0] ELSE disk[n]
      BY <1>1, <2>1, <3>1
    <3> QED
      BY <1>1, <3>1, <3>2 DEF OneName, FileNames
  <2> QED
    BY <1>2, <1>7, <2>1 DEF RenameFile
<1>8. CASE CreateFile
  <2>1. size' = Append(size, 0) => Len(size') = Len(size) + 1
    BY Grown
  <2> QED
    BY <1>2, <1>5, <1>8, <2>1 DEF CreateFile, files
<1>9. CASE NewRotatingHandler
  <2>1. CASE disk[0] = 0
    BY <1>5, <1>9, <2>1 DEF NewRotatingHandler
  <2>2. CASE disk[0] # 0
    <3>1. disk' = disk
      BY <1>1, <1>9, <2>2 DEF NewRotatingHandler
    <3> QED
      BY <1>2, <3>1
  <2> QED
    BY <2>1, <2>2
<1> QED
  BY <1>2, <1>3, <1>6, <1>7, <1>8, <1>9 DEF LogNext, Rotate

(* The file of the levels is where the rotations have moved it.            *)
LEMMA LevelledStep ==
  ASSUME LogTypeOK, MoveInv, FirstInv, OneName, LevelledAt, [LogNext]_logVars
  PROVE  LevelledAt'
<1>1. /\ suffix \in FileNames /\ FileNames = 0 .. MaxNum /\ disk \in [FileNames -> Files \cup {0}]
      /\ 0 \in FileNames /\ Len(size) + 1 \notin Files /\ levelled \in Files /\ 0 \notin Files
      /\ MaxNum \in Nat \ {0} /\ faults \in Nat /\ rotated \in Seq(Files)
  BY LogConstantsOK DEF LogTypeOK, FileNames, Files
<1>a. Len(rotated) \in Nat
  BY <1>1
<1>2. SUFFICES ASSUME NEW n \in FileNames, faults' = 0, disk'[n] = levelled'
               PROVE  PlaceOf(n)'
  BY DEF LevelledAt, FileNames
<1>3. disk[n] = levelled /\ faults = 0 => PlaceOf(n)
  BY DEF LevelledAt
<1>4. CASE UNCHANGED <<disk, levelled, rotated, faults, suffix>> /\ UnderWay' = UnderWay /\ Age(n)' = Age(n)
  BY <1>2, <1>3, <1>4 DEF PlaceOf
<1>5. CASE PrintLine \/ Level \/ UNCHANGED logVars
  BY <1>4, <1>5 DEF PrintLine, Level, outs, logVars, files, bound, UnderWay, Age
<1>6. CASE CloseFile \/ SetOutput
  BY <1>4, <1>6 DEF CloseFile, SetOutput, RenameRest, files, bound, UnderWay, Age
<1>7. CASE FileCheck
  <2>1. /\ step = "idle" /\ step' = "close" /\ UNCHANGED <<rotated, disk, faults, levelled>>
        /\ suffix' = IF suffix = MaxNum THEN 1 ELSE suffix + 1
    BY <1>1, <1>7, Turn DEF FileCheck, RenameRest, files
  <2>2. n # 0 => Age(n)' = Age(n) + 1
    BY <1>1, <2>1 DEF Age
  <2>3. UnderWay = 0 /\ UnderWay' = 1
    BY <2>1 DEF UnderWay
  <2>4. n # 0 => Age(n) \in Int
    BY <1>1 DEF Age
  <2> QED
    BY <1>2, <1>3, <1>a, <2>1, <2>2, <2>3, <2>4 DEF PlaceOf
<1>8. CASE RemoveOld
  <2>1. /\ step = "remove" /\ step' = "rename" /\ UNCHANGED <<rotated, suffix, faults, levelled>>
        /\ disk' = [disk EXCEPT ![suffix] = 0]
    BY <1>8 DEF RemoveOld, RenameRest
  <2>2. n # suffix /\ disk[n] = levelled
    BY <1>1, <1>2, <2>1
  <2>3. Age(n)' = Age(n) /\ UnderWay' = UnderWay
    BY <2>1, <2>2 DEF Age, UnderWay
  <2> QED
    BY <1>2, <1>3, <2>1, <2>2, <2>3 DEF PlaceOf
<1>9. CASE RenameFile
  <2>1. /\ step = "rename" /\ step' = "create" /\ UNCHANGED <<suffix, levelled>>
        /\ suffix \in InTurn /\ suffix # 0 /\ disk[0] \in Files
    BY <1>1, <1>9 DEF RenameFile, RenameRest, MoveInv, InTurn
  <2>2. /\ UNCHANGED faults /\ rotated' = Append(rotated, disk[0])
        /\ disk' = [disk EXCEPT ![suffix] = disk[0], ![0] = 0]
    BY <1>1, <1>2, <1>9 DEF RenameFile, Fault, NoFault
  <2>3. UnderWay = 1 /\ UnderWay' = 0 /\ Age(n)' = Age(n)
    BY <1>1, <2>1 DEF UnderWay, Age
  <2>4. rotated' # <<>> /\ Len(rotated') = Len(rotated) + 1
    BY <1>1, <2>1, <2>2
  <2>5. n # 0
    BY <1>1, <1>2, <2>1, <2>2
  <2>6. CASE n = suffix
    <3>1. disk[0] = levelled
      BY <1>1, <1>2, <2>1, <2>2, <2>6
    <3>2. PlaceOf(0)
      BY <1>1, <1>2, <2>2, <3>1 DEF LevelledAt
    <3>3. Len(rotated) = 0
      BY <3>2 DEF PlaceOf
    <3>4. Age(n)' = Len(rotated') - 1 + UnderWay'
      BY <1>1, <2>1, <2>3, <2>4, <2>6, <3>3 DEF Age
    <3> QED
      BY <2>4, <2>5, <3>4 DEF PlaceOf
  <2>7. CASE n # suffix
    <3>1. disk[n] = levelled
      BY <1>1, <1>2, <2>1, <2>2, <2>5, <2>7
    <3>2. Age(n) = Len(rotated) - 1 + 1
      BY <1>2, <1>3, <2>2, <2>3, <2>5, <3>1 DEF PlaceOf
    <3> QED
      BY <1>a, <2>3, <2>4, <2>5, <3>2 DEF PlaceOf
  <2> QED
    BY <2>6, <2>7
<1>10. CASE CreateFile
  <2>1. /\ step = "create" /\ step' = "output" /\ UNCHANGED <<rotated, suffix, faults, levelled>>
        /\ UNCHANGED disk \/ disk' = [disk EXCEPT ![0] = Len(size) + 1]
    BY <1>1, <1>2, <1>10, Grown DEF CreateFile, RenameRest, Fault, NoFault
  <2>2. disk[n] = levelled
    BY <1>1, <1>2, <2>1
  <2>3. Age(n)' = Age(n) /\ UnderWay' = UnderWay
    BY <2>1 DEF Age, UnderWay
  <2> QED
    BY <1>2, <1>3, <2>1, <2>2, <2>3 DEF PlaceOf
<1>11. CASE NewRotatingHandler
  <2>1. rotated' = <<>> /\ disk'[0] = levelled' /\ levelled' # 0
    BY <1>1, <1>11 DEF NewRotatingHandler, Files, LogTypeOK
  <2>2. OneName'
    BY OneNameStep
  <2>3. n = 0
    BY <1>1, <1>2, <2>1, <2>2 DEF OneName, FileNames
  <2> QED
    BY <2>1, <2>3 DEF PlaceOf
<1> QED
  BY <1>5, <1>6, <1>7, <1>8, <1>9, <1>10, <1>11 DEF LogNext, Rotate

LEMMA OpenLogStep ==
  ASSUME OpenLogInv, [LogNext]_logVars
  PROVE  OpenLogInv'
<1>1. CASE PrintLine \/ Level \/ FileCheck \/ UNCHANGED logVars
  BY <1>1 DEF PrintLine, Level, FileCheck, outs, logVars, OpenLogInv
<1>2. CASE CloseFile \/ RemoveOld \/ RenameFile \/ CreateFile
  BY <1>2 DEF CloseFile, RemoveOld, RenameFile, CreateFile, OpenLogInv
<1>3. CASE SetOutput \/ NewRotatingHandler
  BY <1>3 DEF SetOutput, NewRotatingHandler, OpenLogInv
<1> QED
  BY <1>1, <1>2, <1>3 DEF LogNext, Rotate

LEMMA LogInvariant == LogSpec => []LogInv
<1>1. LogInit => LogInv
  <2> SUFFICES ASSUME LogInit PROVE LogInv
    OBVIOUS
  <2>1. LogTypeOK /\ MoveInv
    BY LogTypesInit
  <2>2. AgeInv /\ OpenLogInv
    BY DEF LogInit, AgeInv, OpenLogInv
  <2>3. FirstInv
    BY LogConstantsOK DEF LogInit, FirstInv, FileNames
  <2>4. OneName /\ LevelledAt
    BY DEF LogInit, OneName, LevelledAt, PlaceOf
  <2> QED
    BY <2>1, <2>2, <2>3, <2>4 DEF LogInv
<1>2. LogInv /\ [LogNext]_logVars => LogInv'
  BY LogTypesStep, AgeStep, FirstStep, OneNameStep, LevelledStep, OpenLogStep DEF LogInv
<1> QED
  BY <1>1, <1>2, PTL DEF LogSpec

LEMMA StillThere ==
  ASSUME LogInv, NEW i \in DOMAIN rotated, Len(rotated) - i + faults + Removed < MaxNum
  PROVE  OnDisk(rotated[i])
<1>1. PICK n \in InTurn : disk[n] = rotated[i]
  BY DEF LogInv, AgeInv
<1>2. n \in FileNames
  BY LogConstantsOK DEF InTurn, FileNames
<1> QED
  BY <1>1, <1>2 DEF OnDisk

(* Every variable of the logger stays in its set, for any number and size  *)
(* of the files and any bounds.                                            *)
THEOREM LogTypeCorrect == LogSpec => []LogTypeOK
<1>1. LogInv => LogTypeOK
  BY DEF LogInv
<1> QED
  BY <1>1, LogInvariant, PTL

(* The maxNum files rotated last are on disk, one less while the next is   *)
(* rotated and for each failure of os.                                     *)
THEOREM LastFilesKept == LogSpec => []KeepsLast
<1>1. LogInv => KeepsLast
  <2> SUFFICES ASSUME LogInv, NEW i \in DOMAIN rotated,
                      i > Len(rotated) - MaxNum + faults + (IF step = "rename" THEN 1 ELSE 0)
               PROVE  OnDisk(rotated[i])
    BY DEF KeepsLast
  <2>1. i \in Nat /\ Len(rotated) \in Nat /\ faults \in Nat /\ MaxNum \in Nat
    BY LogConstantsOK DEF LogInv, LogTypeOK
  <2>2. Len(rotated) - i + faults + Removed < MaxNum
    BY <2>1 DEF Removed
  <2> QED
    BY <2>2, StillThere
<1> QED
  BY <1>1, LogInvariant, PTL

(* Without a failure of os the lines with a level are on disk until        *)
(* rotation maxNum + 1 removes their file, and not after it.               *)
THEOREM LevelledLinesKept == LogSpec => []LevelledKept
<1> DEFINE Kept == (Len(rotated) <= MaxNum /\ step # "rename") \/ Len(rotated) < MaxNum
<1>1. ASSUME LogInv, faults = 0, Kept PROVE OnDisk(levelled)
  <2>1. CASE rotated = <<>>
    BY <1>1, <2>1, LogConstantsOK DEF LogInv, FirstInv, OnDisk, FileNames
  <2>2. CASE rotated # <<>>
    <3>1. levelled = rotated[1]
      BY <1>1, <2>2 DEF LogInv, FirstInv
    <3>2. Len(rotated) \in Nat \ {0} /\ 1 \in DOMAIN rotated
      BY <1>1, <2>2 DEF LogInv, LogTypeOK
    <3>3. Len(rotated) - 1 + faults + Removed < MaxNum
      BY <1>1, <3>2, LogConstantsOK DEF Removed
    <3> QED
      BY <1>1, <3>1, <3>2, <3>3, StillThere
  <2> QED
    BY <2>1, <2>2
<1>2. ASSUME LogInv, faults = 0, OnDisk(levelled) PROVE Kept
  <2>1. PICK n \in FileNames : disk[n] = levelled
    BY <1>2 DEF OnDisk
  <2>2. PlaceOf(n)
    BY <1>2, <2>1 DEF LogInv, LevelledAt
  <2>3. suffix \in 0 .. MaxNum /\ n \in 0 .. MaxNum /\ MaxNum \in Nat \ {0} /\ Len(rotated) \in Nat
    BY <1>2, LogConstantsOK DEF LogInv, LogTypeOK, FileNames
  <2>4. CASE rotated = <<>>
    BY <2>3, <2>4
  <2>5. CASE rotated # <<>>
    <3>1. n # 0 /\ Age(n) = Len(rotated) - 1 + UnderWay
      BY <2>2, <2>5 DEF PlaceOf
    <3>2. Age(n) <= MaxNum /\ (step \notin {"close", "remove"} => Age(n) < MaxNum)
      BY <2>3, <3>1 DEF Age
    <3> QED
      BY <2>3, <3>1, <3>2 DEF UnderWay
  <2> QED
    BY <2>4, <2>5
<1>3. LogInv => LevelledKept
  BY <1>1, <1>2 DEF LevelledKept
<1> QED
  BY <1>3, LogInvariant, PTL

(* No step loses a line of Print but between the Close and the SetOutput   *)
(* of a rotation, or after an os.Create that failed.                       *)
THEOREM LinesLostInRotation == LogSpec => LostInRotation
<1>1. LogInv /\ [LogNext]_logVars =>
        [lost' = lost + 1 => step \in {"remove", "rename", "create", "output"} \/ lg = 0]_logVars
  <2> SUFFICES ASSUME LogInv, LogNext, lost' = lost + 1, lg # 0
               PROVE  step \in {"remove", "rename", "create", "output"}
    OBVIOUS
  <2>1. lost \in Nat
    BY DEF LogInv, LogTypeOK
  <2>2. PrintLine /\ lgClosed
    BY <2>1 DEF LogNext, Rotate, PrintLine, Level, FileCheck, CloseFile, RemoveOld, RenameFile,
       CreateFile, SetOutput, NewRotatingHandler, RenameRest
  <2> QED
    BY <2>2 DEF LogInv, LogTypeOK, OpenLogInv
<1> QED
  BY <1>1, LogInvariant, PTL DEF LogSpec, LostInRotation

=============================================================================
