----------------------------- MODULE HandleCache -----------------------------
(***************************************************************************)
(* The handles that packages database (GetDB, Close) and database/mongo    *)
(* (CloneMgoSession, Close) keep in a map, one per name. Both look the     *)
(* name up without the lock first, and again with it.                      *)
(*                                                                         *)
(* Go leaves a read of a map undefined while another goroutine writes it.  *)
(* A write is two steps here, as the runtime does it: "assign", in which   *)
(* the runtime marks the map, and "slot", when the key is there and its    *)
(* value is still nil. A read during the first ends the process or misses  *)
(* or finds the name; during the second it finds nil.                      *)
(***************************************************************************)
EXTENDS Naturals, FiniteSets

CONSTANTS
  Names,         (* of databases, addresses of mongo servers               *)
  Callers,       (* goroutines that call GetDB or CloneMgoSession          *)
  Closers,       (* goroutines that call Close                             *)
  NoOne,         (* not a goroutine                                        *)
  MaxCalls,      (* bound: calls of each goroutine                         *)
  MaxFail        (* bound: handles that cannot be opened or closed         *)

ASSUME ConstantsOK == /\ NoOne \notin Callers \cup Closers
                      /\ Callers \cap Closers = {}
                      /\ MaxCalls \in Nat /\ MaxFail \in Nat

Procs == Callers \cup Closers

VARIABLES
  dbMap,         (* the handle of each name, 0 when the map has none       *)
  made,          (* handles opened of each name: they are 1 .. made[n]     *)
  open,          (* those that are open, <<name, handle>>                  *)
  holder,        (* who holds the lock                                     *)
  pc, name,      (* of each goroutine                                      *)
  got,           (* history: what GetDB has returned to each, <<n, h>>     *)
  fatal,         (* the runtime has ended the process                      *)
  calls,         (* calls of each goroutine so far                         *)
  fails,         (* handles that could not be opened                       *)
  closeFails     (* those whose Close has returned an error                *)

vars == <<dbMap, made, open, holder, pc, name, got, fatal, calls, fails, closeFails>>

Init ==
  /\ dbMap = [n \in Names |-> 0] /\ made = [n \in Names |-> 0] /\ open = {}
  /\ holder = NoOne /\ fatal = FALSE /\ fails = 0 /\ closeFails = 0
  /\ pc = [c \in Procs |-> "idle"] /\ name \in {[c \in Procs |-> n] : n \in Names}
  /\ got = [c \in Procs |-> {}] /\ calls = [c \in Procs |-> 0]

(* c is at a step of the function, in a process that still runs.           *)
At(c, step)   == ~fatal /\ pc[c] = step
Goto(c, step) == pc' = [pc EXCEPT ![c] = step]
Return(c)     == Goto(c, "idle")
ReturnDB(c, h) == Return(c) /\ got' = [got EXCEPT ![c] = @ \cup {<<name[c], h>>}]
Fatal         == fatal' = TRUE

(* What a step of the function leaves alone; Map: and what only the        *)
(* goroutine with the lock writes.                                         *)
Rest == UNCHANGED <<name, calls>>
Map  == UNCHANGED <<dbMap, made, open, fails, closeFails>>

Call(c) ==
  /\ At(c, "idle") /\ calls[c] < MaxCalls
  /\ calls' = [calls EXCEPT ![c] = @ + 1]
  /\ \E n \in Names : name' = [name EXCEPT ![c] = n]
  /\ Goto(c, "peek")
  /\ UNCHANGED <<holder, got, fatal>> /\ Map

-----------------------------------------------------------------------------
(* The look without the lock.                                              *)

Finds(c) == dbMap[name[c]] # 0

(* It meets a write of the map. A caller that is given nil uses it, which  *)
(* ends the process too.                                                   *)
Races(c) == \E d \in Procs :
              pc[d] \in {"assign", "delete"} \/ (pc[d] = "slot" /\ name[d] = name[c])

PeekGet(c) ==
  /\ At(c, "peek") /\ c \in Callers
  /\ \/ Finds(c) /\ ReturnDB(c, dbMap[name[c]]) /\ UNCHANGED fatal
     \/ (~Finds(c) \/ Races(c)) /\ Goto(c, "lock") /\ UNCHANGED <<got, fatal>>
     \/ Races(c) /\ Fatal /\ UNCHANGED <<pc, got>>
  /\ UNCHANGED holder /\ Rest /\ Map

PeekClose(c) ==
  /\ At(c, "peek") /\ c \in Closers
  /\ \/ (Finds(c) \/ Races(c)) /\ Goto(c, "lock") /\ UNCHANGED fatal
     \/ (~Finds(c) \/ Races(c)) /\ Return(c) /\ UNCHANGED fatal
     \/ Races(c) /\ Fatal /\ UNCHANGED pc
  /\ UNCHANGED <<holder, got>> /\ Rest /\ Map

Lock(c) ==
  /\ At(c, "lock") /\ holder = NoOne
  /\ holder' = c /\ Goto(c, "check")
  /\ UNCHANGED <<got, fatal>> /\ Rest /\ Map

-----------------------------------------------------------------------------
(* With the lock. A return runs the deferred Unlock.                       *)

Unlock == holder' = NoOne

(* Mutant of CheckGet: the name is looked up once.                         *)
CheckNothing(c) ==
  /\ At(c, "check") /\ c \in Callers
  /\ Goto(c, "open") /\ UNCHANGED <<holder, got, fatal>> /\ Rest /\ Map

CheckGet(c) ==
  /\ At(c, "check") /\ c \in Callers
  /\ \/ Finds(c) /\ ReturnDB(c, dbMap[name[c]]) /\ Unlock
     \/ ~Finds(c) /\ Goto(c, "open") /\ UNCHANGED <<holder, got>>
  /\ UNCHANGED fatal /\ Rest /\ Map

Opens(c) ==
  /\ made' = [made EXCEPT ![name[c]] = @ + 1]
  /\ open' = open \cup {<<name[c], made'[name[c]]>>}
  /\ Goto(c, "assign")

(* Mutant of Open: the Unlock is not deferred, and the error forgets it.   *)
OpenKeepsLock(c) ==
  /\ At(c, "open")
  /\ \/ Opens(c) /\ UNCHANGED fails
     \/ fails < MaxFail /\ fails' = fails + 1 /\ Return(c) /\ UNCHANGED <<made, open>>
  /\ UNCHANGED <<dbMap, got, fatal, closeFails, holder>> /\ Rest

(* openDB, openMongo                                                       *)
Open(c) ==
  /\ At(c, "open")
  /\ \/ Opens(c) /\ UNCHANGED <<fails, holder>>
     \/ /\ fails < MaxFail /\ fails' = fails + 1 /\ Return(c) /\ Unlock
        /\ UNCHANGED <<made, open>>
  /\ UNCHANGED <<dbMap, got, fatal, closeFails>> /\ Rest

Assign(c) ==
  /\ At(c, "assign") /\ Goto(c, "slot")
  /\ UNCHANGED <<holder, got, fatal>> /\ Rest /\ Map

Store(c) ==
  /\ At(c, "slot")
  /\ dbMap' = [dbMap EXCEPT ![name[c]] = made[name[c]]]
  /\ ReturnDB(c, made[name[c]]) /\ Unlock
  /\ UNCHANGED <<made, open, fatal, fails, closeFails>> /\ Rest

CheckClose(c) ==
  /\ At(c, "check") /\ c \in Closers
  /\ \/ Finds(c) /\ Goto(c, "close") /\ UNCHANGED holder
     \/ ~Finds(c) /\ Return(c) /\ Unlock
  /\ UNCHANGED <<got, fatal>> /\ Rest /\ Map

(* A handle whose Close returns an error is closed, and stays in the map.  *)
CloseHandle(c) ==
  /\ At(c, "close") /\ open' = open \ {<<name[c], dbMap[name[c]]>>}
  /\ \/ Goto(c, "delete") /\ UNCHANGED <<closeFails, holder>>
     \/ closeFails < MaxFail /\ closeFails' = closeFails + 1 /\ Return(c) /\ Unlock
  /\ UNCHANGED <<dbMap, made, got, fatal, fails>> /\ Rest

(* Mutant of Delete: it forgets the handle.                                *)
DeleteNothing(c) ==
  /\ At(c, "delete") /\ Return(c) /\ Unlock
  /\ UNCHANGED <<dbMap, made, open, got, fatal, fails, closeFails>> /\ Rest

Delete(c) ==
  /\ At(c, "delete")
  /\ dbMap' = [dbMap EXCEPT ![name[c]] = 0] /\ Return(c) /\ Unlock
  /\ UNCHANGED <<made, open, got, fatal, fails, closeFails>> /\ Rest

Step(c) == \/ PeekGet(c) \/ PeekClose(c) \/ Lock(c) \/ CheckGet(c) \/ Open(c)
           \/ Assign(c) \/ Store(c) \/ CheckClose(c) \/ CloseHandle(c) \/ Delete(c)

Next == \E c \in Procs : Call(c) \/ Step(c)

(* Every goroutine runs, and gets a lock that is free again and again.     *)
Spec     == Init /\ [][Next]_vars
FairSpec == Spec /\ \A c \in Procs : SF_vars(Step(c))

-----------------------------------------------------------------------------
(* The types of the variables.                                             *)
TypeOK ==
  /\ dbMap \in [Names -> Nat] /\ made \in [Names -> Nat]
  /\ open \subseteq Names \X (Nat \ {0})
  /\ holder \in Procs \cup {NoOne}
  /\ pc \in [Procs -> {"idle", "peek", "lock", "check", "open", "assign", "slot",
                       "close", "delete"}]
  /\ name \in [Procs -> Names] /\ got \in [Procs -> SUBSET (Names \X (Nat \ {0}))]
  /\ fatal \in BOOLEAN /\ calls \in [Procs -> Nat] /\ fails \in Nat /\ closeFails \in Nat

Cached == {<<n, dbMap[n]>> : n \in {m \in Names : dbMap[m] # 0}}

(* Whatever the reads without the lock meet, no open handle is lost: while *)
(* the lock is free the map has those that are open, one per name, and no  *)
(* others but those whose Close failed, which stay there for ever          *)
(* (database.go:49-97, mongo.go:39-83).                                    *)
AtRest ==
  holder = NoOne => /\ open \subseteq Cached
                    /\ Cardinality(Cached \ open) <= closeFails

(* As long as nobody has called Close, all calls of GetDB with a name      *)
(* return the same handle, those that read the map while it is written     *)
(* included.                                                               *)
GotShared ==
  (\A d \in Closers : calls[d] = 0) =>
    \A c, d \in Callers : \A g \in got[c], h \in got[d] : g[1] = h[1] => g = h

(* Every call returns, with the lock given back, unless the runtime has    *)
(* ended the process.                                                      *)
Returns == \A c \in Procs : (pc[c] # "idle") ~> (pc[c] = "idle" \/ fatal)
=============================================================================
