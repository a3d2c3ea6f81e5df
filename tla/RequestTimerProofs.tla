------------------------- MODULE RequestTimerProofs -------------------------
(***************************************************************************)
(* What the operations on the timer of a request keep: a struct field that *)
(* holds a running timer has its goroutine, and no operation makes a       *)
(* goroutine out of nothing. The proofs about the exchanges cite these     *)
(* lemmas and never take a timer apart.                                    *)
(***************************************************************************)
EXTENDS RequestTimer, TLAPS

(* A record with these fields and no others.                               *)
Record(r, fields) == DOMAIN r = fields /\ r = [f \in DOMAIN r |-> r[f]]

TimerFields == {"run", "idle", "newest", "token", "fired", "late"}

(* The newest timer runs only while a goroutine waits for it.              *)
Counted(tm) ==
  /\ tm.run \in Nat /\ tm.idle \in Nat /\ tm.fired \in Nat /\ tm.late \in Nat
  /\ tm.newest \in BOOLEAN /\ tm.token \in 0..1
  /\ tm.newest => tm.run > 0

TimerOK(tm) == Record(tm, TimerFields) /\ Counted(tm)

(* Goroutines the timer has now.                                           *)
Goroutines(tm) == tm.run + tm.idle + tm.fired + tm.late

(* Goroutines from which another request may yet come.                     *)
Armed(tm) == tm.run + tm.fired

(* A Thing that has made no timer has no goroutine.                        *)
LEMMA NoTimerOK == TimerOK(NoTimer) /\ Goroutines(NoTimer) = 0
  BY DEF TimerOK, Record, TimerFields, Counted, NoTimer, Goroutines

(* The fields of a timer, and the goroutines that its counters add up to.  *)
LEMMA TimerTyped ==
  ASSUME NEW tm, TimerOK(tm)
  PROVE  tm \in Timers(Nat) /\ Goroutines(tm) \in Nat
<1>1. tm \in Timers(Nat)
  BY DEF TimerOK, Record, TimerFields, Counted, Timers
<1> QED
  BY <1>1 DEF Timers, Goroutines

(* time.NewTimer and its goroutine.                                        *)
LEMMA StartedOK ==
  ASSUME NEW tm, TimerOK(tm)
  PROVE  TimerOK(Started(tm)) /\ Goroutines(Started(tm)) = Goroutines(tm) + 1
<1>1. Record(Started(tm), TimerFields)
  BY DEF TimerOK, Record, Started
<1>2. Counted(Started(tm)) /\ Goroutines(Started(tm)) = Goroutines(tm) + 1
  BY DEF TimerOK, Record, TimerFields, Counted, Started, Goroutines
<1> QED
  BY <1>1, <1>2 DEF TimerOK

(* Stop, Reset and the token leave the goroutines where they are.          *)
LEMMA KeptOK ==
  ASSUME NEW tm, TimerOK(tm)
  PROVE  /\ TimerOK(Stopped(tm)) /\ Goroutines(Stopped(tm)) = Goroutines(tm)
         /\ TimerOK(Restarted(tm)) /\ Goroutines(Restarted(tm)) = Goroutines(tm)
         /\ TimerOK(Closed(tm)) /\ Goroutines(Closed(tm)) = Goroutines(tm)
         /\ TimerOK(Closed(Stopped(tm))) /\ Goroutines(Closed(Stopped(tm))) = Goroutines(tm)
<1>1. TimerOK(Stopped(tm)) /\ Goroutines(Stopped(tm)) = Goroutines(tm)
  <2>1. Record(Stopped(tm), TimerFields)
    BY DEF TimerOK, Record, Stopped
  <2>2. Counted(Stopped(tm))
    <3>1. CASE tm.newest
      <4> DEFINE x == [tm EXCEPT !.run = @ - 1, !.idle = @ + 1, !.newest = FALSE]
      <4>1. Counted(x)
        BY <3>1 DEF TimerOK, Record, TimerFields, Counted
      <4> QED
        BY <3>1, <4>1 DEF Stopped
    <3> QED
      BY <3>1 DEF TimerOK, Stopped
  <2>3. Goroutines(Stopped(tm)) = Goroutines(tm)
    BY DEF TimerOK, Record, TimerFields, Counted, Stopped, Goroutines
  <2> QED
    BY <2>1, <2>2, <2>3 DEF TimerOK
<1>2. TimerOK(Restarted(tm)) /\ Goroutines(Restarted(tm)) = Goroutines(tm)
  <2>1. Record(Restarted(tm), TimerFields)
    BY DEF TimerOK, Record, Restarted
  <2>2. Counted(Restarted(tm))
    <3>1. CASE tm.idle > 0
      <4> DEFINE x == [tm EXCEPT !.run = @ + 1, !.idle = @ - 1, !.newest = TRUE]
      <4>1. Counted(x)
        BY <3>1 DEF TimerOK, Record, TimerFields, Counted
      <4> QED
        BY <3>1, <4>1 DEF Restarted
    <3> QED
      BY <3>1 DEF TimerOK, Restarted
  <2>3. Goroutines(Restarted(tm)) = Goroutines(tm)
    BY DEF TimerOK, Record, TimerFields, Counted, Restarted, Goroutines
  <2> QED
    BY <2>1, <2>2, <2>3 DEF TimerOK
<1>3. ASSUME NEW x, TimerOK(x)
      PROVE  TimerOK(Closed(x)) /\ Goroutines(Closed(x)) = Goroutines(x)
  BY <1>3 DEF TimerOK, Record, TimerFields, Counted, Closed, Goroutines
<1> QED
  BY <1>1, <1>2, <1>3

(* A goroutine that leaves the select leaves one less behind.              *)
LEMMA OneLeavesOK ==
  ASSUME NEW tm, TimerOK(tm), tm.run > 0, NEW x \in OneLeaves(tm)
  PROVE  TimerOK(x) /\ Goroutines(x) = Goroutines(tm) - 1
<1>1. PICK b \in {FALSE, tm.newest /\ tm.run > 1} :
        x = [tm EXCEPT !.run = @ - 1, !.newest = b]
  BY DEF OneLeaves
<1>2. Record(x, TimerFields)
  BY <1>1 DEF TimerOK, Record
<1>3. b \in BOOLEAN /\ (b => tm.run > 1)
  BY <1>1
<1>4. Counted(x) /\ Goroutines(x) = Goroutines(tm) - 1
  BY <1>1, <1>3 DEF TimerOK, Record, TimerFields, Counted, Goroutines
<1> QED
  BY <1>2, <1>4 DEF TimerOK

(* A token ends one goroutine.                                             *)
LEMMA TokenTakenOK ==
  ASSUME NEW tm, TimerOK(tm), NEW x \in TokenTaken(tm)
  PROVE  TimerOK(x) /\ Goroutines(x) = Goroutines(tm) - 1
<1> DEFINE empty == [tm EXCEPT !.token = 0]
<1>1. TimerOK(empty) /\ Goroutines(empty) = Goroutines(tm) /\ empty.run = tm.run
      /\ empty.idle = tm.idle
  BY DEF TimerOK, Record, TimerFields, Counted, Goroutines
<1>2. \/ tm.idle > 0 /\ x = [empty EXCEPT !.idle = @ - 1]
      \/ tm.run > 0 /\ x \in OneLeaves(empty)
  BY DEF TokenTaken
<1> HIDE DEF empty
<1>3. CASE tm.idle > 0 /\ x = [empty EXCEPT !.idle = @ - 1]
  BY <1>1, <1>3 DEF TimerOK, Record, TimerFields, Counted, Goroutines
<1>4. CASE tm.run > 0 /\ x \in OneLeaves(empty)
  BY <1>1, <1>4, OneLeavesOK
<1> QED
  BY <1>2, <1>3, <1>4

(* A timer that expires sends its goroutine to the two statements.         *)
LEMMA ExpiredOK ==
  ASSUME NEW tm, TimerOK(tm), NEW x \in Expired(tm)
  PROVE  TimerOK(x) /\ Goroutines(x) = Goroutines(tm) /\ x.fired > 0
<1>1. tm.run > 0 /\ \E y \in OneLeaves(tm) : x = [y EXCEPT !.fired = @ + 1]
  BY DEF Expired, TimerOK, Counted
<1>2. PICK y \in OneLeaves(tm) : x = [y EXCEPT !.fired = @ + 1]
  BY <1>1
<1>3. TimerOK(y) /\ Goroutines(y) = Goroutines(tm) - 1
  BY <1>1, OneLeavesOK
<1>4. TimerOK(x) /\ x.fired > 0
  BY <1>2, <1>3 DEF TimerOK, Record, TimerFields, Counted
<1>5. Goroutines(x) = Goroutines(y) + 1
  BY <1>2, <1>3 DEF TimerOK, Record, TimerFields, Counted, Goroutines
<1>6. Goroutines(tm) \in Nat
  BY TimerTyped
<1> QED
  BY <1>3, <1>4, <1>5, <1>6

(* The two statements.                                                     *)
LEMMA DoneOK ==
  ASSUME NEW tm, TimerOK(tm)
  PROVE  /\ tm.fired > 0 => /\ TimerOK(FirstDone(tm)) /\ FirstDone(tm).late > 0
                            /\ Goroutines(FirstDone(tm)) = Goroutines(tm)
         /\ tm.late > 0 => /\ TimerOK(SecondDone(tm))
                           /\ Goroutines(SecondDone(tm)) = Goroutines(tm) - 1
<1>1. ASSUME tm.fired > 0
      PROVE  /\ TimerOK(FirstDone(tm)) /\ FirstDone(tm).late > 0
             /\ Goroutines(FirstDone(tm)) = Goroutines(tm)
  <2>1. Record(FirstDone(tm), TimerFields)
    BY DEF TimerOK, Record, FirstDone
  <2>2. /\ Counted(FirstDone(tm)) /\ FirstDone(tm).late > 0
        /\ Goroutines(FirstDone(tm)) = Goroutines(tm)
    BY <1>1 DEF TimerOK, Record, TimerFields, Counted, FirstDone, Goroutines
  <2> QED
    BY <2>1, <2>2 DEF TimerOK
<1>2. ASSUME tm.late > 0
      PROVE  TimerOK(SecondDone(tm)) /\ Goroutines(SecondDone(tm)) = Goroutines(tm) - 1
  BY <1>2 DEF TimerOK, Record, TimerFields, Counted, SecondDone, Goroutines
<1> QED
  BY <1>1, <1>2

(* Both statements in one step.                                            *)
LEMMA BothDoneOK ==
  ASSUME NEW tm, TimerOK(tm), tm.fired > 0
  PROVE  /\ TimerOK(SecondDone(FirstDone(tm)))
         /\ Goroutines(SecondDone(FirstDone(tm))) = Goroutines(tm) - 1
<1>1. /\ TimerOK(FirstDone(tm)) /\ FirstDone(tm).late > 0
      /\ Goroutines(FirstDone(tm)) = Goroutines(tm)
  BY DoneOK
<1> QED
  BY <1>1, DoneOK

(* Only a timer that runs out makes a goroutine reach its two statements.  *)
LEMMA FiredKept ==
  ASSUME NEW tm, TimerOK(tm)
  PROVE  /\ Started(tm).fired = tm.fired /\ Stopped(tm).fired = tm.fired
         /\ Restarted(tm).fired = tm.fired /\ Closed(tm).fired = tm.fired
         /\ Closed(Stopped(tm)).fired = tm.fired
         /\ \A x \in TokenTaken(tm) : x.fired = tm.fired
<1>1. ASSUME NEW y, TimerOK(y) PROVE Closed(y).fired = y.fired
  BY <1>1 DEF TimerOK, Record, TimerFields, Closed
<1>2. /\ Started(tm).fired = tm.fired /\ Stopped(tm).fired = tm.fired
      /\ Restarted(tm).fired = tm.fired
  BY DEF TimerOK, Record, TimerFields, Started, Stopped, Restarted
<1>3. Closed(tm).fired = tm.fired /\ Closed(Stopped(tm)).fired = tm.fired
  BY <1>1, <1>2, KeptOK
<1>4. ASSUME NEW x \in TokenTaken(tm) PROVE x.fired = tm.fired
  <2> DEFINE empty == [tm EXCEPT !.token = 0]
  <2>1. TimerOK(empty) /\ empty.fired = tm.fired
    BY DEF TimerOK, Record, TimerFields, Counted
  <2>2. x = [empty EXCEPT !.idle = @ - 1] \/ x \in OneLeaves(empty)
    BY <1>4 DEF TokenTaken
  <2> HIDE DEF empty
  <2>3. CASE x = [empty EXCEPT !.idle = @ - 1]
    BY <2>1, <2>3 DEF TimerOK, Record, TimerFields
  <2>4. CASE x \in OneLeaves(empty)
    <3>1. PICK c \in {FALSE, empty.newest /\ empty.run > 1} :
            x = [empty EXCEPT !.run = @ - 1, !.newest = c]
      BY <2>4 DEF OneLeaves
    <3> QED
      BY <2>1, <3>1 DEF TimerOK, Record, TimerFields
  <2> QED
    BY <2>2, <2>3, <2>4
<1> QED
  BY <1>2, <1>3, <1>4

(* The other parts that an operation leaves alone, the channel's token     *)
(* among them, which is gone when a goroutine has taken it.                *)
LEMMA PartsKept ==
  ASSUME NEW tm, TimerOK(tm)
  PROVE  /\ \A x \in TokenTaken(tm) : x.token = 0 /\ x.late = tm.late
         /\ \A x \in Expired(tm) : x.token = tm.token
         /\ /\ FirstDone(tm).token = tm.token /\ FirstDone(tm).run = tm.run
            /\ FirstDone(tm).idle = tm.idle
         /\ /\ SecondDone(tm).token = tm.token /\ SecondDone(tm).run = tm.run
            /\ SecondDone(tm).idle = tm.idle /\ SecondDone(tm).newest = tm.newest
            /\ SecondDone(tm).fired = tm.fired
<1> DEFINE empty == [tm EXCEPT !.token = 0]
<1>1. DOMAIN tm = TimerFields
  BY DEF TimerOK, Record
<1>2. /\ DOMAIN empty = TimerFields /\ empty.token = 0 /\ empty.late = tm.late
  BY <1>1 DEF TimerFields
<1>3. ASSUME NEW y, DOMAIN y = TimerFields, NEW x \in OneLeaves(y)
      PROVE  DOMAIN x = TimerFields /\ x.token = y.token /\ x.late = y.late
  <2>1. PICK b \in {FALSE, y.newest /\ y.run > 1} : x = [y EXCEPT !.run = @ - 1, !.newest = b]
    BY DEF OneLeaves
  <2> QED
    BY <1>3, <2>1 DEF TimerFields
<1>4. ASSUME NEW x \in TokenTaken(tm) PROVE x.token = 0 /\ x.late = tm.late
  <2>1. x = [empty EXCEPT !.idle = @ - 1] \/ x \in OneLeaves(empty)
    BY <1>4 DEF TokenTaken
  <2> HIDE DEF empty
  <2>2. CASE x = [empty EXCEPT !.idle = @ - 1]
    BY <1>2, <2>2 DEF TimerFields
  <2>3. CASE x \in OneLeaves(empty)
    BY <1>2, <1>3, <2>3
  <2> QED
    BY <2>1, <2>2, <2>3
<1>5. ASSUME NEW x \in Expired(tm) PROVE x.token = tm.token
  <2>1. PICK y \in OneLeaves(tm) : x = [y EXCEPT !.fired = @ + 1]
    BY <1>5 DEF Expired
  <2> QED
    BY <1>1, <1>3, <2>1 DEF TimerFields
<1>6. /\ FirstDone(tm).token = tm.token /\ FirstDone(tm).run = tm.run /\ FirstDone(tm).idle = tm.idle
  BY <1>1 DEF FirstDone, TimerFields
<1>7. /\ SecondDone(tm).token = tm.token /\ SecondDone(tm).run = tm.run
      /\ SecondDone(tm).idle = tm.idle /\ SecondDone(tm).newest = tm.newest
      /\ SecondDone(tm).fired = tm.fired
  BY <1>1 DEF SecondDone, TimerFields
<1> QED
  BY <1>4, <1>5, <1>6, <1>7

(* Without one that runs out no goroutine is on its way to them.           *)
Calm(tm) == tm.fired = 0 /\ tm.late = 0

LEMMA CalmKept ==
  ASSUME NEW tm, TimerOK(tm), Calm(tm)
  PROVE  /\ Calm(Started(tm)) /\ Calm(Stopped(tm)) /\ Calm(Restarted(tm)) /\ Calm(Closed(tm))
         /\ Calm(Closed(Stopped(tm))) /\ \A x \in TokenTaken(tm) : Calm(x)
<1>1. ASSUME NEW y, TimerOK(y) PROVE Closed(y).late = y.late
  BY <1>1 DEF TimerOK, Record, TimerFields, Closed
<1>2. Started(tm).late = tm.late /\ Stopped(tm).late = tm.late /\ Restarted(tm).late = tm.late
  BY DEF TimerOK, Record, TimerFields, Started, Stopped, Restarted
<1>3. Closed(tm).late = tm.late /\ Closed(Stopped(tm)).late = tm.late
  BY <1>1, <1>2, KeptOK
<1> QED
  BY <1>2, <1>3, FiredKept, PartsKept DEF Calm

(* An operation arms one goroutine, disarms some, or has them go on.       *)
LEMMA ArmedOK ==
  ASSUME NEW tm, TimerOK(tm)
  PROVE  /\ Armed(tm) \in Nat /\ Armed(Started(tm)) = Armed(tm) + 1
         /\ Armed(Closed(Stopped(tm))) \in Nat /\ Armed(Closed(Stopped(tm))) <= Armed(tm)
         /\ \A x \in TokenTaken(tm) : Armed(x) \in Nat /\ Armed(x) <= Armed(tm)
         /\ \A x \in Expired(tm) : Armed(x) = Armed(tm)
         /\ Armed(FirstDone(tm)) = Armed(tm) - 1
         /\ Armed(SecondDone(tm)) = Armed(tm)
<1> DEFINE empty == [tm EXCEPT !.token = 0]
<1>1. /\ DOMAIN tm = TimerFields /\ tm.run \in Nat /\ tm.fired \in Nat /\ tm.idle \in Nat
      /\ tm.newest \in BOOLEAN /\ (tm.newest => tm.run > 0)
  BY DEF TimerOK, Record, Counted
<1>2. /\ Armed(tm) \in Nat /\ Armed(Started(tm)) = Armed(tm) + 1
  <2>1. Started(tm).run = tm.run + 1 /\ Started(tm).fired = tm.fired
    BY <1>1 DEF Started, TimerFields
  <2> QED
    BY <1>1, <2>1 DEF Armed
<1>3. Armed(Closed(Stopped(tm))) \in Nat /\ Armed(Closed(Stopped(tm))) <= Armed(tm)
  <2> DEFINE y == Stopped(tm)
  <2>1. /\ DOMAIN y = TimerFields /\ y.fired = tm.fired
        /\ y.run = tm.run \/ (y.run = tm.run - 1 /\ tm.run > 0)
    BY <1>1 DEF Stopped, TimerFields
  <2> HIDE DEF y
  <2>2. Closed(y).run = y.run /\ Closed(y).fired = y.fired
    BY <2>1 DEF Closed, TimerFields
  <2>3. Armed(Closed(y)) \in Nat /\ Armed(Closed(y)) <= Armed(tm)
    BY <1>1, <2>1, <2>2 DEF Armed
  <2> QED
    BY <2>3 DEF y
<1>4. ASSUME NEW z, DOMAIN z = TimerFields, NEW x \in OneLeaves(z)
      PROVE  DOMAIN x = TimerFields /\ x.run = z.run - 1 /\ x.fired = z.fired
  <2>1. PICK b \in {FALSE, z.newest /\ z.run > 1} : x = [z EXCEPT !.run = @ - 1, !.newest = b]
    BY DEF OneLeaves
  <2> QED
    BY <1>4, <2>1 DEF TimerFields
<1>5. ASSUME NEW x \in TokenTaken(tm) PROVE Armed(x) \in Nat /\ Armed(x) <= Armed(tm)
  <2>1. /\ DOMAIN empty = TimerFields /\ empty.run = tm.run /\ empty.fired = tm.fired
        /\ empty.idle = tm.idle
    BY <1>1 DEF TimerFields
  <2>2. x = [empty EXCEPT !.idle = @ - 1] \/ (tm.run > 0 /\ x \in OneLeaves(empty))
    BY <1>5 DEF TokenTaken
  <2> HIDE DEF empty
  <2>3. CASE x = [empty EXCEPT !.idle = @ - 1]
    <3>1. x.run = tm.run /\ x.fired = tm.fired
      BY <2>1, <2>3 DEF TimerFields
    <3> QED
      BY <1>1, <3>1 DEF Armed
  <2>4. CASE tm.run > 0 /\ x \in OneLeaves(empty)
    <3>1. x.run = tm.run - 1 /\ x.fired = tm.fired
      BY <1>4, <2>1, <2>4
    <3> QED
      BY <1>1, <2>4, <3>1 DEF Armed
  <2> QED
    BY <2>2, <2>3, <2>4
<1>6. ASSUME NEW x \in Expired(tm) PROVE Armed(x) = Armed(tm)
  <2>1. PICK y \in OneLeaves(tm) : x = [y EXCEPT !.fired = @ + 1]
    BY <1>6 DEF Expired
  <2>2. DOMAIN y = TimerFields /\ y.run = tm.run - 1 /\ y.fired = tm.fired
    BY <1>1, <1>4
  <2>3. x.run = tm.run - 1 /\ x.fired = tm.fired + 1
    BY <2>1, <2>2 DEF TimerFields
  <2> QED
    BY <1>1, <2>3 DEF Armed
<1>7. Armed(FirstDone(tm)) = Armed(tm) - 1
  <2>1. FirstDone(tm).run = tm.run /\ FirstDone(tm).fired = tm.fired - 1
    BY <1>1 DEF FirstDone, TimerFields
  <2> QED
    BY <1>1, <2>1 DEF Armed
<1>8. Armed(SecondDone(tm)) = Armed(tm)
  <2>1. SecondDone(tm).run = tm.run /\ SecondDone(tm).fired = tm.fired
    BY <1>1 DEF SecondDone, TimerFields
  <2> QED
    BY <2>1 DEF Armed
<1> QED
  BY <1>2, <1>3, <1>5, <1>6, <1>7, <1>8

(* No counter is larger than the number of goroutines.                     *)
LEMMA CountersOK ==
  ASSUME NEW tm, TimerOK(tm), NEW n \in Nat, Goroutines(tm) <= n
  PROVE  tm \in Timers(0..n)
<1>1. tm.run \in 0..n /\ tm.idle \in 0..n /\ tm.fired \in 0..n /\ tm.late \in 0..n
  BY DEF TimerOK, Counted, Goroutines
<1> QED
  BY <1>1 DEF TimerOK, Record, TimerFields, Counted, Timers
=============================================================================
