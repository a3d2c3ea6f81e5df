---------------------------- MODULE RequestTimer ----------------------------
(***************************************************************************)
(* The timer of a request that waits for its answer, as every exchange of  *)
(* iot/gateway and iot_client/thing builds it: time.NewTimer, a goroutine  *)
(* in a select over timer.C and a channel of capacity 1 that closes it,    *)
(* and a handler that calls Stop and sends the token when the answer       *)
(* comes. Each NewTimer starts a goroutine of its own; the token goes to   *)
(* whichever of them takes it, and stays in the channel when none waits.   *)
(***************************************************************************)
EXTENDS Naturals

(* run, idle: goroutines in the select whose timer runs, has been stopped; *)
(* newest: the timer in the struct field runs (and is counted in run);     *)
(* token: what is in the close channel; fired: goroutines whose timer      *)
(* expired and which have not yet done the first of their two statements;  *)
(* late: those that have still to do the second.                           *)
NoTimer == [run |-> 0, idle |-> 0, newest |-> FALSE, token |-> 0, fired |-> 0, late |-> 0]

Timers(Counts) == [run : Counts, idle : Counts, newest : BOOLEAN, token : 0..1, fired : Counts,
                   late : Counts]

Started(tm) == [tm EXCEPT !.run = @ + 1, !.newest = TRUE]

(* Mutant: a timer that no longer runs is counted as stopped once more.    *)
StoppedTwice(tm) == [tm EXCEPT !.run = @ - 1, !.idle = @ + 1, !.newest = FALSE]
Stopped(tm) == IF tm.newest THEN [tm EXCEPT !.run = @ - 1, !.idle = @ + 1, !.newest = FALSE]
                            ELSE tm

(* Timer.Reset: the goroutine that still waits is timed again.             *)
Restarted(tm) == IF tm.idle > 0 THEN [tm EXCEPT !.run = @ + 1, !.idle = @ - 1, !.newest = TRUE]
                                ELSE tm

(* close <- true blocks while an earlier token lies in the channel.        *)
CanClose(tm) == tm.token = 0
Closed(tm)   == [tm EXCEPT !.token = 1]

(* A goroutine of a running timer leaves the select; which one is open.    *)
OneLeaves(tm) == {[tm EXCEPT !.run = @ - 1, !.newest = b] :
                    b \in {FALSE, tm.newest /\ tm.run > 1}}

(* The outcomes of a goroutine taking the token, of a timer that expires.  *)
TokenTaken(tm) ==
  IF tm.token = 0 THEN {}
  ELSE LET empty == [tm EXCEPT !.token = 0]
       IN  (IF tm.idle > 0 THEN {[empty EXCEPT !.idle = @ - 1]} ELSE {})
           \cup (IF tm.run > 0 THEN OneLeaves(empty) ELSE {})

Expired(tm) == IF tm.run = 0 THEN {}
               ELSE {[x EXCEPT !.fired = @ + 1] : x \in OneLeaves(tm)}

(* The two statements of a goroutine whose timer expired.                  *)
FirstDone(tm)  == [tm EXCEPT !.fired = @ - 1, !.late = @ + 1]
SecondDone(tm) == [tm EXCEPT !.late = @ - 1]
=============================================================================
