---------------------------- MODULE FencePromise ----------------------------
(***************************************************************************)
(* What the FirstPullback binding promises about clocks and rows: a timer  *)
(* captures the last row of the source when it is prepared, runs after     *)
(* every row up to that watermark, and before any row beyond it.           *)
(***************************************************************************)
EXTENDS Naturals

CONSTANTS Timers     \* the timer identities

VARIABLES
    produced,   \* rows the source holds
    taken,      \* rows consumed, a prefix of them
    due         \* prepared timers that have not run: a set of [timer, watermark]

pvars == <<produced, taken, due>>

Init == produced = 0 /\ taken = 0 /\ due = {}

Produce == /\ produced' = produced + 1
           /\ UNCHANGED <<taken, due>>

(* A batch of rows: no row is taken past the watermark of a waiting timer. *)
Take(n) == /\ n \in taken + 1 .. produced
           /\ \A d \in due : n <= d.watermark
           /\ taken' = n
           /\ UNCHANGED <<produced, due>>

Prepare(t) == /\ \A d \in due : d.timer # t
              /\ due' = due \cup {[timer |-> t, watermark |-> produced]}
              /\ UNCHANGED <<produced, taken>>

(* The timer that runs has the least watermark, and all its rows are in.   *)
Run(d) == /\ taken = d.watermark
          /\ \A e \in due : d.watermark <= e.watermark
          /\ due' = due \ {d}
          /\ UNCHANGED <<produced, taken>>

Next == \/ Produce
        \/ \E n \in taken + 1 .. produced : Take(n)
        \/ \E t \in Timers : Prepare(t)
        \/ \E d \in due : Run(d)

Spec == Init /\ [][Next]_pvars
=============================================================================
