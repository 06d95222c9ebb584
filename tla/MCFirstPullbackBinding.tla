----------------------- MODULE MCFirstPullbackBinding -----------------------
(* Small instances of FirstPullbackBinding for TLC.                        *)
EXTENDS FirstPullbackBinding

Row(sol, first, second) == [kind |-> "MARKET", sol |-> sol, says |-> <<first, second>>]

(* A row without price, a row on which both roles signal, the same from    *)
(* gap recovery, and one that ends a run and leaves the other waiting.     *)
MCFeed == {[kind |-> "SKIP", sol |-> FALSE, says |-> <<"WAIT", "WAIT">>],
           Row(TRUE, "SIGNAL", "SIGNAL"),
           Row(FALSE, "SIGNAL", "WAIT"),
           Row(TRUE, "WAIT", "FINISH")}

(* An exit clock, and a strategy clock past the deadlines that drives it.  *)
MCTicks == {[expires |-> FALSE, exit |-> TRUE], [expires |-> TRUE, exit |-> TRUE]}
=============================================================================
