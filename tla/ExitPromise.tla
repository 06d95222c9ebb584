---------------------------- MODULE ExitPromise -----------------------------
(***************************************************************************)
(* What the paper exit of one candidate promises, without routes, attempts *)
(* or restarts: every opened track is held, then leaves ONCE, for a reason *)
(* of its own rule inside its window or for its fallback one tick after    *)
(* it, and is closed at a market observation no earlier than the latency   *)
(* after the request.  What it once decided it never takes back.           *)
(* ExitTracks is the detailed specification; it implements this one as     *)
(* long as each of its statements commits on its own.                      *)
(***************************************************************************)
EXTENDS Naturals

CONSTANTS
    Tracks,     \* the opened tracks of one candidate
    Rule,       \* track -> the reason its own rule gives
    OpenAt,     \* the instant the positions were opened
    LastAt,   \* track -> the last instant its rule may be triggered
    Latency,    \* exit latency
    Instants    \* instants an observation may carry

VARIABLE holding  \* track -> [state, why, asked, left]

Held(t)             == [state |-> "HELD", why |-> "NONE", asked |-> 0, left |-> 0]
Leaving(w, a)       == [state |-> "LEAVING", why |-> w, asked |-> a, left |-> 0]
Left(h, b)          == [h EXCEPT !.state = "LEFT", !.left = b]

Init == holding = [t \in Tracks |-> Held(t)]

(* The rule asks at the observation that triggers it, the fallback at its  *)
(* own instant, however late the item that notices it.                     *)
Leave(t, w, a) ==
    /\ holding[t] = Held(t)
    /\ \/ w = Rule[t] /\ a \in OpenAt .. LastAt[t]
       \/ w = "FALLBACK" /\ a = LastAt[t] + 1
    /\ holding' = [holding EXCEPT ![t] = Leaving(w, a)]

Close(t, b) ==
    /\ holding[t].state = "LEAVING"
    /\ b >= holding[t].asked + Latency
    /\ holding' = [holding EXCEPT ![t] = Left(holding[t], b)]

Next == \E t \in Tracks, a \in Instants :
          Leave(t, Rule[t], a) \/ Leave(t, "FALLBACK", LastAt[t] + 1) \/ Close(t, a)

Spec == Init /\ [][Next]_holding
=============================================================================
