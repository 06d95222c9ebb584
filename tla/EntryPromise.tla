---------------------------- MODULE EntryPromise ----------------------------
(***************************************************************************)
(* What the paper entry of one candidate promises, without orders, ledger  *)
(* rows, routes or restarts: every track ends either expired on its own,   *)
(* or decided together with all the tracks still open by ONE market        *)
(* observation that lies between the execution-ready instant and the       *)
(* deadline of each track it decides.  EntryRouter is the detailed         *)
(* specification; it implements this one.                                  *)
(***************************************************************************)
EXTENDS Naturals

CONSTANTS
    Tracks,        \* the paper tracks of one candidate
    Instants,      \* instants an observation may carry
    Cursors,       \* cursors of the source items
    ReadyAt,       \* signal time + execution latency
    ThroughAt      \* the last instant a track may still be entered

VARIABLE decision  \* track -> what became of its entry

Open          == [outcome |-> "OPEN",    at |-> 0, by |-> 0]
Expired(t)    == [outcome |-> "EXPIRED", at |-> ThroughAt[t] + 1, by |-> 0]
Settled(o, at, by) == [outcome |-> o, at |-> at, by |-> by]

OpenTracks == {t \in Tracks : decision[t].outcome = "OPEN"}

Init == decision = [t \in Tracks |-> Open]

(* A track whose window has passed expires alone; its siblings stay open.  *)
Expire(t) ==
    /\ decision[t] = Open
    /\ decision' = [decision EXCEPT ![t] = Expired(t)]

(* One observation settles every open track, all filled or all rejected    *)
(* for slippage.  It never settles a track after its window.               *)
Settle(o, at, by) ==
    /\ OpenTracks # {}
    /\ \A t \in OpenTracks : at \in ReadyAt .. ThroughAt[t]
    /\ decision' = [t \in Tracks |->
                      IF t \in OpenTracks THEN Settled(o, at, by)
                                          ELSE decision[t]]

Next ==
    \/ \E t \in Tracks : Expire(t)
    \/ \E o \in {"FILLED", "SLIPPED"}, at \in Instants, by \in Cursors :
         Settle(o, at, by)

Spec == Init /\ [][Next]_decision
=============================================================================
