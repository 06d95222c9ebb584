----------------------------- MODULE ExitTracks -----------------------------
(***************************************************************************)
(* Paper exit of one candidate's opened positions: the exit orchestrator   *)
(* that decides when to leave (fixed take-profit, trailing stop, fallback  *)
(* timer), the bridge v0.3 that requests the exit in the lifecycle, and    *)
(* the fill executor that closes the position on a later observation.      *)
(*                                                                         *)
(* Every action that writes is ONE transaction of the code.  With Atomic   *)
(* FALSE each of them commits on its own, as under the bindings v0.1-v0.4; *)
(* with Atomic TRUE a batch of market rows commits as a whole, as under    *)
(* the binding v0.5, whose timers still commit statement by statement.     *)
(*                                                                         *)
(* Abstracted: prices (an observation carries its rule return, and fills   *)
(* or exceeds the exit slippage cap), position marks, other candidates.    *)
(* Only the last execution attempt is kept: attempts come in key order.    *)
(***************************************************************************)
EXTENDS Naturals

CONSTANTS
    NumTracks,   \* opened tracks 1 .. NumTracks, in the locked order
    Mode,        \* track -> "TP" or "TRAIL"
    Target,      \* track -> take-profit or activation return
    Giveback,    \* track -> fall from the peak that ends a trailing track
    Fallback,    \* track -> fallback of the locked exit specification
    SignalAt,    \* signal_observed_at
    OpenAt,      \* open_at, the instant of the entry observation
    Latency,     \* exit latency of the cost model
    Returns,     \* bound: the rule returns an observation may show
    MaxTime,     \* bound: the instants an item may carry
    MaxItems,    \* bound: source items delivered
    MaxCrashes,  \* bound: crashes of the process
    Atomic       \* TRUE: a batch of market rows is one commit

Tracks == 1 .. NumTracks

ASSUME TracksAssumption == NumTracks \in Nat \ {0}
ASSUME SpecAssumption   == /\ Mode \in [Tracks -> {"TP", "TRAIL"}]
                           /\ Target \in [Tracks -> Nat \ {0}]
                           /\ Giveback \in [Tracks -> Nat \ {0}]
                           /\ Fallback \in [Tracks -> Nat]
ASSUME EntryAssumption  == /\ SignalAt \in Nat /\ OpenAt \in Nat /\ Latency \in Nat
                           /\ SignalAt <= OpenAt
                           /\ \A t \in Tracks : OpenAt <= SignalAt + Fallback[t]
ASSUME BoundAssumption  == /\ Returns \subseteq Nat
                           /\ MaxTime \in Nat /\ MaxItems \in Nat /\ MaxCrashes \in Nat
ASSUME AtomicAssumption == Atomic \in BOOLEAN

VARIABLES
    position,   \* paper_positions: track -> [state, why, at]
    track,      \* paper_exit_track_states: track -> [bound, seen, fresh, active, peak]
    intent,     \* paper_exit_intents: track -> [why, at, by]
    exit,       \* paper_exit_execution_routes: track -> [state, ref, fill]
    attempt,    \* last of paper_exit_execution_attempts: track -> [at, by, verdict]
    committed,  \* last committed source cursor
    expected,   \* history: what the committed items decide without crashes
    item,       \* the source item being processed
    stage,      \* volatile: where in the handler the process is
    turn,       \* volatile: the track the handler is at
    crashes,    \* number of crashes so far
    saved       \* what the database returns to if the batch is rolled back

tables   == <<position, track, intent, exit, attempt>>
database == <<position, track, intent, exit, attempt, committed, expected>>
process  == <<item, stage, turn>>
vars     == <<database, process, crashes, saved>>

RollBack == /\ position'  = saved[1]
            /\ track'     = saved[2]
            /\ intent'    = saved[3]
            /\ exit'      = saved[4]
            /\ attempt'   = saved[5]
            /\ committed' = saved[6]
            /\ expected'  = saved[7]
-----------------------------------------------------------------------------
(* Observation keys (observed_at, ingest_seq): a cursor stands for the     *)
(* ingest sequence, 0 for anything before the first item.                  *)
Mark(a, b)  == [at |-> a, by |-> b]
NoMark      == Mark(0, 0)
After(k, l) == k.at > l.at \/ (k.at = l.at /\ k.by > l.by)

EntryMark   == Mark(OpenAt, 0)
SignalMark  == Mark(SignalAt, 0)
Deadline(t) == SignalAt + Fallback[t]
FireAt(t)   == Deadline(t) + 1

Intent(w, a, b) == [why |-> w, at |-> a, by |-> b]
NoIntent        == Intent("NONE", 0, 0)

(* Mistake: the fallback is stamped with the item that notices it.         *)
FallbackOfItem(t) == Intent("FALLBACK", item.at, 0)

FallbackOf(t) == Intent("FALLBACK", FireAt(t), 0)

(* Source items.  A market observation is unusable for the rules (gap      *)
(* recovery or a foreign price identity), or shows a rule return; as an    *)
(* execution observation it fills, slips, or has no price impact.          *)
Item(k, a, r, e) == [kind |-> k, at |-> a, ret |-> r, exec |-> e]
NoItem == Item("NONE", 0, 0, "NONE")
Times  == 0 .. MaxTime
Feed   == {Item("MARKET", a, r, e) : a \in Times, r \in Returns,
                                     e \in {"FILLS", "SLIPS", "NOIMPACT"}}
            \cup {Item("MARKET", a, 0, "UNUSABLE") : a \in Times}
            \cup {Item("CLOCK", a, 0, "NONE") : a \in Times}

Cursor == committed + 1
Here   == Mark(item.at, Cursor)
Usable == item.exec # "UNUSABLE"

IsFirst(t, S) == t \in S /\ \A u \in S : t <= u

(* _active_signal_keys: some position is still open or leaving.            *)
Active == \E t \in Tracks : position[t].state # "CLOSED"
Entered(i) == [stage |-> IF i.kind = "NONE" THEN "idle"
                         ELSE IF Active THEN "bind" ELSE "commit",
               turn  |-> 1]

(* Mistake: the next loop goes on from the track after the last one.       *)
AdvanceNoReset(t, here, next) ==
    /\ stage' = IF t = NumTracks THEN next ELSE here
    /\ turn'  = t + 1
    /\ UNCHANGED <<item, committed, expected, crashes, saved>>

(* The handler is through with a track: on to the next one, or on.         *)
Advance(t, here, next) ==
    /\ stage' = IF t = NumTracks THEN next ELSE here
    /\ turn'  = IF t = NumTracks THEN 1 ELSE t + 1
    /\ UNCHANGED <<item, committed, expected, crashes, saved>>

Stay(s) == /\ stage' = s
           /\ UNCHANGED <<item, turn, committed, expected, crashes, saved>>
-----------------------------------------------------------------------------
(* The rules without crashes, one step per item: what the orchestrator's   *)
(* on_market_observation and on_clock decide about a track.                *)
Watch0 == [seen |-> NoMark, active |-> FALSE, peak |-> 0, intent |-> NoIntent]

Judge(t, w, i, k) ==
    CASE Mode[t] = "TP" /\ i.ret >= Target[t]
           -> [w EXCEPT !.seen = k, !.intent = Intent("TAKE_PROFIT", i.at, k.by)]
      [] Mode[t] = "TRAIL" /\ ~w.active /\ i.ret >= Target[t]
           -> [w EXCEPT !.seen = k, !.active = TRUE, !.peak = i.ret]
      [] Mode[t] = "TRAIL" /\ w.active /\ i.ret > w.peak
           -> [w EXCEPT !.seen = k, !.peak = i.ret]
      [] Mode[t] = "TRAIL" /\ w.active /\ i.ret + Giveback[t] <= w.peak
           -> [w EXCEPT !.seen = k, !.intent = Intent("TRAIL", i.at, k.by)]
      [] OTHER -> [w EXCEPT !.seen = k]

Resolve(t, w, i, k) ==
    IF w.intent # NoIntent                                THEN w
    ELSE IF i.kind = "CLOCK" THEN IF i.at >= FireAt(t)
                                  THEN [w EXCEPT !.intent = FallbackOf(t)] ELSE w
    ELSE IF ~After(k, EntryMark)                          THEN w
    ELSE IF i.at > Deadline(t)  THEN [w EXCEPT !.intent = FallbackOf(t)]
    ELSE IF w.seen.by # 0 /\ ~After(k, w.seen)            THEN w
    ELSE IF i.exec = "UNUSABLE"                           THEN [w EXCEPT !.seen = k]
    ELSE Judge(t, w, i, k)

Init ==
    /\ position  = [t \in Tracks |-> [state |-> "OPEN", why |-> "OPENED", at |-> OpenAt]]
    /\ track     = [t \in Tracks |-> [bound |-> FALSE, seen |-> NoMark, fresh |-> NoMark,
                                      active |-> FALSE, peak |-> 0]]
    /\ intent    = [t \in Tracks |-> NoIntent]
    /\ exit      = [t \in Tracks |-> [state |-> "NONE", ref |-> NoMark, fill |-> NoMark]]
    /\ attempt   = [t \in Tracks |-> [at |-> 0, by |-> 0, verdict |-> "NONE"]]
    /\ committed = 0
    /\ expected  = [t \in Tracks |-> Watch0]
    /\ item      = NoItem
    /\ stage     = "idle"
    /\ turn      = 1
    /\ crashes   = 0
    /\ saved     = IF Atomic THEN database ELSE <<>>
-----------------------------------------------------------------------------
(* The runner takes an item.  A market row continues its batch or begins a *)
(* new one; a timer runs only after the batch before it has committed.     *)
Deliver(i) ==
    /\ stage = "idle"
    /\ committed < MaxItems
    /\ item'  = i
    /\ stage' = Entered(i).stage
    /\ turn'  = Entered(i).turn
    /\ saved' \in IF ~Atomic THEN {saved}
                  ELSE IF i.kind = "MARKET" THEN {saved, database} ELSE {database}
    /\ UNCHANGED <<database, crashes>>

(* bind_signal binds every opened track, before an item and on restart.    *)
Unbound == {t \in Tracks : ~track[t].bound}

BindTrack(t) ==
    /\ stage \in {"bind", "rebind"}
    /\ IsFirst(t, Unbound)
    /\ track' = [track EXCEPT ![t].bound = TRUE]
    /\ Stay(stage)
    /\ UNCHANGED <<position, intent, exit, attempt>>

Bound ==
    /\ stage = "bind"
    /\ Unbound = {}
    /\ Stay("see")
    /\ UNCHANGED tables

-----------------------------------------------------------------------------
(* The orchestrator, one track after the other.                            *)
At(s, t) == stage = s /\ turn = t

(* Mistake: a tick at the very fire instant does not fire the timer.       *)
PastFallbackStrictly(t) ==
    \/ item.kind = "CLOCK" /\ item.at > FireAt(t)
    \/ item.kind = "MARKET" /\ After(Here, EntryMark) /\ item.at > Deadline(t)

(* The observation is after the fallback deadline, or the timer has fired. *)
PastFallback(t) == \/ item.kind = "CLOCK" /\ item.at >= FireAt(t)
                   \/ /\ item.kind = "MARKET"
                      /\ After(Here, EntryMark)
                      /\ item.at > Deadline(t)

(* The observation is news to the track: after the entry and after what it *)
(* saw last.  A redelivered observation it has seen is an exact replay.    *)
News(t) == /\ item.kind = "MARKET"
           /\ After(Here, EntryMark)
           /\ track[t].seen.by # 0 => After(Here, track[t].seen)

Ignore(t) ==
    /\ At("see", t)
    /\ intent[t] # NoIntent \/ (~PastFallback(t) /\ ~News(t))
    /\ Advance(t, "see", "apply")
    /\ UNCHANGED tables

FireFallback(t) ==
    /\ At("see", t)
    /\ intent[t] = NoIntent
    /\ PastFallback(t)
    /\ intent' = [intent EXCEPT ![t] = FallbackOf(t)]
    /\ Advance(t, "see", "apply")
    /\ UNCHANGED <<position, track, exit, attempt>>

(* Mistake: a track with an intent goes on recording fresh marks.          *)
SeeAfterIntent(t) ==
    /\ At("see", t)
    /\ ~PastFallback(t) /\ News(t)
    /\ track' = [track EXCEPT ![t].seen = Here]
    /\ Stay("fresh")
    /\ UNCHANGED <<position, intent, exit, attempt>>

SeeObservation(t) ==
    /\ At("see", t)
    /\ intent[t] = NoIntent
    /\ ~PastFallback(t) /\ News(t)
    /\ track' = [track EXCEPT ![t].seen = Here]
    /\ Stay("fresh")
    /\ UNCHANGED <<position, intent, exit, attempt>>

SkipUnusable(t) ==
    /\ At("fresh", t)
    /\ ~Usable
    /\ Advance(t, "see", "apply")
    /\ UNCHANGED tables

RecordFresh(t) ==
    /\ At("fresh", t)
    /\ Usable
    /\ track' = [track EXCEPT ![t].fresh = Here]
    /\ Stay("rule")
    /\ UNCHANGED <<position, intent, exit, attempt>>

TakesProfit(t) == Mode[t] = "TP" /\ item.ret >= Target[t]
Activates(t)   == Mode[t] = "TRAIL" /\ ~track[t].active /\ item.ret >= Target[t]
RaisesPeak(t)  == Mode[t] = "TRAIL" /\ track[t].active /\ item.ret > track[t].peak

(* Mistake: a fall of exactly the giveback does not end the trail.         *)
GivesBackMore(t) == /\ Mode[t] = "TRAIL" /\ track[t].active
                    /\ item.ret + Giveback[t] < track[t].peak

GivesBack(t)   == /\ Mode[t] = "TRAIL" /\ track[t].active
                  /\ item.ret + Giveback[t] <= track[t].peak

ExitByRule(t) ==
    /\ At("rule", t)
    /\ TakesProfit(t) \/ GivesBack(t)
    /\ intent' = [intent EXCEPT ![t] =
                    Intent(IF Mode[t] = "TP" THEN "TAKE_PROFIT" ELSE "TRAIL", item.at, Cursor)]
    /\ Advance(t, "see", "apply")
    /\ UNCHANGED <<position, track, exit, attempt>>

MoveTrail(t) ==
    /\ At("rule", t)
    /\ Activates(t) \/ RaisesPeak(t)
    /\ track' = [track EXCEPT ![t].active = TRUE, ![t].peak = item.ret]
    /\ Advance(t, "see", "apply")
    /\ UNCHANGED <<position, intent, exit, attempt>>

Hold(t) ==
    /\ At("rule", t)
    /\ ~(TakesProfit(t) \/ GivesBack(t) \/ Activates(t) \/ RaisesPeak(t))
    /\ Advance(t, "see", "apply")
    /\ UNCHANGED tables

-----------------------------------------------------------------------------
(* The bridge applies the intents to the lifecycle.                        *)
Requested(t) == [state |-> "EXIT_PENDING", why |-> intent[t].why, at |-> intent[t].at]

RequestExit(t) ==
    /\ At("apply", t)
    /\ intent[t] # NoIntent
    /\ position[t].state = "OPEN"
    /\ position[t].at <= intent[t].at
    /\ position' = [position EXCEPT ![t] = Requested(t)]
    /\ Advance(t, "apply", "execute")
    /\ UNCHANGED <<track, intent, exit, attempt>>

NothingToRequest(t) ==
    /\ At("apply", t)
    /\ intent[t] # NoIntent => position[t].state # "OPEN"
    /\ Advance(t, "apply", "execute")
    /\ UNCHANGED tables

-----------------------------------------------------------------------------
(* The executor.  bind_position persists the price reference of the exit:  *)
(* the trigger, or for a fallback the last fresh mark or the signal.       *)
Reference(t) ==
    IF intent[t].why # "FALLBACK"    THEN Mark(intent[t].at, intent[t].by)
    ELSE IF track[t].fresh.by # 0    THEN track[t].fresh
    ELSE SignalMark

Leaving(t)  == position[t].state \in {"EXIT_PENDING", "CLOSED"}
Unrouted    == {t \in Tracks : Leaving(t) /\ exit[t].state = "NONE"}

OpenRoute(t) ==
    /\ At("execute", t) \/ (stage = "rebind" /\ Unbound = {} /\ IsFirst(t, Unrouted))
    /\ t \in Unrouted
    /\ intent[t] # NoIntent
    /\ exit' = [exit EXCEPT ![t] = [state |-> "WAITING", ref |-> Reference(t), fill |-> NoMark]]
    /\ Stay(stage)
    /\ UNCHANGED <<position, track, intent, attempt>>

(* Mistake: the exit latency is not waited for.                            *)
AttemptableAtOnce(t) ==
    /\ position[t].state = "EXIT_PENDING"
    /\ exit[t].state = "WAITING"
    /\ item.kind = "MARKET" /\ item.exec \in {"FILLS", "SLIPS"}
    /\ After(Here, exit[t].ref)
    /\ attempt[t].by # 0 => After(Here, attempt[t])

(* The observation is ready, causally after the reference, and not tried.  *)
Attemptable(t) ==
    /\ position[t].state = "EXIT_PENDING"
    /\ exit[t].state = "WAITING"
    /\ item.kind = "MARKET" /\ item.exec \in {"FILLS", "SLIPS"}
    /\ item.at >= intent[t].at + Latency
    /\ After(Here, exit[t].ref)
    /\ attempt[t].by # 0 => After(Here, attempt[t])

NoAttempt(t) ==
    /\ At("execute", t)
    /\ t \notin Unrouted
    /\ ~Attemptable(t)
    /\ Advance(t, "execute", "commit")
    /\ UNCHANGED tables

(* Mistake: the fill of an accepted attempt is left to the next start.     *)
PersistAttemptOnly(t) ==
    /\ At("execute", t)
    /\ Attemptable(t)
    /\ attempt' = [attempt EXCEPT ![t] =
                     [at |-> item.at, by |-> Cursor,
                      verdict |-> IF item.exec = "FILLS" THEN "ACCEPTED" ELSE "REJECTED"]]
    /\ Advance(t, "execute", "commit")
    /\ UNCHANGED <<position, track, intent, exit>>

PersistAttempt(t) ==
    /\ At("execute", t)
    /\ Attemptable(t)
    /\ attempt' = [attempt EXCEPT ![t] =
                     [at |-> item.at, by |-> Cursor,
                      verdict |-> IF item.exec = "FILLS" THEN "ACCEPTED" ELSE "REJECTED"]]
    /\ IF item.exec = "FILLS" THEN Stay("select") ELSE Advance(t, "execute", "commit")
    /\ UNCHANGED <<position, track, intent, exit>>

StageSelectedFill(t) ==
    /\ At("select", t)
    /\ exit' = [exit EXCEPT ![t].state = "SELECTED", ![t].fill = Here]
    /\ Stay("close")
    /\ UNCHANGED <<position, track, intent, attempt>>

(* _finalize_selected_route, after a selection and on restart.             *)
Selected     == {t \in Tracks : exit[t].state = "SELECTED"}
Finalizes(t) == At("close", t) \/ (stage = "recover" /\ IsFirst(t, Selected))
Closed(t)    == [state |-> "CLOSED", why |-> intent[t].why, at |-> exit[t].fill.at]

ClosePosition(t) ==
    /\ Finalizes(t)
    /\ position[t].state = "EXIT_PENDING"
    /\ position[t].at <= exit[t].fill.at
    /\ position' = [position EXCEPT ![t] = Closed(t)]
    /\ Stay(stage)
    /\ UNCHANGED <<track, intent, exit, attempt>>

FinishRoute(t) ==
    /\ Finalizes(t)
    /\ position[t] = Closed(t)
    /\ exit' = [exit EXCEPT ![t].state = "FILLED"]
    /\ IF stage = "close" THEN Advance(t, "execute", "commit") ELSE Stay(stage)
    /\ UNCHANGED <<position, track, intent, attempt>>

-----------------------------------------------------------------------------
CommitCursor ==
    /\ stage = "commit"
    /\ committed' = Cursor
    /\ expected' = [t \in Tracks |-> Resolve(t, expected[t], item, Here)]
    /\ item'  = NoItem
    /\ stage' = "idle"
    /\ turn'  = 1
    /\ UNCHANGED <<tables, crashes>>
    /\ saved' = IF Atomic /\ item.kind = "CLOCK" THEN database' ELSE saved

(* A crash loses the volatile state.  Inside a batch it also loses what    *)
(* the batch wrote; the source then delivers from the batch's first row.   *)
(* Between two items the batch is open or has just committed.              *)
Starting  == stage \in {"recover", "rebind"}
RollsBack == /\ Atomic
             /\ ~Starting
             /\ item.kind = "MARKET" \/ item = NoItem

Crash ==
    /\ stage # "down"
    /\ crashes < MaxCrashes
    /\ crashes' = crashes + 1
    /\ stage' = "down"
    /\ turn' = 1
    /\ \/ /\ RollsBack
          /\ RollBack
          /\ item' = NoItem
       \/ /\ ~RollsBack \/ item = NoItem
          /\ UNCHANGED <<database, item>>
    /\ saved' = IF Atomic THEN database' ELSE saved

(* The executor's constructor recovers selected fills, then the runner's   *)
(* rebinds every track and every leaving position.                         *)
Restart ==
    /\ stage = "down"
    /\ Stay("recover")
    /\ UNCHANGED tables

Recovered ==
    /\ stage = "recover"
    /\ Selected = {}
    /\ Stay("rebind")
    /\ UNCHANGED tables

Rebound ==
    /\ stage = "rebind"
    /\ Unbound = {} /\ Unrouted = {}
    /\ stage' = Entered(item).stage
    /\ turn'  = Entered(item).turn
    /\ saved' = IF Atomic THEN database ELSE saved
    /\ UNCHANGED <<database, item, crashes>>

-----------------------------------------------------------------------------
Handler ==
    \/ Bound \/ CommitCursor \/ Recovered \/ Rebound
    \/ \E t \in Tracks :
         \/ BindTrack(t) \/ Ignore(t) \/ FireFallback(t) \/ SeeObservation(t)
         \/ SkipUnusable(t) \/ RecordFresh(t) \/ ExitByRule(t) \/ MoveTrail(t) \/ Hold(t)
         \/ RequestExit(t) \/ NothingToRequest(t)
         \/ OpenRoute(t) \/ NoAttempt(t) \/ PersistAttempt(t)
         \/ StageSelectedFill(t) \/ ClosePosition(t) \/ FinishRoute(t)

(* The bounded source is exhausted; any other state without a successor is *)
(* a handler that raised, and a deadlock of the model.                     *)
SourceEnds ==
    /\ stage = "idle"
    /\ committed = MaxItems
    /\ UNCHANGED vars

Next ==
    \/ \E i \in Feed : Deliver(i)
    \/ Handler
    \/ Crash
    \/ Restart
    \/ SourceEnds

(* The process runs its handler to the end and is restarted by its         *)
(* operator; nothing obliges the source to deliver or the host to crash.   *)
Fairness == WF_vars(Handler) /\ WF_vars(Restart)

Spec == Init /\ [][Next]_vars /\ Fairness
-----------------------------------------------------------------------------
Marks    == [at : Times, by : 0 .. MaxItems]
Verdicts == {"NONE", "ACCEPTED", "REJECTED"}
Reasons  == {"NONE", "TAKE_PROFIT", "TRAIL", "FALLBACK"}
Intents  == {NoIntent} \cup [why : Reasons \ {"NONE"}, at : Nat, by : 0 .. MaxItems]

(* Type invariant of the tables, the item in flight and the volatile stage.*)
TypeOK ==
    /\ position \in [Tracks -> [state : {"OPEN", "EXIT_PENDING", "CLOSED"},
                               why : (Reasons \ {"NONE"}) \cup {"OPENED"}, at : Nat]]
    /\ track \in [Tracks -> [bound : BOOLEAN, seen : Marks, fresh : Marks,
                            active : BOOLEAN, peak : Returns \cup {0}]]
    /\ intent \in [Tracks -> Intents]
    /\ exit \in [Tracks -> [state : {"NONE", "WAITING", "SELECTED", "FILLED"},
                           ref : [at : Nat, by : 0 .. MaxItems], fill : Marks]]
    /\ attempt \in [Tracks -> [at : Times, by : 0 .. MaxItems, verdict : Verdicts]]
    /\ committed \in 0 .. MaxItems
    /\ item \in Feed \cup {NoItem}
    /\ stage \in {"idle", "bind", "see", "fresh", "rule", "apply", "execute", "select",
                  "close", "commit", "down", "recover", "rebind"}
    /\ turn \in Tracks
    /\ crashes \in 0 .. MaxCrashes

(* No schedule of items and crashes brings the tables to a state one of    *)
(* the fail-closed checks raises on, which a redelivery would repeat       *)
(* forever: request_exit and close_position out of order or against what   *)
(* they once wrote, bind_position without an intent or with a reference    *)
(* other than the one persisted, an activated trail without its peak, a    *)
(* second fill selected for a route.                                       *)
NeverRaises ==
    /\ \A t \in Tracks :
         /\ Leaving(t) => intent[t] # NoIntent /\ track[t].bound
         /\ position[t].state = "EXIT_PENDING" => position[t] = Requested(t)
         /\ exit[t].state # "NONE" => exit[t].ref = Reference(t)
         /\ track[t].active <=> track[t].peak # 0
    /\ stage = "apply" =>
         \A t \in Tracks :
           intent[t] # NoIntent /\ position[t].state = "OPEN" =>
             position[t].at <= intent[t].at
    /\ stage = "select" => exit[turn].state = "WAITING"
    /\ \A t \in Selected :
         \/ position[t].state = "EXIT_PENDING" /\ position[t].at <= exit[t].fill.at
         \/ position[t] = Closed(t)

(* A position is closed by ONE accepted attempt, the one its route names:  *)
(* causally after the price it is judged against, never within the exit    *)
(* latency, and never at the observation that asked for the exit.  When no *)
(* item is in flight the position and its route tell the same story.       *)
ClosedAtSelected ==
    /\ \A t \in Tracks :
         exit[t].state \in {"SELECTED", "FILLED"} =>
           /\ attempt[t] = [at |-> exit[t].fill.at, by |-> exit[t].fill.by,
                            verdict |-> "ACCEPTED"]
           /\ exit[t].fill.at >= intent[t].at + Latency
           /\ After(exit[t].fill, Reference(t))
           /\ exit[t].fill.by # intent[t].by
    /\ stage = "idle" =>
         \A t \in Tracks :
           /\ position[t].state = "CLOSED" <=> exit[t].state = "FILLED"
           /\ position[t].state = "EXIT_PENDING" <=> exit[t].state = "WAITING"

(* The exit decision is a function of the committed items alone: between   *)
(* two items each track has the intent and the trail that the rules give   *)
(* on those items without any crash.  A crash may then neither lose a      *)
(* trigger nor move it to a later observation.                             *)
ExitRuleFollowed ==
    stage = "idle" =>
      \A t \in Tracks :
        /\ intent[t] = expected[t].intent
        /\ track[t].active = expected[t].active
        /\ track[t].peak = expected[t].peak

(* An accepted exit fill is applied: between two items no position is left *)
(* waiting whose attempt was accepted.                                     *)
AcceptedExitFills ==
    stage = "idle" =>
      \A t \in Tracks :
        attempt[t].verdict = "ACCEPTED" => position[t].state = "CLOSED"

(* The fallback timer needs no price: once a clock tick past every         *)
(* fallback is delivered, every position is leaving or closed, in spite of *)
(* crashes and of triggers lost before.                                    *)
PastFallbacks == /\ item.kind = "CLOCK"
                 /\ \A t \in Tracks : item.at >= FireAt(t)

FallbackEnds == PastFallbacks ~> \A t \in Tracks : Leaving(t)

-----------------------------------------------------------------------------
(* Refinement.  The position row is the promise.                           *)
Holding(t) ==
    [state |-> CASE position[t].state = "OPEN"         -> "HELD"
                 [] position[t].state = "EXIT_PENDING" -> "LEAVING"
                 [] position[t].state = "CLOSED"       -> "LEFT",
     why   |-> IF position[t].state = "OPEN" THEN "NONE" ELSE position[t].why,
     asked |-> IF position[t].state = "OPEN" THEN 0 ELSE intent[t].at,
     left  |-> IF position[t].state = "CLOSED" THEN position[t].at ELSE 0]

Promise == INSTANCE ExitPromise WITH
               Rule     <- [t \in Tracks |-> IF Mode[t] = "TP" THEN "TAKE_PROFIT"
                                                              ELSE "TRAIL"],
               LastAt   <- [t \in Tracks |-> Deadline(t)],
               Instants <- Times,
               holding  <- [t \in Tracks |-> Holding(t)]

(* Every position leaves once, for its own rule or its fallback, at the    *)
(* instant of its trigger, and never reopens.                              *)
ExitPromised == Promise!Spec
=============================================================================
