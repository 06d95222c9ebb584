------------------------ MODULE FirstPullbackBinding ------------------------
(***************************************************************************)
(* The FirstPullback binding: it consumes the collector's rows behind a    *)
(* durable cursor, judges each row by the strategy, writes what follows    *)
(* into an outbox whose sequence numbers are the runner's source cursors,  *)
(* and delivers it.  A prepared timer captures the last row of the source  *)
(* and fences the rows beyond it until it is complete.                     *)
(*                                                                         *)
(* Every action that writes is ONE transaction of the code.  With atomic   *)
(* FALSE each of them commits on its own (v0.4); with atomic TRUE a batch  *)
(* of rows commits as a whole (v0.5) and timers commit one by one.         *)
(*                                                                         *)
(* Abstracted: one mint; what the strategy says of a row is the row's own  *)
(* data, and every run has its deadline once it is open; what the runner   *)
(* does with an item (see EntryRouter and ExitTracks); rowids are dense.   *)
(***************************************************************************)
EXTENDS Naturals, FiniteSets, SequencesExt

CONSTANTS
    NumRoles,    \* strategy roles 1 .. NumRoles, in the locked order
    Feed,        \* bound: the rows the collector may append
    Ticks,       \* bound: what a prepared timer may mean
    BatchSize,   \* rows fetched at most by process_next_batch
    Driver,      \* who drives timers: "DRAIN" (v0.4) or "GRACEFUL" (phase 6)
    Modes,       \* the values of atomic to explore
    MaxRows,     \* bound: rows of the source
    MaxTimers,   \* bound: timers prepared
    MaxCrashes   \* bound: crashes of the process

Roles    == 1 .. NumRoles
Outcomes == {"WAIT", "SIGNAL", "FINISH"}

ASSUME RolesAssumption  == NumRoles \in Nat \ {0}
ASSUME FeedAssumption   == /\ Feed \subseteq [kind : {"MARKET", "SKIP"}, sol : BOOLEAN,
                                              says : [Roles -> Outcomes]]
                           /\ Ticks \subseteq [expires : BOOLEAN, exit : BOOLEAN]
ASSUME DriverAssumption == Driver \in {"DRAIN", "GRACEFUL"} /\ Modes \subseteq BOOLEAN
ASSUME BoundAssumption  == /\ BatchSize \in Nat \ {0} /\ MaxRows \in Nat
                           /\ MaxTimers \in Nat /\ MaxCrashes \in Nat

VARIABLES
    source,     \* the collector's pump_events: a sequence of rows
    cursor,     \* last_durable_p1_rowid
    inputs,     \* binding_inputs: input -> ABSENT, PLANNED, COMPLETE
    runs,       \* binding_strategy_runs: role -> state of its run
    won,        \* roles whose run holds a candidate_signal_id
    unaudited,  \* evaluation ledger: input -> roles not yet delivered
    outbox,     \* binding_outbox: event_sequence -> [input, event, delivered]
    timers,     \* prepared_timers: key -> [status, watermark, tick]
    accepted,   \* history: event sequences in the order the runner committed
    stage,      \* volatile: where in the handler the process is
    input,      \* volatile: the input being handled
    limit,      \* volatile: last row the current batch admits
    request,    \* volatile: the timer being driven, 0 for none
    atomic,     \* which binding this is
    crashes,    \* number of crashes so far
    saved       \* what an open batch transaction would be rolled back to

database == <<cursor, inputs, runs, won, unaudited, outbox, timers, accepted>>
process  == <<stage, input, limit, request>>
vars     == <<source, database, process, atomic, crashes, saved>>

(* Mistake: the runner's commits are not part of the batch transaction.    *)
RollBackWithoutRunner ==
            /\ cursor'    = saved[1]
            /\ inputs'    = saved[2]
            /\ runs'      = saved[3]
            /\ won'       = saved[4]
            /\ unaudited' = saved[5]
            /\ outbox'    = saved[6]
            /\ timers'    = saved[7]
            /\ accepted'  = accepted

RollBack == /\ cursor'    = saved[1]
            /\ inputs'    = saved[2]
            /\ runs'      = saved[3]
            /\ won'       = saved[4]
            /\ unaudited' = saved[5]
            /\ outbox'    = saved[6]
            /\ timers'    = saved[7]
            /\ accepted'  = saved[8]
-----------------------------------------------------------------------------
P1(r)    == <<"P1", r>>
Timer(k) == <<"TIMER", k>>
NoInput  == <<"NONE", 0>>
Rows     == 1 .. MaxRows
Keys     == 1 .. MaxTimers
Inputs   == {P1(r) : r \in Rows} \cup {Timer(k) : k \in Keys}

Latest     == Len(source)
Incomplete == {k \in Keys : timers[k].status \in {"PREPARED", "PLANNED"}}

(* _active_timer_fence: the least watermark of the incomplete timers.      *)
HasFence == Incomplete # {}
Fence    == Min({timers[k].watermark : k \in Incomplete})

Event(k, r) == [kind |-> k, role |-> r]
-----------------------------------------------------------------------------
(* The plan of a row.  State of the strategy: what = [runs, won].          *)
Running(what, r) == what.runs[r] \in {"ABSENT", "OPEN"}
Wins(row, what, r) == row.sol /\ Running(what, r) /\ row.says[r] = "SIGNAL"

(* Mistake: the role loop goes on after the winning candidate.             *)
JudgedAll(row, what) ==
    IF row.kind = "SKIP" \/ what.won # {} THEN {} ELSE Roles

(* A mint with a winner is locked, and the winning candidate of the row    *)
(* ends the loop over the roles.                                           *)
Judged(row, what) ==
    IF row.kind = "SKIP" \/ what.won # {} THEN {}
    ELSE {r \in Roles : \A q \in 1 .. r - 1 : ~Wins(row, what, q)}

Evaluated(row, what) == {r \in Judged(row, what) : Running(what, r)}

AfterRow(row, what) ==
    [runs |-> [r \in Roles |->
                 IF r \notin Evaluated(row, what) THEN what.runs[r]
                 ELSE CASE row.says[r] = "WAIT"   -> "OPEN"
                        [] row.says[r] = "SIGNAL" -> "SIGNALED"
                        [] row.says[r] = "FINISH" -> "FINISHED"],
     won  |-> what.won \cup {r \in Judged(row, what) : Wins(row, what, r)}]

(* The roles of a set in the locked order, as events of one kind each.     *)
InOrderOf(S, kind) ==
    [i \in 1 .. Cardinality(S) |->
       LET r == CHOOSE r \in S : Cardinality({q \in S : q < r}) = i - 1
       IN  Event(kind[r], r)]

RowEvents(row, what) ==
    LET telling == {r \in Evaluated(row, what) : row.says[r] # "WAIT"}
        kind == [r \in Roles |-> IF row.says[r] = "SIGNAL" THEN "CANDIDATE" ELSE "TERMINAL"]
    IN  IF row.kind = "SKIP" THEN <<>>
        ELSE Append(InOrderOf(telling, kind), Event("MARKET", 0))

(* The plan of a timer: expiry of the open runs of a mint without winner.  *)
Expired(tick, what) ==
    IF tick.expires /\ what.won = {} THEN {r \in Roles : what.runs[r] = "OPEN"} ELSE {}

AfterTick(tick, what) ==
    [what EXCEPT !.runs = [r \in Roles |-> IF r \in Expired(tick, what)
                                           THEN "FINISHED" ELSE what.runs[r]]]

TickEvents(tick, what) ==
    InOrderOf(Expired(tick, what), [r \in Roles |-> "TERMINAL"])
          \o IF tick.exit THEN <<Event("CLOCK", 0)>> ELSE <<>>

Strategy == [runs |-> runs, won |-> won]

Init ==
    /\ source    = <<>>
    /\ cursor    = 0
    /\ inputs    = [i \in Inputs |-> "ABSENT"]
    /\ runs      = [r \in Roles |-> "ABSENT"]
    /\ won       = {}
    /\ unaudited = [i \in Inputs |-> {}]
    /\ outbox    = <<>>
    /\ timers    = [k \in Keys |-> [status |-> "NONE", watermark |-> 0,
                                    tick |-> [expires |-> FALSE, exit |-> FALSE]]]
    /\ accepted  = <<>>
    /\ stage     = "idle"
    /\ input     = NoInput
    /\ limit     = 0
    /\ request   = 0
    /\ atomic    \in Modes
    /\ crashes   = 0
    /\ saved     = <<>>
-----------------------------------------------------------------------------
(* The collector appends to its own database whenever it likes.            *)
Collect(row) ==
    /\ Latest < MaxRows
    /\ source' = Append(source, row)
    /\ UNCHANGED <<database, process, atomic, crashes, saved>>

Outside == <<source, atomic, crashes>>

(* Mistake: a prepared timer does not bound the batch.                     *)
AdmittedUnfenced == Min({cursor + BatchSize, Latest})

(* process_next_batch: rows after the cursor, none beyond the fence.       *)
Admitted == Min({cursor + BatchSize, Latest}
                  \cup IF HasFence THEN {Fence} ELSE {})

StartBatch ==
    /\ cursor < Admitted
    /\ stage' = "row"
    /\ input' = P1(cursor + 1)
    /\ limit' = Admitted
    /\ saved' = IF atomic THEN database ELSE saved
    /\ UNCHANGED <<database, request, Outside>>

Poll == stage = "idle" /\ StartBatch

(* Mistake: the watermark is taken from the binding, not from the source.  *)
WatermarkAtCursor == cursor

Watermark == Latest

(* prepare_clock_tick, the first half of every clock cycle.  The caller's  *)
(* timer ids sort in the order of their preparation.                       *)
Tick(k, tick) ==
    /\ stage = "idle"
    /\ timers[k].status = "NONE"
    /\ \A j \in 1 .. k - 1 : timers[j].status # "NONE"
    /\ timers' = [timers EXCEPT ![k] = [status |-> "PREPARED", watermark |-> Watermark,
                                        tick |-> tick]]
    /\ request' = k
    /\ stage' = "drain"
    /\ UNCHANGED <<cursor, inputs, runs, won, unaudited, outbox, accepted,
                   input, limit, saved, Outside>>

(* The same timer requested again, as after a restart: nothing is written. *)
TickAgain(k) ==
    /\ stage = "idle"
    /\ k \in Incomplete
    /\ request' = k
    /\ stage' = "drain"
    /\ UNCHANGED <<database, input, limit, saved, Outside>>

(* Mistake: the drain heads for the requested timer past other fences.     *)
TargetRequested == timers[request].watermark

(* The active drain goes to the least active watermark and runs all timers *)
(* there in key order; the phase 6 worker goes to its own timer's.         *)
Target == IF Driver = "DRAIN" THEN Fence ELSE timers[request].watermark

(* Mistake: the last timer prepared runs first.                            *)
NextTimerLast == Max({k \in Incomplete : timers[k].watermark = Fence})

NextTimer == IF Driver = "DRAIN"
             THEN Min({k \in Incomplete : timers[k].watermark = Fence})
             ELSE request

Drained == /\ timers[request].status = "COMPLETE"
           /\ Driver = "DRAIN" =>
                \A k \in Incomplete : timers[k].watermark # timers[request].watermark

DrainBatch ==
    /\ stage = "drain"
    /\ ~Drained
    /\ cursor < Target
    /\ StartBatch

Undelivered(i) == {s \in DOMAIN outbox : outbox[s].input = i /\ ~outbox[s].delivered}

(* The phase 6 worker fails for good if the outbox is not empty by now.    *)
EndDrain ==
    /\ stage = "drain"
    /\ Drained
    /\ request' = 0
    /\ stage' = IF Driver = "GRACEFUL" /\ \E i \in Inputs : Undelivered(i) # {}
                THEN "failed" ELSE "idle"
    /\ UNCHANGED <<database, input, limit, saved, Outside>>
-----------------------------------------------------------------------------
(* _persist_input_and_events: the input, its evaluations and its events    *)
(* are one transaction with the strategy state they come from.             *)
Post(i, events) ==
    outbox \o [j \in 1 .. Len(events) |->
                 [input |-> i, event |-> events[j], delivered |-> FALSE]]

PlanRow(r) ==
    LET row == source[r] IN
    /\ stage = "row"
    /\ input = P1(r)
    /\ inputs[input] = "ABSENT"
    /\ inputs' = [inputs EXCEPT ![input] = "PLANNED"]
    /\ runs' = AfterRow(row, Strategy).runs
    /\ won' = AfterRow(row, Strategy).won
    /\ unaudited' = [unaudited EXCEPT ![input] = Evaluated(row, Strategy)]
    /\ outbox' = Post(input, RowEvents(row, Strategy))
    /\ stage' = "audit"
    /\ UNCHANGED <<cursor, timers, accepted, input, limit, request, saved, Outside>>

(* The cursor has reached the target: the timers there are executed.       *)
Ready(k) == /\ stage = "drain"
            /\ ~Drained
            /\ cursor >= Target
            /\ k = NextTimer

PlanTimer(k) ==
    LET tick == timers[k].tick IN
    /\ Ready(k)
    /\ timers[k].status = "PREPARED"
    /\ timers' = [timers EXCEPT ![k].status = "PLANNED"]
    /\ input' = Timer(k)
    /\ inputs' = [inputs EXCEPT ![Timer(k)] = "PLANNED"]
    /\ runs' = AfterTick(tick, Strategy).runs
    /\ unaudited' = [unaudited EXCEPT ![Timer(k)] = Expired(tick, Strategy)]
    /\ outbox' = Post(Timer(k), TickEvents(tick, Strategy))
    /\ stage' = "audit"
    /\ UNCHANGED <<cursor, won, accepted, limit, request, saved, Outside>>

(* An input planned before a crash is not planned again.                   *)
ReplayRow ==
    /\ stage = "row"
    /\ inputs[input] = "PLANNED"
    /\ stage' = "audit"
    /\ UNCHANGED <<database, input, limit, request, saved, Outside>>

ReplayTimer(k) ==
    /\ Ready(k)
    /\ timers[k].status = "PLANNED"
    /\ input' = Timer(k)
    /\ stage' = "audit"
    /\ UNCHANGED <<database, limit, request, saved, Outside>>
-----------------------------------------------------------------------------
(* _drain_evaluations: all evaluations of an input in one transaction.     *)
DeliverEvaluations ==
    /\ stage = "audit"
    /\ unaudited' = [unaudited EXCEPT ![input] = {}]
    /\ stage' = "deliver"
    /\ UNCHANGED <<cursor, inputs, runs, won, outbox, timers, accepted,
                   input, limit, request, saved, Outside>>

(* _drain_input: the runner commits an item as its source cursor, or says  *)
(* ALREADY_COMMITTED; it raises on a cursor below the committed one.       *)
RunnerCursor == IF accepted = <<>> THEN 0 ELSE Last(accepted)
NextItem     == Min(Undelivered(input))

RunnerAccepts ==
    /\ stage = "deliver"
    /\ Undelivered(input) # {}
    /\ NextItem >= RunnerCursor
    /\ accepted' = IF NextItem > RunnerCursor THEN Append(accepted, NextItem) ELSE accepted
    /\ stage' = "acknowledge"
    /\ UNCHANGED <<cursor, inputs, runs, won, unaudited, outbox, timers,
                   input, limit, request, saved, Outside>>

MarkDelivered ==
    /\ stage = "acknowledge"
    /\ outbox' = [outbox EXCEPT ![NextItem].delivered = TRUE]
    /\ stage' = "deliver"
    /\ UNCHANGED <<cursor, inputs, runs, won, unaudited, timers, accepted,
                   input, limit, request, saved, Outside>>

HandledAll == /\ stage = "deliver"
              /\ Undelivered(input) = {} /\ unaudited[input] = {}

(* Mistake: the cursor moves as soon as the plan of the row is written.    *)
CompleteRowEarly(r) ==
    /\ stage \in {"audit", "deliver"}
    /\ input = P1(r)
    /\ inputs' = [inputs EXCEPT ![input] = "COMPLETE"]
    /\ cursor' = r
    /\ IF r < limit
       THEN /\ stage' = "row" /\ input' = P1(r + 1)
            /\ UNCHANGED <<limit, saved>>
       ELSE /\ stage' = IF request = 0 THEN "idle" ELSE "drain"
            /\ input' = NoInput /\ limit' = 0 /\ saved' = <<>>
    /\ UNCHANGED <<runs, won, unaudited, outbox, timers, accepted, request, Outside>>

(* _complete_production_input moves the durable cursor with the input; the *)
(* last row of a batch ends it, and with it the batch transaction.         *)
CompleteRow(r) ==
    /\ HandledAll
    /\ input = P1(r)
    /\ inputs' = [inputs EXCEPT ![input] = "COMPLETE"]
    /\ cursor' = r
    /\ IF r < limit
       THEN /\ stage' = "row" /\ input' = P1(r + 1)
            /\ UNCHANGED <<limit, saved>>
       ELSE /\ stage' = IF request = 0 THEN "idle" ELSE "drain"
            /\ input' = NoInput /\ limit' = 0 /\ saved' = <<>>
    /\ UNCHANGED <<runs, won, unaudited, outbox, timers, accepted, request, Outside>>

CompleteTimerInput(k) ==
    /\ HandledAll
    /\ input = Timer(k)
    /\ inputs' = [inputs EXCEPT ![input] = "COMPLETE"]
    /\ stage' = "finish"
    /\ UNCHANGED <<cursor, runs, won, unaudited, outbox, timers, accepted,
                   input, limit, request, saved, Outside>>

CompleteTimer(k) ==
    /\ stage = "finish"
    /\ input = Timer(k)
    /\ timers' = [timers EXCEPT ![k].status = "COMPLETE"]
    /\ input' = NoInput
    /\ stage' = "drain"
    /\ UNCHANGED <<cursor, inputs, runs, won, unaudited, outbox, accepted,
                   limit, request, saved, Outside>>
-----------------------------------------------------------------------------
(* A crash loses the volatile state, and the batch that is open.           *)
Crash ==
    /\ stage \notin {"down", "failed"}
    /\ crashes < MaxCrashes
    /\ crashes' = crashes + 1
    /\ \/ saved # <<>> /\ RollBack
       \/ saved = <<>> /\ UNCHANGED database
    /\ stage' = "down" /\ input' = NoInput /\ limit' = 0 /\ request' = 0
    /\ saved' = <<>>
    /\ UNCHANGED <<source, atomic>>

Restart ==
    /\ stage = "down"
    /\ stage' = "idle"
    /\ UNCHANGED <<database, input, limit, request, saved, Outside>>

Handler ==
    \/ DrainBatch \/ EndDrain \/ ReplayRow \/ DeliverEvaluations
    \/ RunnerAccepts \/ MarkDelivered
    \/ \E r \in Rows : PlanRow(r) \/ CompleteRow(r)
    \/ \E k \in Keys : PlanTimer(k) \/ ReplayTimer(k) \/ CompleteTimerInput(k)
                         \/ CompleteTimer(k)

Next ==
    \/ \E row \in Feed : Collect(row)
    \/ Poll
    \/ \E k \in Keys : TickAgain(k) \/ \E tick \in Ticks : Tick(k, tick)
    \/ Handler
    \/ Crash
    \/ Restart

(* The process runs what it has begun to the end; nothing obliges the      *)
(* collector to append, the clock to tick or the host to crash.            *)
Spec == Init /\ [][Next]_vars /\ WF_vars(Handler)
-----------------------------------------------------------------------------
Runs     == {"ABSENT", "OPEN", "SIGNALED", "FINISHED"}
Events   == [kind : {"CANDIDATE", "TERMINAL", "MARKET", "CLOCK"}, role : Roles \cup {0}]
Statuses == {"NONE", "PREPARED", "PLANNED", "COMPLETE"}

(* Type invariant of the tables and the volatile state.                    *)
TypeOK ==
    /\ source \in Seq(Feed) /\ Latest <= MaxRows
    /\ cursor \in 0 .. Latest
    /\ inputs \in [Inputs -> {"ABSENT", "PLANNED", "COMPLETE"}]
    /\ runs \in [Roles -> Runs] /\ won \in SUBSET Roles
    /\ unaudited \in [Inputs -> SUBSET Roles]
    /\ outbox \in Seq([input : Inputs, event : Events, delivered : BOOLEAN])
    /\ timers \in [Keys -> [status : Statuses, watermark : 0 .. MaxRows,
                            tick : [expires : BOOLEAN, exit : BOOLEAN]]]
    /\ accepted \in Seq(DOMAIN outbox)
    /\ stage \in {"idle", "drain", "row", "audit", "deliver", "acknowledge", "finish",
                  "down", "failed"}
    /\ input \in Inputs \cup {NoInput}
    /\ limit \in 0 .. Latest
    /\ request \in Keys \cup {0}
    /\ crashes \in 0 .. MaxCrashes

(* No schedule of rows, timers and crashes brings the tables to a state a  *)
(* fail-closed check raises on, at every later start again: a timer behind *)
(* the durable cursor, an undelivered item below the runner's cursor, a    *)
(* completed input with something left to deliver.                         *)
NeverRaises ==
    /\ \A k \in Incomplete : cursor <= timers[k].watermark
    /\ \A i \in Inputs :
         /\ \A s \in Undelivered(i) : s >= RunnerCursor
         /\ inputs[i] = "COMPLETE" => Undelivered(i) = {} /\ unaudited[i] = {}
    /\ stage = "row" => inputs[input] # "COMPLETE"

(* What the runner should see: the rows and timers in their causal order,  *)
(* every row followed by the timers that captured it, in key order, and    *)
(* the strategy judging each of them once.                                 *)
Scheduled == {P1(r) : r \in 1 .. Latest}
               \cup {Timer(k) : k \in {j \in Keys : timers[j].status # "NONE"}}

(* The row that an input is, or that it comes after.                       *)
At(i) == IF i[1] = "P1" THEN i[2] ELSE timers[i[2]].watermark

Before(i, j) ==
    \/ At(i) < At(j)
    \/ At(i) = At(j) /\ j[1] = "TIMER" /\ (i[1] = "P1" \/ i[2] < j[2])

Place(i) == Cardinality({j \in Scheduled : Before(j, i)}) + 1

Schedule ==
    [p \in 1 .. Cardinality(Scheduled) |-> CHOOSE i \in Scheduled : Place(i) = p]

Fresh == [runs |-> [r \in Roles |-> "ABSENT"], won |-> {}, log |-> <<>>]

Judge(i, sofar) ==
    LET what   == [runs |-> sofar.runs, won |-> sofar.won]
        after  == IF i[1] = "P1" THEN AfterRow(source[i[2]], what)
                                 ELSE AfterTick(timers[i[2]].tick, what)
        events == IF i[1] = "P1" THEN RowEvents(source[i[2]], what)
                                 ELSE TickEvents(timers[i[2]].tick, what)
    IN  [runs |-> after.runs, won |-> after.won,
         log  |-> sofar.log \o [j \in DOMAIN events |-> <<i, events[j]>>]]

CausalLog ==
    LET inputsInOrder == Schedule
        judged[p \in 0 .. Len(inputsInOrder)] ==
            IF p = 0 THEN Fresh ELSE Judge(inputsInOrder[p], judged[p - 1])
    IN  judged[Len(inputsInOrder)].log

Seen == [j \in DOMAIN accepted |-> <<outbox[accepted[j]].input, outbox[accepted[j]].event>>]

(* The runner sees a prefix of the causal log: in spite of crashes and     *)
(* replays no event is lost, repeated, judged twice or out of order, and   *)
(* no row overtakes a timer.                                               *)
CausalOrder == IsPrefix(Seen, CausalLog)

(* An input is complete only when the runner has committed all its events. *)
NothingLost ==
    \A s \in DOMAIN outbox :
      inputs[outbox[s].input] = "COMPLETE" => \E j \in DOMAIN accepted : accepted[j] = s

(* A mint has one winner: the candidate that locks it is the last strategy *)
(* event of the mint in the outbox, for rows as well as for timers.        *)
OneWinner ==
    /\ Cardinality(won) <= 1
    /\ \A s, u \in DOMAIN outbox :
         /\ s < u
         /\ outbox[s].event.kind = "CANDIDATE"
         /\ source[outbox[s].input[2]].sol
         => outbox[u].event.kind \in {"MARKET", "CLOCK"}

(* Every clock cycle that is begun ends, unless the process crashes, also  *)
(* when a crash before it left other timers incomplete.                    *)
DrainEnds == request # 0 ~> request = 0

-----------------------------------------------------------------------------
(* Refinement.  What is durable: an open batch has taken nothing yet.      *)
Promise == INSTANCE FencePromise WITH
    Timers   <- Keys,
    produced <- Latest,
    taken    <- IF saved = <<>> THEN cursor ELSE saved[1],
    due      <- {[timer |-> k, watermark |-> timers[k].watermark] : k \in Incomplete}

(* Timers and rows keep the fence: a timer runs after the rows up to its   *)
(* watermark and before every later one, whatever crashes in between.      *)
FencePromised == Promise!Spec
=============================================================================
