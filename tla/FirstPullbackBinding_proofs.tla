-------------------- MODULE FirstPullbackBinding_proofs --------------------
(***************************************************************************)
(* Proofs about FirstPullbackBinding, for any roles, rows, timers, batch   *)
(* sizes and crashes, both bindings and both drivers of timers: the fence  *)
(* of a timer is kept, that is, the binding implements FencePromise.       *)
(***************************************************************************)
EXTENDS FirstPullbackBinding, LeastNumber

Ticking == [expires : BOOLEAN, exit : BOOLEAN]

Typed ==
    /\ source \in Seq(Feed) /\ cursor \in Nat /\ cursor <= Latest
    /\ timers \in [Keys -> [status : Statuses, watermark : Nat, tick : Ticking]]

(* No incomplete timer is behind the cursor, none is ahead of the source.  *)
Fenced ==
    \A k \in Incomplete : cursor <= timers[k].watermark /\ timers[k].watermark <= Latest

(* An open batch stops at the least fence, and handles the row after the   *)
(* cursor; outside a batch a timer in hand runs exactly at its watermark.  *)
InBatch ==
    /\ limit \in Nat /\ cursor < limit /\ limit <= Latest
    /\ \A k \in Incomplete : limit <= timers[k].watermark
    /\ input = P1(cursor + 1)
    /\ stage \in {"row", "audit", "deliver", "acknowledge"}

OffBatch ==
    /\ saved = <<>>
    /\ \/ input = NoInput /\ stage \in {"idle", "drain", "down", "failed"}
       \/ \E k \in Keys : /\ input = Timer(k)
                          /\ stage \in {"audit", "deliver", "acknowledge", "finish"}
                          /\ timers[k].status = "PLANNED"
                          /\ timers[k].watermark = cursor

(* What an open batch transaction would be rolled back to: fewer rows, the *)
(* same timers.                                                            *)
Reversible ==
    \/ saved = <<>>
    \/ saved[1] \in Nat /\ saved[1] <= cursor /\ saved[7] = timers

FInv ==
    /\ Typed /\ Fenced /\ Reversible
    /\ IF limit # 0 THEN InBatch ELSE OffBatch
-----------------------------------------------------------------------------
LEMMA LeastIn ==
    ASSUME NEW S, S \subseteq Nat, S # {}
    PROVE  Min(S) \in S /\ \A x \in S : Min(S) <= x
BY LeastExists DEF Min

LEMMA IncompleteKeys ==
    ASSUME FInv
    PROVE  /\ Incomplete \subseteq Keys
           /\ \A k \in Incomplete : timers[k].watermark \in Nat
           /\ Latest \in Nat /\ cursor \in Nat
BY DEF FInv, Typed, Incomplete, Latest

(* _active_timer_fence finds the least watermark there is.                 *)
LEMMA FenceIsLeast ==
    ASSUME FInv, HasFence
    PROVE  /\ Fence \in Nat
           /\ \A k \in Incomplete : Fence <= timers[k].watermark
           /\ {k \in Incomplete : timers[k].watermark = Fence} # {}
<1> DEFINE marks == {timers[k].watermark : k \in Incomplete}
<1>1. marks \subseteq Nat /\ marks # {}
  BY IncompleteKeys DEF HasFence
<1>2. Fence = Min(marks)
  BY DEF Fence
<1>3. Min(marks) \in marks /\ \A x \in marks : Min(marks) <= x
  <2> HIDE DEF marks
  <2> QED BY <1>1, LeastIn
<1> QED BY <1>1, <1>2, <1>3

(* A batch admits rows of the source only, and none beyond a fence.        *)
LEMMA AdmittedBounded ==
    ASSUME FInv
    PROVE  /\ Admitted \in Nat /\ Admitted <= Latest
           /\ \A k \in Incomplete : Admitted <= timers[k].watermark
<1> DEFINE S == {cursor + BatchSize, Latest} \cup IF HasFence THEN {Fence} ELSE {}
<1>1. S \subseteq Nat /\ Latest \in S
  BY FenceIsLeast, IncompleteKeys, BoundAssumption
<1>2. Admitted = Min(S)
  BY DEF Admitted
<1>3. Min(S) \in S /\ \A x \in S : Min(S) <= x
  <2> HIDE DEF S
  <2> QED BY <1>1, LeastIn
<1>4. Admitted \in Nat /\ Admitted <= Latest
  BY <1>1, <1>2, <1>3
<1>5. ASSUME NEW k \in Incomplete PROVE Admitted <= timers[k].watermark
  <2>1. HasFence
    BY DEF HasFence
  <2>2. Fence \in S /\ Fence <= timers[k].watermark /\ Fence \in Nat
    BY <2>1, FenceIsLeast
  <2>3. Admitted <= Fence
    BY <1>2, <1>3, <2>2
  <2> QED BY <1>4, <2>2, <2>3, IncompleteKeys
<1> QED BY <1>4, <1>5

(* The timer that is ready to run is at the cursor.                        *)
LEMMA ReadyAtCursor ==
    ASSUME FInv, NEW k \in Keys, Ready(k), timers[k].status \in {"PREPARED", "PLANNED"}
    PROVE  timers[k].watermark = cursor
<1>1. k \in Incomplete
  BY DEF Incomplete
<1>2. cursor <= timers[k].watermark
  BY <1>1 DEF FInv, Fenced
<1>3. timers[k].watermark <= cursor
  <2>1. CASE Driver = "DRAIN"
    <3> DEFINE S == {j \in Incomplete : timers[j].watermark = Fence}
    <3>1. HasFence
      BY <1>1 DEF HasFence
    <3>2. S \subseteq Nat /\ S # {}
      BY <3>1, FenceIsLeast, IncompleteKeys DEF Keys
    <3>3. k = Min(S)
      BY <2>1 DEF Ready, NextTimer
    <3>4. k \in S
      <4> HIDE DEF S
      <4> QED BY <3>2, <3>3, LeastIn
    <3> QED BY <2>1, <3>4 DEF Ready, Target
  <2>2. CASE Driver # "DRAIN"
    BY <2>2 DEF Ready, Target, NextTimer
  <2> QED BY <2>1, <2>2
<1> QED BY <1>1, <1>2, <1>3, IncompleteKeys
-----------------------------------------------------------------------------
LEMMA InitFInv == Init => FInv
<1> SUFFICES ASSUME Init PROVE FInv
  OBVIOUS
<1>1. Latest = 0 /\ source \in Seq(Feed)
  BY DEF Init, Latest
<1>2. timers \in [Keys -> [status : Statuses, watermark : Nat, tick : Ticking]]
  BY DEF Init, Statuses, Ticking
<1>3. Incomplete = {}
  BY DEF Init, Incomplete
<1> QED BY <1>1, <1>2, <1>3 DEF Init, FInv, Typed, Fenced, Reversible, OffBatch

(* Rows of the source arrive at any time, beyond every fence.              *)
LEMMA CollectStep ==
    ASSUME FInv, NEW row \in Feed, Collect(row) PROVE FInv'
<1>1. /\ source' \in Seq(Feed) /\ Latest' = Latest + 1 /\ Latest \in Nat
      /\ UNCHANGED <<cursor, timers, stage, input, limit, saved>>
  BY DEF Collect, FInv, Typed, Latest, database, process
<1>2. Incomplete' = Incomplete
  BY <1>1 DEF Incomplete
<1> QED BY <1>1, <1>2, IncompleteKeys
        DEF FInv, Typed, Fenced, Reversible, InBatch, OffBatch

LEMMA StartBatchStep ==
    ASSUME FInv, StartBatch, stage \in {"idle", "drain"} PROVE FInv'
<1>1. limit = 0 /\ saved = <<>>
  BY DEF FInv, InBatch, OffBatch
<1>2. /\ UNCHANGED <<source, cursor, timers>> /\ Latest' = Latest
      /\ Incomplete' = Incomplete
      /\ limit' = Admitted /\ cursor < Admitted /\ stage' = "row" /\ input' = P1(cursor + 1)
  BY DEF StartBatch, database, Outside, Incomplete, Latest
<1>3. InBatch' /\ limit' # 0
  BY <1>2, AdmittedBounded, IncompleteKeys DEF InBatch
<1>4. Reversible'
  <2>1. saved' = <<>> \/ (saved'[1] = cursor /\ saved'[7] = timers)
    BY <1>1 DEF StartBatch, database
  <2> QED BY <1>2, <2>1, IncompleteKeys DEF Reversible
<1> QED BY <1>2, <1>3, <1>4 DEF FInv, Typed, Fenced

(* A new timer captures the last row; the cursor cannot be beyond it.      *)
LEMMA TickStep ==
    ASSUME FInv, NEW k \in Keys, NEW tick \in Ticks, Tick(k, tick) PROVE FInv'
<1> DEFINE row == [status |-> "PREPARED", watermark |-> Latest, tick |-> tick]
<1>1. limit = 0 /\ OffBatch /\ input = NoInput
  BY DEF FInv, InBatch, OffBatch, Tick, P1, NoInput, Timer
<1>2. /\ UNCHANGED <<source, cursor, input, limit, saved>> /\ Latest' = Latest
      /\ stage' = "drain"
      /\ timers' = [timers EXCEPT ![k] = row]
  BY DEF Tick, Watermark, Outside, Latest
<1>3. row \in [status : Statuses, watermark : Nat, tick : Ticking]
  BY IncompleteKeys, FeedAssumption DEF Statuses, Ticking
<1> HIDE DEF row
<1>4. Typed'
  BY <1>2, <1>3 DEF FInv, Typed
<1>5. \A j \in Keys : timers'[j] = IF j = k THEN row ELSE timers[j]
  BY <1>2 DEF FInv, Typed
<1>6. Fenced'
  <2> SUFFICES ASSUME NEW j \in Incomplete'
               PROVE  cursor' <= timers'[j].watermark /\ timers'[j].watermark <= Latest'
    BY DEF Fenced
  <2>1. j \in Keys
    BY DEF Incomplete
  <2>2. CASE j = k
    BY <1>2, <1>5, <2>1, <2>2, IncompleteKeys DEF row, FInv, Typed
  <2>3. CASE j # k
    <3>1. j \in Incomplete
      BY <1>5, <2>1, <2>3 DEF Incomplete
    <3> QED BY <1>2, <1>5, <2>1, <2>3, <3>1 DEF FInv, Fenced
  <2> QED BY <2>2, <2>3
<1>7. OffBatch' /\ Reversible'
  BY <1>1, <1>2 DEF OffBatch, Reversible
<1> QED BY <1>1, <1>2, <1>4, <1>6, <1>7 DEF FInv

(* Steps that change neither cursor nor timers, and stay within a batch or *)
(* within a timer.                                                         *)
LEMMA QuietStep ==
    ASSUME FInv,
           \/ \E k \in Keys : TickAgain(k) \/ CompleteTimerInput(k)
           \/ EndDrain \/ \E r \in Rows : PlanRow(r)
           \/ ReplayRow \/ DeliverEvaluations \/ RunnerAccepts \/ MarkDelivered
           \/ Restart \/ UNCHANGED vars
    PROVE  FInv'
<1>1. UNCHANGED <<source, cursor, timers, input, limit, saved>>
  BY DEF TickAgain, CompleteTimerInput, EndDrain, PlanRow, ReplayRow, DeliverEvaluations,
         RunnerAccepts, MarkDelivered, Restart, vars, database, process, Outside
<1>2. Latest' = Latest /\ Incomplete' = Incomplete
  BY <1>1 DEF Latest, Incomplete
<1>3. ASSUME InBatch PROVE InBatch'
  <2>1. stage' \in {"row", "audit", "deliver", "acknowledge"}
    BY <1>3 DEF InBatch, TickAgain, CompleteTimerInput, EndDrain, PlanRow, ReplayRow,
       DeliverEvaluations, RunnerAccepts, MarkDelivered, Restart, vars, process, P1, Timer
  <2> QED BY <1>1, <1>2, <1>3, <2>1 DEF InBatch
<1>4. ASSUME OffBatch PROVE OffBatch'
  <2>1. CASE input = NoInput
    <3>1. stage' \in {"idle", "drain", "down", "failed"}
      BY <1>4, <2>1 DEF OffBatch, TickAgain, CompleteTimerInput, EndDrain, PlanRow,
         ReplayRow, DeliverEvaluations, RunnerAccepts, MarkDelivered, Restart, vars, process,
         P1, Timer, NoInput
    <3> QED BY <1>1, <1>4, <2>1, <3>1 DEF OffBatch
  <2>2. CASE input # NoInput
    <3>1. stage' \in {"audit", "deliver", "acknowledge", "finish"}
      BY <1>4, <2>2 DEF OffBatch, TickAgain, CompleteTimerInput, EndDrain, PlanRow,
         ReplayRow, DeliverEvaluations, RunnerAccepts, MarkDelivered, Restart, vars, process,
         P1, Timer, NoInput
    <3> QED BY <1>1, <1>4, <2>2, <3>1 DEF OffBatch
  <2> QED BY <2>1, <2>2
<1> QED BY <1>1, <1>2, <1>3, <1>4 DEF FInv, Typed, Fenced, Reversible

(* A timer begins to run only where the cursor is.                         *)
LEMMA RunTimerStep ==
    ASSUME FInv, NEW k \in Keys, PlanTimer(k) \/ ReplayTimer(k) PROVE FInv'
<1>1. /\ Ready(k) /\ timers[k].status \in {"PREPARED", "PLANNED"}
      /\ UNCHANGED <<source, cursor, limit, saved>> /\ Latest' = Latest
      /\ input' = Timer(k) /\ stage' = "audit" /\ stage = "drain"
      /\ timers' = timers \/ timers' = [timers EXCEPT ![k].status = "PLANNED"]
      /\ timers'[k].status = "PLANNED"
  BY DEF PlanTimer, ReplayTimer, Ready, database, Outside, Latest, FInv, Typed
<1>2. timers[k].watermark = cursor
  BY <1>1, ReadyAtCursor
<1>3. limit = 0 /\ saved = <<>>
  BY <1>1 DEF FInv, InBatch, OffBatch
<1>4. /\ timers' \in [Keys -> [status : Statuses, watermark : Nat, tick : Ticking]]
      /\ \A j \in Keys : timers'[j].watermark = timers[j].watermark
  <2>1. CASE timers' = timers
    BY <2>1 DEF FInv, Typed
  <2>2. CASE timers' = [timers EXCEPT ![k].status = "PLANNED"]
    BY <2>2 DEF FInv, Typed, Statuses
  <2> QED BY <1>1, <2>1, <2>2
<1>5. Incomplete' = Incomplete
  BY <1>1 DEF Incomplete, FInv, Typed
<1>6. OffBatch'
  BY <1>1, <1>2, <1>3, <1>4 DEF OffBatch
<1> QED BY <1>1, <1>3, <1>4, <1>5, <1>6, IncompleteKeys DEF FInv, Typed, Fenced, Reversible

LEMMA CompleteTimerStep ==
    ASSUME FInv, NEW k \in Keys, CompleteTimer(k) PROVE FInv'
<1>1. /\ UNCHANGED <<source, cursor, limit, saved>> /\ Latest' = Latest
      /\ stage = "finish" /\ stage' = "drain" /\ input' = NoInput
      /\ timers' = [timers EXCEPT ![k].status = "COMPLETE"]
  BY DEF CompleteTimer, Outside, Latest
<1>2. limit = 0 /\ saved = <<>>
  BY <1>1 DEF FInv, InBatch, OffBatch
<1>3. /\ timers' \in [Keys -> [status : Statuses, watermark : Nat, tick : Ticking]]
      /\ \A j \in Keys : timers'[j].watermark = timers[j].watermark
      /\ Incomplete' = Incomplete \ {k}
  BY <1>1 DEF FInv, Typed, Statuses, Incomplete
<1>4. Fenced' /\ Typed'
  BY <1>1, <1>3, IncompleteKeys DEF FInv, Typed, Fenced
<1> QED BY <1>1, <1>2, <1>4 DEF FInv, OffBatch, Reversible

(* The row that is complete is the next one, within the batch's limit.     *)
LEMMA CompletedRow ==
    ASSUME FInv, NEW r \in Rows, CompleteRow(r)
    PROVE  limit # 0 /\ InBatch /\ r = cursor + 1 /\ cursor' = r /\ r <= limit
<1>1. limit # 0
  BY DEF FInv, OffBatch, CompleteRow, HandledAll, P1, Timer, NoInput
<1>2. InBatch
  BY <1>1 DEF FInv
<1>3. r = cursor + 1
  BY <1>2 DEF InBatch, CompleteRow, P1
<1> QED BY <1>1, <1>2, <1>3, IncompleteKeys DEF InBatch, CompleteRow

LEMMA CompleteRowStep ==
    ASSUME FInv, NEW r \in Rows, CompleteRow(r) PROVE FInv'
<1>1. limit # 0 /\ InBatch /\ r = cursor + 1 /\ cursor' = r /\ r <= limit
  BY CompletedRow
<1>2. UNCHANGED <<source, timers>> /\ Latest' = Latest /\ Incomplete' = Incomplete
  BY DEF CompleteRow, Outside, Latest, Incomplete
<1>3. Typed' /\ Fenced'
  BY <1>1, <1>2, IncompleteKeys DEF FInv, Typed, Fenced, InBatch
<1>4. CASE r < limit
  <2>1. UNCHANGED <<limit, saved>> /\ stage' = "row" /\ input' = P1(r + 1)
    BY <1>4 DEF CompleteRow
  <2>2. InBatch'
    BY <1>1, <1>2, <1>4, <2>1, IncompleteKeys DEF InBatch
  <2>3. Reversible'
    BY <1>1, <1>2, <2>1, IncompleteKeys DEF FInv, Reversible
  <2> QED BY <1>1, <1>3, <2>1, <2>2, <2>3 DEF FInv
<1>5. CASE ~(r < limit)
  <2>1. /\ limit' = 0 /\ saved' = <<>> /\ input' = NoInput
        /\ stage' \in {"idle", "drain"}
    BY <1>5 DEF CompleteRow
  <2> QED BY <1>3, <2>1 DEF FInv, OffBatch, Reversible
<1> QED BY <1>4, <1>5

(* A crash takes back the rows of an open batch, and no timer.             *)
LEMMA CrashStep ==
    ASSUME FInv, Crash PROVE FInv' /\ timers' = timers /\ Latest' = Latest
                             /\ cursor' = IF saved = <<>> THEN cursor ELSE saved[1]
<1>1. /\ source' = source /\ Latest' = Latest
      /\ stage' = "down" /\ input' = NoInput /\ limit' = 0 /\ saved' = <<>>
  BY DEF Crash, Latest
<1>2. CASE saved = <<>>
  <2>1. UNCHANGED <<cursor, timers>>
    BY <1>2 DEF Crash, database
  <2>2. Incomplete' = Incomplete
    BY <2>1 DEF Incomplete
  <2> QED BY <1>1, <1>2, <2>1, <2>2 DEF FInv, Typed, Fenced, OffBatch, Reversible
<1>3. CASE saved # <<>>
  <2>1. cursor' = saved[1] /\ timers' = saved[7]
    BY <1>3 DEF Crash, RollBack
  <2>2. cursor' \in Nat /\ cursor' <= cursor /\ timers' = timers
    BY <1>3, <2>1 DEF FInv, Reversible
  <2>3. Incomplete' = Incomplete
    BY <2>2 DEF Incomplete
  <2>4. Typed' /\ Fenced'
    BY <1>1, <2>2, <2>3, IncompleteKeys DEF FInv, Typed, Fenced
  <2> QED BY <1>1, <1>3, <2>1, <2>2, <2>4 DEF FInv, OffBatch, Reversible
<1> QED BY <1>2, <1>3

LEMMA StepFInv == FInv /\ [Next]_vars => FInv'
<1> SUFFICES ASSUME FInv, [Next]_vars PROVE FInv'
  OBVIOUS
<1>1. CASE \E row \in Feed : Collect(row)
  BY <1>1, CollectStep
<1>2. CASE Poll \/ DrainBatch
  BY <1>2, StartBatchStep DEF Poll, DrainBatch
<1>3. ASSUME NEW k \in Keys, NEW tick \in Ticks, Tick(k, tick) PROVE FInv'
  BY <1>3, TickStep
<1>4. ASSUME NEW k \in Keys, PlanTimer(k) \/ ReplayTimer(k) \/ CompleteTimer(k) PROVE FInv'
  BY <1>4, RunTimerStep, CompleteTimerStep
<1>5. ASSUME NEW r \in Rows, CompleteRow(r) PROVE FInv'
  BY <1>5, CompleteRowStep
<1>6. CASE Crash
  BY <1>6, CrashStep
<1>7. CASE \/ \E k \in Keys : TickAgain(k) \/ CompleteTimerInput(k)
           \/ EndDrain \/ \E r \in Rows : PlanRow(r)
           \/ ReplayRow \/ DeliverEvaluations \/ RunnerAccepts \/ MarkDelivered
           \/ Restart \/ UNCHANGED vars
  BY <1>7, QuietStep
<1> QED BY <1>1, <1>2, <1>3, <1>4, <1>5, <1>6, <1>7 DEF Next, Handler

LEMMA AlwaysFInv == Spec => []FInv
BY InitFInv, StepFInv, PTL DEF Spec
-----------------------------------------------------------------------------
(* The refinement: what is durable, and the timers that wait.              *)
Taken == IF saved = <<>> THEN cursor ELSE saved[1]
Due   == {[timer |-> k, watermark |-> timers[k].watermark] : k \in Incomplete}

LEMMA DueSame ==
    ASSUME \/ timers' = timers
           \/ /\ Incomplete' = Incomplete
              /\ \A k \in Incomplete : timers'[k].watermark = timers[k].watermark
    PROVE  Due' = Due
BY DEF Due, Incomplete

LEMMA PromiseTick ==
    ASSUME FInv, NEW k \in Keys, NEW tick \in Ticks, Tick(k, tick)
    PROVE  Promise!Prepare(k)
<1>1. /\ timers' = [timers EXCEPT ![k] = [status |-> "PREPARED", watermark |-> Latest,
                                          tick |-> tick]]
      /\ timers[k].status = "NONE" /\ UNCHANGED <<cursor, saved>> /\ Latest' = Latest
  BY DEF Tick, Watermark, Outside, Latest
<1>2. /\ \A j \in Keys : j # k => timers'[j] = timers[j]
      /\ timers'[k].status = "PREPARED" /\ timers'[k].watermark = Latest
  BY <1>1 DEF FInv, Typed
<1>3. k \notin Incomplete /\ Incomplete' = Incomplete \cup {k}
  BY <1>1, <1>2 DEF Incomplete
<1>4. Due' = Due \cup {[timer |-> k, watermark |-> Latest]}
  BY <1>2, <1>3 DEF Due, Incomplete
<1>5. \A d \in Due : d.timer # k
  BY <1>3 DEF Due
<1>6. Taken' = Taken
  BY <1>1 DEF Taken
<1> QED BY <1>1, <1>4, <1>5, <1>6 DEF Promise!Prepare, Due, Taken

LEMMA PromiseRun ==
    ASSUME FInv, NEW k \in Keys, CompleteTimer(k)
    PROVE  \E d \in Due : Promise!Run(d)
<1>0. PICK d : d = [timer |-> k, watermark |-> timers[k].watermark]
  OBVIOUS
<1>1. /\ UNCHANGED <<cursor, saved>> /\ Latest' = Latest
      /\ stage = "finish" /\ input = Timer(k)
      /\ timers' = [timers EXCEPT ![k].status = "COMPLETE"]
  BY DEF CompleteTimer, Outside, Latest
<1>2. OffBatch
  BY <1>1 DEF FInv, InBatch
<1>3. saved = <<>> /\ timers[k].status = "PLANNED" /\ timers[k].watermark = cursor
  BY <1>1, <1>2 DEF OffBatch, Timer, NoInput
<1>4. k \in Incomplete /\ Incomplete' = Incomplete \ {k}
  BY <1>1, <1>3 DEF Incomplete, FInv, Typed
<1>5. \A j \in Incomplete \ {k} : timers'[j] = timers[j]
  BY <1>1 DEF FInv, Typed, Incomplete
<1>6. d \in Due /\ Due' = Due \ {d}
  BY <1>0, <1>4, <1>5 DEF Due
<1>7. \A e \in Due : d.watermark <= e.watermark
  BY <1>0, <1>3 DEF FInv, Fenced, Due
<1>8. Taken = d.watermark /\ Taken' = Taken
  BY <1>0, <1>1, <1>3 DEF Taken
<1> QED BY <1>1, <1>6, <1>7, <1>8 DEF Promise!Run, Due, Taken

LEMMA PromiseRow ==
    ASSUME FInv, NEW r \in Rows, CompleteRow(r)
    PROVE  \/ \E n \in Taken + 1 .. Latest : Promise!Take(n)
           \/ UNCHANGED <<Latest, Taken, Due>>
<1>1. InBatch /\ r = cursor + 1 /\ cursor' = r /\ r <= limit
  BY CompletedRow
<1>2. timers' = timers /\ Latest' = Latest /\ Due' = Due
  BY DueSame DEF CompleteRow, Outside, Latest
<1>3. Taken \in Nat /\ Taken <= cursor /\ cursor \in Nat /\ Latest \in Nat
  BY IncompleteKeys DEF FInv, Reversible, Taken
<1>4. CASE r < limit /\ saved # <<>>
  BY <1>2, <1>4 DEF CompleteRow, Taken
<1>5. CASE ~(r < limit /\ saved # <<>>)
  <2>1. saved' = <<>>
    BY <1>5 DEF CompleteRow
  <2>2. Taken' = r
    BY <1>1, <2>1 DEF Taken
  <2>3. r \in Taken + 1 .. Latest
    BY <1>1, <1>3 DEF InBatch
  <2>4. \A d \in Due : r <= d.watermark
    <3>1. \A k \in Incomplete : r <= timers[k].watermark
      BY <1>1, <1>3, IncompleteKeys DEF InBatch
    <3> QED BY <3>1 DEF Due
  <2>5. Promise!Take(r)
    BY <1>2, <2>2, <2>3, <2>4 DEF Promise!Take, Taken, Due
  <2> QED BY <2>3, <2>5
<1> QED BY <1>4, <1>5

LEMMA PromiseStep ==
    ASSUME FInv, [Next]_vars
    PROVE  Promise!Next \/ UNCHANGED <<Latest, Taken, Due>>
<1>1. ASSUME NEW row \in Feed, Collect(row)
      PROVE  Promise!Produce
  <2>1. /\ Latest' = Latest + 1 /\ UNCHANGED <<cursor, saved, timers>>
    BY <1>1 DEF Collect, FInv, Typed, Latest, database
  <2>2. Taken' = Taken /\ Due' = Due
    BY <2>1, DueSame DEF Taken
  <2> QED BY <2>1, <2>2 DEF Promise!Produce, Taken, Due
<1>2. CASE Poll \/ DrainBatch
  <2>1. saved = <<>>
    BY <1>2 DEF Poll, DrainBatch, FInv, InBatch, OffBatch
  <2>2. UNCHANGED <<cursor, timers>> /\ Latest' = Latest
    BY <1>2 DEF Poll, DrainBatch, StartBatch, database, Outside, Latest
  <2>3. Taken' = cursor
    BY <1>2, <2>1, <2>2 DEF Poll, DrainBatch, StartBatch, database, Taken
  <2> QED BY <2>1, <2>2, <2>3, DueSame DEF Taken
<1>3. ASSUME NEW k \in Keys, NEW tick \in Ticks, Tick(k, tick)
      PROVE  Promise!Next
  BY <1>3, PromiseTick DEF Promise!Next
<1>4. ASSUME NEW k \in Keys, CompleteTimer(k)
      PROVE  Promise!Next
  BY <1>4, PromiseRun DEF Promise!Next, Due
<1>5. ASSUME NEW r \in Rows, CompleteRow(r)
      PROVE  Promise!Next \/ UNCHANGED <<Latest, Taken, Due>>
  BY <1>5, PromiseRow DEF Promise!Next, Taken
<1>6. CASE Crash
  <2>1. saved' = <<>>
    BY <1>6 DEF Crash
  <2> QED BY <1>6, <2>1, CrashStep, DueSame DEF Taken
<1>7. ASSUME NEW k \in Keys, PlanTimer(k) \/ ReplayTimer(k)
      PROVE  UNCHANGED <<Latest, Taken, Due>>
  <2>1. /\ UNCHANGED <<cursor, saved>> /\ Latest' = Latest
        /\ \/ timers' = timers
           \/ timers[k].status = "PREPARED" /\ timers' = [timers EXCEPT ![k].status = "PLANNED"]
    BY <1>7 DEF PlanTimer, ReplayTimer, database, Outside, Latest
  <2>2. CASE timers' = timers
    BY <2>1, <2>2, DueSame DEF Taken
  <2>3. CASE /\ timers[k].status = "PREPARED"
             /\ timers' = [timers EXCEPT ![k].status = "PLANNED"]
    <3>1. /\ Incomplete' = Incomplete
          /\ \A j \in Incomplete : timers'[j].watermark = timers[j].watermark
      BY <2>3 DEF Incomplete, FInv, Typed
    <3> QED BY <2>1, <3>1, DueSame DEF Taken
  <2> QED BY <2>1, <2>2, <2>3
<1>8. CASE \/ \E k \in Keys : TickAgain(k) \/ CompleteTimerInput(k)
           \/ EndDrain \/ \E r \in Rows : PlanRow(r)
           \/ ReplayRow \/ DeliverEvaluations \/ RunnerAccepts \/ MarkDelivered
           \/ Restart \/ UNCHANGED vars
  <2>1. UNCHANGED <<cursor, timers, saved>> /\ Latest' = Latest
    BY <1>8 DEF TickAgain, CompleteTimerInput, EndDrain, PlanRow, ReplayRow,
       DeliverEvaluations, RunnerAccepts, MarkDelivered, Restart, vars, database, process,
       Outside, Latest
  <2> QED BY <2>1, DueSame DEF Taken
<1> QED
  BY <1>1, <1>2, <1>3, <1>4, <1>5, <1>6, <1>7, <1>8 DEF Next, Handler, Promise!Next

(* Timers and rows keep the fence, for every schedule of rows, timers,     *)
(* batches, crashes and rollbacks: a timer runs after every row up to its  *)
(* watermark and before any row beyond (prepare_clock_tick,                *)
(* process_next_batch, _active_timer_fence, the drain of v0.4 and that of  *)
(* the phase 6 worker).                                                    *)
THEOREM KeepsFence == Spec => FencePromised
<1>1. Init => Promise!Init
  <2> SUFFICES ASSUME Init PROVE Promise!Init
    OBVIOUS
  <2>1. Latest = 0 /\ saved = <<>> /\ cursor = 0
    BY DEF Init, Latest
  <2>2. Incomplete = {}
    BY DEF Init, Incomplete
  <2> QED BY <2>1, <2>2 DEF Promise!Init
<1>2. FInv /\ [Next]_vars => [Promise!Next]_(Promise!pvars)
  BY PromiseStep DEF Promise!pvars, Taken, Due
<1> QED BY <1>1, <1>2, AlwaysFInv, PTL DEF Spec, FencePromised, Promise!Spec
=============================================================================
