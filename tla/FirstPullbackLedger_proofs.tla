--------------------- MODULE FirstPullbackLedger_proofs ---------------------
(***************************************************************************)
(* Proofs about FirstPullbackBinding, for any roles, rows, timers, batch   *)
(* sizes and crashes: what the binding delivers.  With either driver of    *)
(* timers no event is lost and a mint has one winner.  Under the active    *)
(* drain at most one input is ever in hand: therefore no fail-closed check *)
(* raises, the runner sees the causal order, nothing is taken back but by  *)
(* a rollback, and the handler is never stuck and always goes on.          *)
(***************************************************************************)
EXTENDS FirstPullbackBinding_proofs, FiniteSetTheorems

(* The events of a plan are a sequence: there are finitely many roles.     *)
LEMMA InOrderLength ==
    ASSUME NEW S, S \subseteq Roles, NEW kind
    PROVE  \E T : InOrderOf(S, kind) \in Seq(T)
<1>1. IsFiniteSet(S)
  <2>1. IsFiniteSet(Roles)
    BY FS_Interval, RolesAssumption DEF Roles
  <2> QED BY <2>1, FS_Subset
<1>2. Cardinality(S) \in Nat
  BY <1>1, FS_CardinalityType
<1>3. \A n \in Nat : \A f : f = [i \in 1 .. n |-> f[i]] => f \in Seq({f[i] : i \in 1 .. n})
  OBVIOUS
<1>4. InOrderOf(S, kind) = [i \in 1 .. Cardinality(S) |-> InOrderOf(S, kind)[i]]
  BY DEF InOrderOf
<1> QED BY <1>2, <1>3, <1>4

LEMMA EvaluatedRoles ==
    ASSUME NEW row, NEW what
    PROVE  Evaluated(row, what) \subseteq Roles
BY DEF Evaluated, Judged

IsEvents(e) == \E T : e \in Seq(T)

LEMMA RowEventsAre ==
    ASSUME NEW row, NEW what
    PROVE  IsEvents(RowEvents(row, what))
<1> DEFINE telling == {r \in Evaluated(row, what) : row.says[r] # "WAIT"}
           kind == [r \in Roles |-> IF row.says[r] = "SIGNAL" THEN "CANDIDATE" ELSE "TERMINAL"]
<1>1. PICK T : InOrderOf(telling, kind) \in Seq(T)
  <2>1. telling \subseteq Roles
    BY EvaluatedRoles
  <2> HIDE DEF telling, kind
  <2> QED BY <2>1, InOrderLength
<1>2. CASE row.kind = "SKIP"
  BY <1>2 DEF RowEvents, IsEvents
<1>3. CASE row.kind # "SKIP"
  <2>1. RowEvents(row, what) = Append(InOrderOf(telling, kind), Event("MARKET", 0))
    BY <1>3 DEF RowEvents
  <2> HIDE DEF telling, kind
  <2>2. InOrderOf(telling, kind) \in Seq(T \cup {Event("MARKET", 0)})
    BY <1>1
  <2>3. RowEvents(row, what) \in Seq(T \cup {Event("MARKET", 0)})
    BY <2>1, <2>2
  <2> QED BY <2>3 DEF IsEvents
<1> QED BY <1>2, <1>3

LEMMA TickEventsAre ==
    ASSUME NEW tick, NEW what
    PROVE  IsEvents(TickEvents(tick, what))
<1> DEFINE kind == [r \in Roles |-> "TERMINAL"]
           first == InOrderOf(Expired(tick, what), kind)
           then == IF tick.exit THEN <<Event("CLOCK", 0)>> ELSE <<>>
<1>1. PICK T : first \in Seq(T)
  <2>1. Expired(tick, what) \subseteq Roles
    BY DEF Expired
  <2> HIDE DEF kind
  <2> QED BY <2>1, InOrderLength
<1>2. TickEvents(tick, what) = first \o then
  BY DEF TickEvents
<1>3. then \in Seq({Event("CLOCK", 0)})
  BY SMTT(60)
<1> HIDE DEF kind, first, then
<1>4. first \o then \in Seq(T \cup {Event("CLOCK", 0)})
  BY <1>1, <1>3
<1> QED BY <1>2, <1>4 DEF IsEvents
-----------------------------------------------------------------------------
(* The outbox as a sequence of entries, whatever the events are.           *)
Entries(E)  == [input : Inputs, event : E, delivered : BOOLEAN]
IsOutbox(o) == \E E : o \in Seq(Entries(E))

Committed(acc, s) == \E j \in DOMAIN acc : acc[j] = s

InStates == {"ABSENT", "PLANNED", "COMPLETE"}

(* The tables agree: the runner has committed what is delivered; what is   *)
(* not delivered belongs to an input that is planned; a completed input    *)
(* has no evaluation left.  The tables are parameters, since an open batch *)
(* must be able to go back to others that agree as well.                   *)
Agreed(ins, una, o, acc) ==
    /\ IsOutbox(o) /\ acc \in Seq(Nat)
    /\ ins \in [Inputs -> InStates]
    /\ una \in [Inputs -> SUBSET Roles]
    /\ \A s \in DOMAIN o : o[s].delivered => Committed(acc, s)
    /\ \A s \in DOMAIN o : ~o[s].delivered => ins[o[s].input] = "PLANNED"
    /\ \A i \in Inputs : ins[i] = "COMPLETE" => una[i] = {}

(* The item that is being acknowledged is one the runner has committed.    *)
Acknowledged ==
    stage = "acknowledge" =>
      /\ Undelivered(input) # {}
      /\ Committed(accepted, NextItem)

LInv ==
    /\ Latest <= MaxRows
    /\ Agreed(inputs, unaudited, outbox, accepted)
    /\ saved # <<>> => Agreed(saved[2], saved[5], saved[6], saved[8])
    /\ Acknowledged

(* In the middle of an input the process has one in hand.                  *)
LEMMA InputInHand ==
    ASSUME FInv, Latest <= MaxRows, stage \in {"row", "audit", "deliver", "acknowledge", "finish"}
    PROVE  input \in Inputs
<1>1. CASE limit # 0
  <2>1. InBatch
    BY <1>1 DEF FInv
  <2>2. cursor + 1 \in Rows
    BY <2>1, IncompleteKeys, BoundAssumption DEF InBatch, Rows
  <2> QED BY <2>1, <2>2 DEF InBatch, Inputs
<1>2. CASE limit = 0
  BY <1>2 DEF FInv, OffBatch, Inputs
<1> QED BY <1>1, <1>2

LEMMA EntryTyped ==
    ASSUME NEW o, IsOutbox(o), NEW s \in DOMAIN o
    PROVE  o[s].input \in Inputs /\ o[s].delivered \in BOOLEAN
<1>1. PICK E : o \in Seq(Entries(E))
  BY DEF IsOutbox
<1>2. o[s] \in Entries(E)
  BY <1>1
<1> QED BY <1>2 DEF Entries

(* _persist_input_and_events appends entries of one input, none delivered. *)
LEMMA PostAppends ==
    ASSUME NEW i \in Inputs, NEW events, IsOutbox(outbox), IsEvents(events)
    PROVE  /\ IsOutbox(Post(i, events))
           /\ Len(outbox) \in Nat /\ DOMAIN outbox = 1 .. Len(outbox)
           /\ \A s \in DOMAIN outbox : Post(i, events)[s] = outbox[s]
           /\ \A s \in DOMAIN Post(i, events) \ DOMAIN outbox :
                /\ s \in Nat /\ s > Len(outbox)
                /\ Post(i, events)[s].input = i /\ ~Post(i, events)[s].delivered
           /\ DOMAIN outbox \subseteq DOMAIN Post(i, events)
<1>1. PICK T : events \in Seq(T)
  BY DEF IsEvents
<1>2. PICK E : outbox \in Seq(Entries(E))
  BY DEF IsOutbox
<1> DEFINE new == [j \in 1 .. Len(events) |->
                     [input |-> i, event |-> events[j], delivered |-> FALSE]]
           both == Entries(E \cup T)
<1>3. Len(events) \in Nat /\ \A j \in 1 .. Len(events) : events[j] \in T
  BY <1>1
<1>4. \A j \in 1 .. Len(events) : new[j] \in both
  BY <1>3 DEF Entries
<1>5. new \in Seq(both) /\ Len(new) = Len(events)
  <2>1. new \in [1 .. Len(events) -> both]
    BY <1>4
  <2> HIDE DEF both, new
  <2> QED BY <1>3, <2>1
<1>6. outbox \in Seq(both)
  <2>1. Entries(E) \subseteq both
    BY DEF Entries
  <2> HIDE DEF both
  <2> QED BY <1>2, <2>1
<1>7. Post(i, events) = outbox \o new
  BY DEF Post
<1>8. \A j \in 1 .. Len(new) : new[j].input = i /\ ~new[j].delivered
  BY <1>5
<1> HIDE DEF new, both
<1>9. outbox \o new \in Seq(both)
  BY <1>5, <1>6
<1>10. IsOutbox(Post(i, events))
  BY <1>7, <1>9 DEF IsOutbox, both
<1> QED BY <1>5, <1>6, <1>7, <1>8, <1>10

(* Marking an entry delivered changes nothing else.                        *)
LEMMA MarkMarks ==
    ASSUME IsOutbox(outbox), NEW n \in DOMAIN outbox,
           outbox' = [outbox EXCEPT ![n].delivered = TRUE]
    PROVE  /\ IsOutbox(outbox') /\ DOMAIN outbox' = DOMAIN outbox
           /\ outbox'[n].delivered
           /\ \A s \in DOMAIN outbox : /\ outbox'[s].input = outbox[s].input
                                       /\ s # n => outbox'[s] = outbox[s]
<1>1. PICK E : outbox \in Seq(Entries(E))
  BY DEF IsOutbox
<1>2. \A s \in DOMAIN outbox : outbox[s] \in Entries(E)
  BY <1>1
<1>3. [outbox[n] EXCEPT !.delivered = TRUE] \in Entries(E)
  BY <1>2 DEF Entries
<1>4. outbox' \in Seq(Entries(E))
  <2> DEFINE K == Entries(E)
  <2> HIDE DEF K
  <2>1. outbox \in Seq(K) /\ [outbox[n] EXCEPT !.delivered = TRUE] \in K
    BY <1>1, <1>3 DEF K
  <2>2. outbox' = [outbox EXCEPT ![n] = [outbox[n] EXCEPT !.delivered = TRUE]]
    OBVIOUS
  <2>3. outbox' \in Seq(K)
    BY <2>1, <2>2
  <2> QED BY <2>3 DEF K
<1>5. DOMAIN outbox' = DOMAIN outbox
  OBVIOUS
<1>6. \A s \in DOMAIN outbox : s # n => outbox'[s] = outbox[s]
  OBVIOUS
<1>7. outbox'[n] = [outbox[n] EXCEPT !.delivered = TRUE]
  OBVIOUS
<1>8. outbox'[n].delivered /\ outbox'[n].input = outbox[n].input
  BY <1>2, <1>7 DEF Entries
<1> QED BY <1>4, <1>5, <1>6, <1>8 DEF IsOutbox
-----------------------------------------------------------------------------
LEMMA InitLInv == Init => LInv
<1> SUFFICES ASSUME Init PROVE LInv
  OBVIOUS
<1>1. Latest <= MaxRows /\ saved = <<>> /\ stage # "acknowledge"
  BY BoundAssumption DEF Init, Latest
<1>2. IsOutbox(outbox)
  BY DEF Init, IsOutbox
<1>3. Agreed(inputs, unaudited, outbox, accepted)
  BY <1>2 DEF Init, Agreed, InStates
<1> QED BY <1>1, <1>3 DEF LInv, Acknowledged

(* A plan is written for an input with nothing to deliver or audit.        *)
LEMMA PlanAgrees ==
    ASSUME Agreed(inputs, unaudited, outbox, accepted),
           NEW i \in Inputs, NEW events, IsEvents(events), NEW S \in SUBSET Roles,
           inputs' = [inputs EXCEPT ![i] = "PLANNED"],
           unaudited' = [unaudited EXCEPT ![i] = S],
           outbox' = Post(i, events), accepted' = accepted
    PROVE  Agreed(inputs, unaudited, outbox, accepted)'
<1>1. /\ inputs' \in [Inputs -> InStates] /\ unaudited' \in [Inputs -> SUBSET Roles]
      /\ inputs'[i] = "PLANNED"
      /\ \A j \in Inputs : j # i => inputs'[j] = inputs[j] /\ unaudited'[j] = unaudited[j]
  BY DEF Agreed, InStates
<1>2. IsOutbox(outbox)
  BY DEF Agreed
<1>3. /\ IsOutbox(outbox')
      /\ \A s \in DOMAIN outbox : outbox'[s] = outbox[s]
      /\ \A s \in DOMAIN outbox' \ DOMAIN outbox : outbox'[s].input = i /\ ~outbox'[s].delivered
  BY <1>2, PostAppends
<1>4. ASSUME NEW s \in DOMAIN outbox'
      PROVE  /\ outbox'[s].delivered => Committed(accepted', s)
             /\ ~outbox'[s].delivered => inputs'[outbox'[s].input] = "PLANNED"
  <2>1. CASE s \in DOMAIN outbox
    <3>1. outbox[s].input \in Inputs
      BY <1>2, <2>1, EntryTyped
    <3>2. outbox'[s] = outbox[s] /\ outbox[s].delivered \in BOOLEAN
      BY <1>2, <1>3, <2>1, EntryTyped
    <3>3. outbox[s].delivered => Committed(accepted, s)
      BY <2>1 DEF Agreed
    <3>4. ~outbox[s].delivered => inputs[outbox[s].input] = "PLANNED"
      BY <2>1 DEF Agreed
    <3>5. ~outbox[s].delivered => inputs'[outbox[s].input] = "PLANNED"
      BY <1>1, <3>1, <3>4
    <3> QED BY <3>2, <3>3, <3>5
  <2>2. CASE s \notin DOMAIN outbox
    BY <1>1, <1>3, <2>2
  <2> QED BY <2>1, <2>2
<1>5. \A j \in Inputs : inputs'[j] = "COMPLETE" => unaudited'[j] = {}
  BY <1>1 DEF Agreed
<1> QED BY <1>1, <1>3, <1>4, <1>5 DEF Agreed

LEMMA PlanRowLedger ==
    ASSUME FInv, LInv, NEW r \in Rows, PlanRow(r) PROVE LInv'
<1>1. P1(r) \in Inputs /\ input = P1(r) /\ source[r] = source[r]
  BY DEF Inputs, PlanRow
<1>2. /\ IsEvents(RowEvents(source[r], Strategy))
      /\ Evaluated(source[r], Strategy) \in SUBSET Roles
  BY RowEventsAre, EvaluatedRoles
<1>3. /\ inputs' = [inputs EXCEPT ![P1(r)] = "PLANNED"]
      /\ unaudited' = [unaudited EXCEPT ![P1(r)] = Evaluated(source[r], Strategy)]
      /\ outbox' = Post(P1(r), RowEvents(source[r], Strategy)) /\ accepted' = accepted
      /\ stage' = "audit" /\ saved' = saved /\ source' = source
  BY DEF PlanRow, Outside
<1>4. Agreed(inputs, unaudited, outbox, accepted)'
  BY <1>1, <1>2, <1>3, PlanAgrees DEF LInv
<1> QED BY <1>3, <1>4 DEF LInv, Acknowledged, Latest

LEMMA PlanTimerLedger ==
    ASSUME FInv, LInv, NEW k \in Keys, PlanTimer(k) PROVE LInv'
<1>1. Timer(k) \in Inputs
  BY DEF Inputs
<1>2. /\ IsEvents(TickEvents(timers[k].tick, Strategy))
      /\ Expired(timers[k].tick, Strategy) \in SUBSET Roles
  BY TickEventsAre DEF Expired
<1>3. /\ inputs' = [inputs EXCEPT ![Timer(k)] = "PLANNED"]
      /\ unaudited' = [unaudited EXCEPT ![Timer(k)] = Expired(timers[k].tick, Strategy)]
      /\ outbox' = Post(Timer(k), TickEvents(timers[k].tick, Strategy))
      /\ accepted' = accepted
      /\ stage' = "audit" /\ saved' = saved /\ source' = source
  BY DEF PlanTimer, Outside
<1>4. Agreed(inputs, unaudited, outbox, accepted)'
  BY <1>1, <1>2, <1>3, PlanAgrees DEF LInv
<1> QED BY <1>3, <1>4 DEF LInv, Acknowledged, Latest

(* The item next in hand is the least one that is not delivered.           *)
LEMMA NextItemIs ==
    ASSUME IsOutbox(outbox), Undelivered(input) # {}
    PROVE  /\ NextItem \in DOMAIN outbox /\ NextItem \in Nat \ {0}
           /\ NextItem \in Undelivered(input)
           /\ \A s \in Undelivered(input) : NextItem <= s
<1>1. DOMAIN outbox \subseteq Nat \ {0}
  BY DEF IsOutbox
<1>2. Undelivered(input) \subseteq DOMAIN outbox
  BY DEF Undelivered
<1>3. NextItem \in Undelivered(input) /\ \A s \in Undelivered(input) : NextItem <= s
  BY <1>1, <1>2, LeastIn DEF NextItem
<1> QED BY <1>1, <1>2, <1>3

(* The runner commits the item, or has committed it last.                  *)
LEMMA AcceptLedger ==
    ASSUME FInv, LInv, RunnerAccepts PROVE LInv'
<1>1. /\ UNCHANGED <<inputs, unaudited, outbox, source, saved, input>>
      /\ stage' = "acknowledge" /\ Undelivered(input) # {} /\ NextItem >= RunnerCursor
      /\ accepted' = IF NextItem > RunnerCursor THEN Append(accepted, NextItem) ELSE accepted
  BY DEF RunnerAccepts, Outside
<1>2. NextItem \in Nat \ {0} /\ IsOutbox(outbox) /\ accepted \in Seq(Nat)
  BY <1>1, NextItemIs DEF LInv, Agreed
<1>3. RunnerCursor \in Nat
  <2>1. accepted # <<>> => accepted[Len(accepted)] \in Nat
    BY <1>2
  <2> QED BY <2>1 DEF RunnerCursor, Last
<1>4. /\ accepted' \in Seq(Nat)
      /\ \A j \in DOMAIN accepted : j \in DOMAIN accepted' /\ accepted'[j] = accepted[j]
      /\ \E j \in DOMAIN accepted' : accepted'[j] = NextItem
  <2>1. CASE NextItem > RunnerCursor
    <3>1. accepted' = Append(accepted, NextItem)
      BY <1>1, <2>1
    <3>2. /\ accepted' \in Seq(Nat) /\ Len(accepted') = Len(accepted) + 1
          /\ Len(accepted) \in Nat /\ DOMAIN accepted' = 1 .. Len(accepted) + 1
          /\ accepted'[Len(accepted) + 1] = NextItem
          /\ \A j \in 1 .. Len(accepted) : accepted'[j] = accepted[j]
      BY <1>2, <3>1
    <3>3. Len(accepted) + 1 \in DOMAIN accepted'
      BY <3>2
    <3> QED BY <1>2, <3>2, <3>3, SMTT(30)
  <2>2. CASE ~(NextItem > RunnerCursor)
    <3>1. accepted' = accepted /\ NextItem = RunnerCursor
      BY <1>1, <1>2, <1>3, <2>2
    <3>2. accepted # <<>> /\ RunnerCursor = accepted[Len(accepted)]
      BY <1>2, <3>1 DEF RunnerCursor, Last
    <3>3. Len(accepted) \in DOMAIN accepted
      BY <1>2, <3>2
    <3> QED BY <1>2, <3>1, <3>2, <3>3
  <2> QED BY <2>1, <2>2
<1>5. Undelivered(input)' = Undelivered(input) /\ NextItem' = NextItem /\ Latest' = Latest
  BY <1>1 DEF Undelivered, NextItem, Latest
<1>6. Agreed(inputs, unaudited, outbox, accepted)'
  <2>1. \A s : Committed(accepted, s) => Committed(accepted', s)
    BY <1>4 DEF Committed
  <2> QED BY <1>1, <1>4, <2>1 DEF LInv, Agreed
<1>7. Acknowledged'
  <2>1. Committed(accepted', NextItem)
    BY <1>4 DEF Committed
  <2> QED BY <1>1, <1>5, <2>1 DEF Acknowledged
<1> QED BY <1>1, <1>5, <1>6, <1>7 DEF LInv

(* An item is marked delivered only after the runner has committed it.     *)
LEMMA MarkLedger ==
    ASSUME FInv, LInv, MarkDelivered PROVE LInv'
<1>1. /\ UNCHANGED <<inputs, unaudited, accepted, source, saved, input>>
      /\ stage = "acknowledge" /\ stage' = "deliver"
      /\ outbox' = [outbox EXCEPT ![NextItem].delivered = TRUE]
  BY DEF MarkDelivered, Outside
<1>2. IsOutbox(outbox) /\ NextItem \in DOMAIN outbox
  BY <1>1, NextItemIs DEF LInv, Agreed, Acknowledged
<1>3. Committed(accepted, NextItem)
  BY <1>1 DEF LInv, Acknowledged
<1> DEFINE n == NextItem
<1> HIDE DEF n
<1>4. /\ IsOutbox(outbox') /\ DOMAIN outbox' = DOMAIN outbox /\ outbox'[n].delivered
      /\ \A s \in DOMAIN outbox : /\ outbox'[s].input = outbox[s].input
                                  /\ s # n => outbox'[s] = outbox[s]
  BY <1>1, <1>2, MarkMarks DEF n
<1>5. Agreed(inputs, unaudited, outbox, accepted)'
  BY <1>1, <1>3, <1>4 DEF LInv, Agreed, n
<1> QED BY <1>1, <1>5 DEF LInv, Acknowledged, Latest

(* An input completes only with nothing left to deliver or audit.          *)
LEMMA CompleteLedger ==
    ASSUME FInv, LInv,
           \/ \E r \in Rows : CompleteRow(r)
           \/ \E k \in Keys : CompleteTimerInput(k)
    PROVE  LInv'
<1>1. /\ UNCHANGED <<unaudited, outbox, accepted, source>> /\ HandledAll
      /\ inputs' = [inputs EXCEPT ![input] = "COMPLETE"]
      /\ stage' \in {"row", "idle", "drain", "finish"} /\ (saved' = saved \/ saved' = <<>>)
  BY DEF CompleteRow, CompleteTimerInput, Outside
<1>2. input \in Inputs
  BY <1>1, InputInHand DEF HandledAll, LInv
<1>3. /\ inputs' \in [Inputs -> InStates]
      /\ \A i \in Inputs : i # input => inputs'[i] = inputs[i]
  BY <1>1 DEF LInv, Agreed, InStates
<1>4. ASSUME NEW s \in DOMAIN outbox, ~outbox[s].delivered
      PROVE  inputs'[outbox[s].input] = "PLANNED"
  <2>1. outbox[s].input # input
    BY <1>1, <1>4 DEF HandledAll, Undelivered
  <2>2. outbox[s].input \in Inputs
    BY <1>4, EntryTyped DEF LInv, Agreed
  <2> QED BY <1>3, <1>4, <2>1, <2>2 DEF LInv, Agreed
<1>5. \A i \in Inputs : inputs'[i] = "COMPLETE" => unaudited[i] = {}
  BY <1>1, <1>3 DEF HandledAll, LInv, Agreed
<1>6. Agreed(inputs, unaudited, outbox, accepted)'
  BY <1>1, <1>3, <1>4, <1>5 DEF LInv, Agreed
<1> QED BY <1>1, <1>6 DEF LInv, Acknowledged, Latest

LEMMA DeliverEvaluationsLedger ==
    ASSUME FInv, LInv, DeliverEvaluations PROVE LInv'
<1>1. /\ UNCHANGED <<inputs, outbox, accepted, source, saved>> /\ stage' = "deliver"
      /\ unaudited' = [unaudited EXCEPT ![input] = {}]
  BY DEF DeliverEvaluations, Outside
<1>2. /\ unaudited' \in [Inputs -> SUBSET Roles]
      /\ \A i \in Inputs : unaudited[i] = {} => unaudited'[i] = {}
  BY <1>1 DEF LInv, Agreed
<1>3. Agreed(inputs, unaudited, outbox, accepted)'
  BY <1>1, <1>2 DEF LInv, Agreed
<1> QED BY <1>1, <1>3 DEF LInv, Acknowledged, Latest

(* A batch opens with tables to go back to; a crash goes back to them.     *)
LEMMA OpenLedger ==
    ASSUME LInv, StartBatch PROVE LInv'
<1>1. /\ UNCHANGED <<inputs, unaudited, outbox, accepted, source>> /\ stage' = "row"
      /\ \/ saved' = saved
         \/ saved'[2] = inputs /\ saved'[5] = unaudited /\ saved'[6] = outbox
            /\ saved'[8] = accepted
  BY DEF StartBatch, database, Outside
<1>2. Agreed(inputs, unaudited, outbox, accepted)'
  BY <1>1 DEF LInv, Agreed
<1>3. saved' # <<>> => Agreed(saved'[2], saved'[5], saved'[6], saved'[8])
  BY <1>1 DEF LInv
<1> QED BY <1>1, <1>2, <1>3 DEF LInv, Acknowledged, Latest

LEMMA CrashLedger ==
    ASSUME LInv, Crash PROVE LInv'
<1>1. source' = source /\ stage' = "down" /\ saved' = <<>>
  BY DEF Crash
<1>2. Agreed(inputs, unaudited, outbox, accepted)'
  <2>1. CASE saved # <<>>
    <3>1. inputs' = saved[2] /\ unaudited' = saved[5] /\ outbox' = saved[6] /\ accepted' = saved[8]
      BY <2>1 DEF Crash, RollBack
    <3>2. Agreed(saved[2], saved[5], saved[6], saved[8])
      BY <2>1 DEF LInv
    <3> QED BY <3>1, <3>2 DEF Agreed
  <2>2. CASE saved = <<>>
    <3>1. UNCHANGED <<inputs, unaudited, outbox, accepted>>
      BY <2>2 DEF Crash, database
    <3> QED BY <3>1 DEF LInv, Agreed
  <2> QED BY <2>1, <2>2
<1> QED BY <1>1, <1>2 DEF LInv, Acknowledged, Latest

(* Steps that write none of these tables.                                  *)
LEMMA AwayLedger ==
    ASSUME FInv, LInv,
           \/ \E row \in Feed : Collect(row)
           \/ \E k \in Keys : \/ TickAgain(k) \/ ReplayTimer(k) \/ CompleteTimer(k)
                              \/ \E tick \in Ticks : Tick(k, tick)
           \/ EndDrain \/ ReplayRow \/ Restart \/ UNCHANGED vars
    PROVE  LInv'
<1>1. /\ UNCHANGED <<inputs, unaudited, outbox, accepted, saved>>
      /\ stage' # "acknowledge" \/ (stage' = stage /\ input' = input)
  BY DEF Collect, TickAgain, ReplayTimer, CompleteTimer, Tick, EndDrain, ReplayRow, Restart,
         vars, database, process, Outside
<1>2. Latest' <= MaxRows
  <2>1. CASE \E row \in Feed : Collect(row)
    <3>1. Latest' = Latest + 1 /\ Latest \in Nat /\ Latest < MaxRows
      BY <2>1 DEF Collect, FInv, Typed, Latest
    <3> QED BY <3>1, BoundAssumption
  <2>2. CASE ~(\E row \in Feed : Collect(row))
    <3>1. source' = source
      BY <2>2 DEF TickAgain, ReplayTimer, CompleteTimer, Tick, EndDrain, ReplayRow, Restart,
                  vars, Outside
    <3> QED BY <3>1 DEF LInv, Latest
  <2> QED BY <2>1, <2>2
<1>3. Agreed(inputs, unaudited, outbox, accepted)'
  BY <1>1 DEF LInv, Agreed
<1>4. Acknowledged'
  BY <1>1 DEF LInv, Acknowledged, Undelivered, NextItem
<1> QED BY <1>1, <1>2, <1>3, <1>4 DEF LInv

LEMMA StepLInv == FInv /\ LInv /\ [Next]_vars => LInv'
<1> SUFFICES ASSUME FInv, LInv, [Next]_vars PROVE LInv'
  OBVIOUS
<1>1. CASE Poll \/ DrainBatch
  BY <1>1, OpenLedger DEF Poll, DrainBatch
<1>2. ASSUME NEW r \in Rows, PlanRow(r) \/ CompleteRow(r) PROVE LInv'
  BY <1>2, PlanRowLedger, CompleteLedger
<1>3. ASSUME NEW k \in Keys, PlanTimer(k) \/ CompleteTimerInput(k) PROVE LInv'
  BY <1>3, PlanTimerLedger, CompleteLedger
<1>4. CASE DeliverEvaluations \/ RunnerAccepts \/ MarkDelivered \/ Crash
  BY <1>4, DeliverEvaluationsLedger, AcceptLedger, MarkLedger, CrashLedger
<1>5. CASE \/ \E row \in Feed : Collect(row)
           \/ \E k \in Keys : \/ TickAgain(k) \/ ReplayTimer(k) \/ CompleteTimer(k)
                              \/ \E tick \in Ticks : Tick(k, tick)
           \/ EndDrain \/ ReplayRow \/ Restart \/ UNCHANGED vars
  BY <1>5, AwayLedger
<1> QED BY <1>1, <1>2, <1>3, <1>4, <1>5 DEF Next, Handler

LEMMA AlwaysLInv == Spec => [](FInv /\ LInv)
BY InitFInv, StepFInv, InitLInv, StepLInv, PTL DEF Spec

(* No event is lost, with either binding and either driver of timers: an   *)
(* input is complete only when the runner has committed every one of its   *)
(* items, for every schedule of rows, timers, crashes and rollbacks        *)
(* (_persist_input_and_events, _drain_input, _complete_production_input).  *)
THEOREM LosesNothing == Spec => []NothingLost
<1>1. LInv => NothingLost
  <2> SUFFICES ASSUME LInv, NEW s \in DOMAIN outbox, inputs[outbox[s].input] = "COMPLETE"
               PROVE  \E j \in DOMAIN accepted : accepted[j] = s
    BY DEF NothingLost
  <2>1. outbox[s].delivered \in BOOLEAN
    BY EntryTyped DEF LInv, Agreed
  <2>2. ~outbox[s].delivered => inputs[outbox[s].input] = "PLANNED"
    BY DEF LInv, Agreed
  <2>3. outbox[s].delivered
    BY <2>1, <2>2
  <2>4. outbox[s].delivered => Committed(accepted, s)
    BY DEF LInv, Agreed
  <2> QED BY <2>3, <2>4 DEF Committed
<1> QED BY <1>1, AlwaysLInv, PTL
-----------------------------------------------------------------------------
(* What is planned and not complete: the row after the cursor, when no     *)
(* timer waits before it, or the first timer that waits at the cursor.     *)
InHand(cur, ins) ==
    /\ \A r \in Rows : ins[P1(r)] = "COMPLETE" => r <= cur
    /\ \A r \in Rows : ins[P1(r)] = "PLANNED" =>
         /\ r = cur + 1 /\ r <= Latest
         /\ \A k \in Incomplete : r <= timers[k].watermark
    /\ \A k \in Keys : ins[Timer(k)] = "PLANNED" =>
         /\ timers[k].status = "PLANNED" /\ timers[k].watermark = cur
         /\ \A j \in Incomplete : j < k => timers[j].watermark # cur

(* Timers are prepared in the order of their keys.                         *)
InKeyOrder ==
    \A j, k \in Keys : j < k /\ timers[k].status # "NONE" => timers[j].status # "NONE"

HInv ==
    /\ InHand(cursor, inputs)
    /\ saved # <<>> => InHand(saved[1], saved[2])
    /\ InKeyOrder
    /\ stage = "finish" => inputs[input] = "COMPLETE"

LEMMA Distinct ==
    /\ \A r, q \in Rows : P1(r) = P1(q) => r = q
    /\ \A j, k \in Keys : Timer(j) = Timer(k) => j = k
    /\ \A r \in Rows, k \in Keys : P1(r) # Timer(k)
    /\ \A r \in Rows : P1(r) \in Inputs
    /\ \A k \in Keys : Timer(k) \in Inputs
    /\ \A i \in Inputs : (\E r \in Rows : i = P1(r)) \/ (\E k \in Keys : i = Timer(k))
BY DEF P1, Timer, Inputs

(* At most one input is planned and not complete.                          *)
LEMMA OneInHand ==
    ASSUME FInv, HInv, NEW i \in Inputs, NEW u \in Inputs,
           inputs[i] = "PLANNED", inputs[u] = "PLANNED"
    PROVE  i = u
<1>1. ASSUME NEW r \in Rows, NEW k \in Keys,
             inputs[P1(r)] = "PLANNED", inputs[Timer(k)] = "PLANNED"
      PROVE  FALSE
  <2>1. /\ r = cursor + 1 /\ \A j \in Incomplete : r <= timers[j].watermark
        /\ timers[k].status = "PLANNED" /\ timers[k].watermark = cursor
    BY <1>1 DEF HInv, InHand
  <2>2. k \in Incomplete
    BY <2>1 DEF Incomplete
  <2> QED BY <2>1, <2>2, IncompleteKeys
<1>2. ASSUME NEW r \in Rows, NEW q \in Rows,
             inputs[P1(r)] = "PLANNED", inputs[P1(q)] = "PLANNED"
      PROVE  r = q
  BY <1>2 DEF HInv, InHand
<1>3. ASSUME NEW j \in Keys, NEW k \in Keys,
             inputs[Timer(j)] = "PLANNED", inputs[Timer(k)] = "PLANNED"
      PROVE  ~(j < k)
  <2>1. /\ timers[j].status = "PLANNED" /\ timers[j].watermark = cursor
        /\ \A n \in Incomplete : n < k => timers[n].watermark # cursor
    BY <1>3 DEF HInv, InHand
  <2> QED BY <2>1 DEF Incomplete
<1>4. \A j, k \in Keys : ~(j < k) /\ ~(k < j) => j = k
  BY BoundAssumption DEF Keys
<1> QED BY <1>1, <1>2, <1>3, <1>4, Distinct

LEMMA InitHInv == Init => HInv
BY Distinct DEF Init, HInv, InHand, InKeyOrder

(* Steps that change neither cursor, inputs nor timers.                    *)
LEMMA AwayInHand ==
    ASSUME FInv, HInv,
           UNCHANGED <<cursor, inputs, timers>>,
           source' = source \/ \E row \in Feed : source' = Append(source, row),
           \/ saved' = saved \/ saved' = <<>>
           \/ saved'[1] = cursor /\ saved'[2] = inputs,
           stage' = "finish" => stage = "finish" /\ input' = input
    PROVE  HInv'
<1>1. Latest \in Nat /\ Latest' \in Nat /\ Latest <= Latest'
  BY DEF FInv, Typed, Latest
<1>2. Incomplete' = Incomplete
  BY DEF Incomplete
<1>3. ASSUME NEW cur, NEW ins, InHand(cur, ins)
      PROVE  /\ \A r \in Rows : ins[P1(r)] = "COMPLETE" => r <= cur
             /\ \A r \in Rows : ins[P1(r)] = "PLANNED" =>
                  /\ r = cur + 1 /\ r <= Latest'
                  /\ \A k \in Incomplete' : r <= timers'[k].watermark
             /\ \A k \in Keys : ins[Timer(k)] = "PLANNED" =>
                  /\ timers'[k].status = "PLANNED" /\ timers'[k].watermark = cur
                  /\ \A j \in Incomplete' : j < k => timers'[j].watermark # cur
  BY <1>1, <1>2, <1>3, BoundAssumption DEF InHand, Rows
<1>4. InHand(cursor, inputs)'
  BY <1>3 DEF HInv, InHand
<1>5. saved' # <<>> => InHand(saved[1], saved[2])'
  <2>1. CASE saved' = saved /\ saved # <<>>
    BY <1>3, <2>1 DEF HInv, InHand
  <2>2. CASE saved'[1] = cursor /\ saved'[2] = inputs
    BY <1>4, <2>2 DEF InHand
  <2> QED BY <2>1, <2>2
<1>6. InKeyOrder'
  BY DEF HInv, InKeyOrder
<1> QED BY <1>4, <1>5, <1>6 DEF HInv

LEMMA TickInHand ==
    ASSUME FInv, HInv, NEW k \in Keys, NEW tick \in Ticks, Tick(k, tick) PROVE HInv'
<1> DEFINE row == [status |-> "PREPARED", watermark |-> Latest, tick |-> tick]
<1>1. /\ UNCHANGED <<cursor, inputs, input>> /\ Latest' = Latest /\ stage' = "drain"
      /\ saved' = saved /\ timers' = [timers EXCEPT ![k] = row]
      /\ timers[k].status = "NONE" /\ stage = "idle"
      /\ \A j \in 1 .. k - 1 : timers[j].status # "NONE"
  BY DEF Tick, Watermark, Outside, Latest
<1>2. saved = <<>>
  BY <1>1 DEF FInv, InBatch, OffBatch
<1>3. \A j \in Keys : timers'[j] = IF j = k THEN row ELSE timers[j]
  BY <1>1 DEF FInv, Typed
<1>4. Incomplete' = Incomplete \cup {k} /\ k \notin Incomplete
  BY <1>1, <1>3 DEF Incomplete
<1>5. \A j \in Keys : timers[j].status = "PLANNED" => j # k /\ ~(k < j)
  BY <1>1 DEF HInv, InKeyOrder
<1>6. InHand(cursor, inputs)'
  <2>1. \A r \in Rows : inputs[P1(r)] = "COMPLETE" => r <= cursor
    BY DEF HInv, InHand
  <2>2. ASSUME NEW r \in Rows, inputs[P1(r)] = "PLANNED"
        PROVE  /\ r = cursor + 1 /\ r <= Latest
               /\ \A j \in Incomplete' : r <= timers'[j].watermark
    <3>1. /\ r = cursor + 1 /\ r <= Latest
          /\ \A j \in Incomplete : r <= timers[j].watermark
      BY <2>2 DEF HInv, InHand
    <3> QED BY <1>3, <1>4, <3>1, IncompleteKeys
  <2>3. ASSUME NEW n \in Keys, inputs[Timer(n)] = "PLANNED"
        PROVE  /\ timers'[n].status = "PLANNED" /\ timers'[n].watermark = cursor
               /\ \A j \in Incomplete' : j < n => timers'[j].watermark # cursor
    <3>1. /\ timers[n].status = "PLANNED" /\ timers[n].watermark = cursor
          /\ \A j \in Incomplete : j < n => timers[j].watermark # cursor
      BY <2>3 DEF HInv, InHand
    <3>2. n # k /\ ~(k < n)
      BY <1>5, <3>1
    <3> QED BY <1>3, <1>4, <3>1, <3>2, IncompleteKeys
  <2> QED BY <1>1, <2>1, <2>2, <2>3 DEF InHand
<1>7. InKeyOrder'
  <2> SUFFICES ASSUME NEW j \in Keys, NEW n \in Keys, j < n, timers'[n].status # "NONE"
               PROVE  timers'[j].status # "NONE"
    BY DEF InKeyOrder
  <2>1. row.status = "PREPARED"
    OBVIOUS
  <2>2. CASE n = k
    <3>1. j \in 1 .. k - 1
      BY <2>2, BoundAssumption DEF Keys
    <3> QED BY <1>1, <1>3, <2>1, <3>1
  <2>3. CASE n # k
    BY <1>3, <2>1, <2>3 DEF HInv, InKeyOrder
  <2> QED BY <2>2, <2>3
<1> QED BY <1>1, <1>2, <1>6, <1>7 DEF HInv

LEMMA PlanRowInHand ==
    ASSUME FInv, LInv, HInv, NEW r \in Rows, PlanRow(r) PROVE HInv'
<1>1. /\ UNCHANGED <<cursor, timers, saved>> /\ Latest' = Latest /\ stage' = "audit"
      /\ stage = "row" /\ input = P1(r) /\ inputs[P1(r)] = "ABSENT"
      /\ inputs' = [inputs EXCEPT ![P1(r)] = "PLANNED"]
  BY DEF PlanRow, Outside, Latest
<1>2. Incomplete' = Incomplete
  BY <1>1 DEF Incomplete
<1>3. InBatch
  BY <1>1 DEF FInv, OffBatch, NoInput, P1
<1>4. r = cursor + 1 /\ r <= Latest /\ \A k \in Incomplete : r <= timers[k].watermark
  <2>1. r = cursor + 1
    BY <1>1, <1>3 DEF InBatch, P1
  <2> QED BY <1>3, <2>1, IncompleteKeys DEF InBatch
<1>5. \A i \in Inputs : inputs'[i] = IF i = P1(r) THEN "PLANNED" ELSE inputs[i]
  BY <1>1 DEF LInv, Agreed
<1>6. InHand(cursor, inputs)'
  BY <1>1, <1>2, <1>4, <1>5, Distinct DEF HInv, InHand
<1>7. saved # <<>> => InHand(saved[1], saved[2])'
  BY <1>1, <1>2 DEF HInv, InHand
<1> QED BY <1>1, <1>6, <1>7 DEF HInv, InKeyOrder

(* With the drain, the timer that is ready is the first one that waits.    *)
LEMMA FirstWaiting ==
    ASSUME Driver = "DRAIN", FInv, NEW k \in Keys, Ready(k),
           timers[k].status \in {"PREPARED", "PLANNED"}
    PROVE  \A j \in Incomplete : j < k => timers[j].watermark # cursor
<1> DEFINE S == {j \in Incomplete : timers[j].watermark = Fence}
<1>1. k \in Incomplete /\ timers[k].watermark = cursor
  BY ReadyAtCursor DEF Incomplete
<1>2. HasFence /\ k = Min(S)
  BY <1>1 DEF HasFence, Ready, NextTimer
<1>3. S \subseteq Nat /\ S # {}
  BY <1>2, FenceIsLeast, IncompleteKeys DEF Keys
<1>4. k \in S /\ \A j \in S : k <= j
  <2> HIDE DEF S
  <2> QED BY <1>2, <1>3, LeastIn
<1>5. Fence = cursor
  BY <1>1, <1>4
<1> QED BY <1>3, <1>4, <1>5

LEMMA PlanTimerInHand ==
    ASSUME Driver = "DRAIN", FInv, LInv, HInv, NEW k \in Keys, PlanTimer(k) PROVE HInv'
<1>1. /\ Ready(k) /\ timers[k].status = "PREPARED" /\ UNCHANGED <<cursor, saved>>
      /\ Latest' = Latest /\ stage = "drain" /\ stage' = "audit"
      /\ timers' = [timers EXCEPT ![k].status = "PLANNED"]
      /\ inputs' = [inputs EXCEPT ![Timer(k)] = "PLANNED"]
  BY DEF PlanTimer, Ready, Outside, Latest
<1>2. saved = <<>> /\ timers[k].watermark = cursor /\ k \in Incomplete
  BY <1>1, ReadyAtCursor DEF FInv, InBatch, OffBatch, Incomplete
<1>3. /\ \A j \in Keys : timers'[j].watermark = timers[j].watermark
      /\ \A j \in Keys : timers'[j].status = IF j = k THEN "PLANNED" ELSE timers[j].status
      /\ Incomplete' = Incomplete
  BY <1>1 DEF FInv, Typed, Incomplete
<1>4. \A j \in Incomplete : j < k => timers[j].watermark # cursor
  BY <1>1, FirstWaiting
<1>5. \A i \in Inputs : inputs'[i] = IF i = Timer(k) THEN "PLANNED" ELSE inputs[i]
  BY <1>1 DEF LInv, Agreed
<1>6. InHand(cursor, inputs)'
  <2>1. \A r \in Rows : inputs'[P1(r)] = inputs[P1(r)]
    BY <1>5, Distinct
  <2>2. \A j \in Keys : j # k => inputs'[Timer(j)] = inputs[Timer(j)]
    BY <1>5, Distinct
  <2>3. \A r \in Rows : inputs'[P1(r)] = "COMPLETE" => r <= cursor
    BY <2>1 DEF HInv, InHand
  <2>4. ASSUME NEW r \in Rows, inputs'[P1(r)] = "PLANNED"
        PROVE  r = cursor + 1 /\ r <= Latest /\ \A j \in Incomplete : r <= timers[j].watermark
    BY <2>1, <2>4 DEF HInv, InHand
  <2>5. ASSUME NEW n \in Keys, inputs'[Timer(n)] = "PLANNED"
        PROVE  /\ timers'[n].status = "PLANNED" /\ timers[n].watermark = cursor
               /\ \A j \in Incomplete : j < n => timers[j].watermark # cursor
    <3>1. CASE n = k
      BY <1>2, <1>3, <1>4, <3>1
    <3>2. CASE n # k
      BY <1>3, <2>2, <2>5, <3>2 DEF HInv, InHand
    <3> QED BY <3>1, <3>2
  <2>6. Incomplete \subseteq Keys
    BY DEF Incomplete
  <2> QED BY <1>1, <1>3, <2>3, <2>4, <2>5, <2>6 DEF InHand
<1>7. InKeyOrder'
  BY <1>1, <1>3 DEF HInv, InKeyOrder
<1> QED BY <1>1, <1>2, <1>6, <1>7 DEF HInv

LEMMA CompleteTimerInHand ==
    ASSUME FInv, LInv, HInv, NEW k \in Keys, CompleteTimer(k) PROVE HInv'
<1>1. /\ UNCHANGED <<cursor, inputs, saved>> /\ Latest' = Latest
      /\ stage = "finish" /\ stage' = "drain" /\ input = Timer(k)
      /\ timers' = [timers EXCEPT ![k].status = "COMPLETE"]
  BY DEF CompleteTimer, Outside, Latest
<1>2. saved = <<>> /\ inputs[Timer(k)] = "COMPLETE"
  BY <1>1 DEF FInv, InBatch, OffBatch, HInv
<1>3. /\ \A j \in Keys : timers'[j].watermark = timers[j].watermark
      /\ \A j \in Keys : timers'[j].status = IF j = k THEN "COMPLETE" ELSE timers[j].status
      /\ Incomplete' = Incomplete \ {k} /\ Incomplete \subseteq Keys
  BY <1>1 DEF FInv, Typed, Incomplete
<1>4. InHand(cursor, inputs)'
  BY <1>1, <1>2, <1>3 DEF HInv, InHand
<1>5. timers[k].status = "PLANNED"
  BY <1>1 DEF FInv, InBatch, OffBatch, NoInput, Timer
<1>6. InKeyOrder'
  BY <1>1, <1>3, <1>5 DEF HInv, InKeyOrder
<1> QED BY <1>1, <1>2, <1>4, <1>6 DEF HInv

LEMMA CompleteInputInHand ==
    ASSUME FInv, LInv, HInv, NEW k \in Keys, CompleteTimerInput(k) PROVE HInv'
<1>1. /\ UNCHANGED <<cursor, timers, saved, input>> /\ Latest' = Latest /\ stage' = "finish"
      /\ stage = "deliver" /\ input = Timer(k)
      /\ inputs' = [inputs EXCEPT ![Timer(k)] = "COMPLETE"]
  BY DEF CompleteTimerInput, HandledAll, Outside, Latest
<1>2. Incomplete' = Incomplete
  BY <1>1 DEF Incomplete
<1>3. \A i \in Inputs : inputs'[i] = IF i = Timer(k) THEN "COMPLETE" ELSE inputs[i]
  BY <1>1 DEF LInv, Agreed
<1>4. InHand(cursor, inputs)'
  BY <1>1, <1>2, <1>3, Distinct DEF HInv, InHand
<1>5. saved # <<>> => InHand(saved[1], saved[2])'
  BY <1>1, <1>2 DEF HInv, InHand
<1>6. inputs'[input'] = "COMPLETE"
  BY <1>1, <1>3, Distinct
<1> QED BY <1>1, <1>4, <1>5, <1>6 DEF HInv, InKeyOrder

LEMMA CompleteRowInHand ==
    ASSUME FInv, LInv, HInv, NEW r \in Rows, CompleteRow(r) PROVE HInv'
<1>1. limit # 0 /\ InBatch /\ r = cursor + 1 /\ cursor' = r /\ r <= limit
  BY CompletedRow
<1>2. /\ timers' = timers /\ Latest' = Latest /\ input = P1(r)
      /\ inputs' = [inputs EXCEPT ![P1(r)] = "COMPLETE"]
      /\ stage' \in {"row", "idle", "drain"} /\ (saved' = saved \/ saved' = <<>>)
  BY DEF CompleteRow, Outside, Latest
<1>3. Incomplete' = Incomplete
  BY <1>2 DEF Incomplete
<1>4. \A i \in Inputs : inputs'[i] = IF i = P1(r) THEN "COMPLETE" ELSE inputs[i]
  BY <1>2 DEF LInv, Agreed
<1>5. \A q \in Rows : inputs'[P1(q)] # "PLANNED"
  BY <1>1, <1>4, Distinct DEF HInv, InHand
<1>6. \A k \in Keys : inputs'[Timer(k)] # "PLANNED"
  <2> SUFFICES ASSUME NEW k \in Keys, inputs[Timer(k)] = "PLANNED" PROVE FALSE
    BY <1>4, Distinct
  <2>1. k \in Incomplete /\ timers[k].watermark = cursor
    BY DEF HInv, InHand, Incomplete
  <2> QED BY <1>1, <2>1, IncompleteKeys DEF InBatch
<1>7. \A q \in Rows : inputs'[P1(q)] = "COMPLETE" => q <= r
  <2> SUFFICES ASSUME NEW q \in Rows, inputs'[P1(q)] = "COMPLETE" PROVE q <= r
    OBVIOUS
  <2>1. q = r \/ q <= cursor
    BY <1>4, Distinct DEF HInv, InHand
  <2> QED BY <1>1, <2>1, IncompleteKeys DEF Rows
<1>8. InHand(cursor, inputs)'
  BY <1>1, <1>5, <1>6, <1>7 DEF InHand
<1>9. saved' # <<>> => InHand(saved[1], saved[2])'
  BY <1>2, <1>3 DEF HInv, InHand
<1> QED BY <1>2, <1>8, <1>9 DEF HInv, InKeyOrder

LEMMA CrashInHand ==
    ASSUME FInv, LInv, HInv, Crash PROVE HInv'
<1>1. timers' = timers /\ Latest' = Latest /\ stage' = "down" /\ saved' = <<>>
  BY CrashStep DEF Crash
<1>2. Incomplete' = Incomplete
  BY <1>1 DEF Incomplete
<1>3. InHand(cursor, inputs)'
  <2>1. CASE saved # <<>>
    <3>1. cursor' = saved[1] /\ inputs' = saved[2]
      BY <2>1 DEF Crash, RollBack
    <3> QED BY <1>1, <1>2, <2>1, <3>1 DEF HInv, InHand
  <2>2. CASE saved = <<>>
    <3>1. UNCHANGED <<cursor, inputs>>
      BY <2>2 DEF Crash, database
    <3> QED BY <1>1, <1>2, <3>1 DEF HInv, InHand
  <2> QED BY <2>1, <2>2
<1> QED BY <1>1, <1>3 DEF HInv, InKeyOrder

LEMMA StepHInv ==
    ASSUME Driver = "DRAIN", FInv, LInv, HInv, [Next]_vars
    PROVE  HInv'
<1>1. CASE \E row \in Feed : Collect(row)
  <2>1. /\ UNCHANGED <<cursor, inputs, timers, saved, stage, input>>
        /\ \E row \in Feed : source' = Append(source, row)
    BY <1>1 DEF Collect, database, process
  <2> QED BY <2>1, AwayInHand
<1>2. CASE Poll \/ DrainBatch
  <2>1. /\ UNCHANGED <<cursor, inputs, timers, source>> /\ stage' = "row"
        /\ saved' = saved \/ (saved'[1] = cursor /\ saved'[2] = inputs)
    BY <1>2 DEF Poll, DrainBatch, StartBatch, database, Outside
  <2> QED BY <2>1, AwayInHand
<1>3. ASSUME NEW k \in Keys, NEW tick \in Ticks, Tick(k, tick) PROVE HInv'
  BY <1>3, TickInHand
<1>4. ASSUME NEW r \in Rows, PlanRow(r) \/ CompleteRow(r) PROVE HInv'
  BY <1>4, PlanRowInHand, CompleteRowInHand
<1>5. ASSUME NEW k \in Keys, PlanTimer(k) \/ CompleteTimerInput(k) \/ CompleteTimer(k)
      PROVE  HInv'
  BY <1>5, PlanTimerInHand, CompleteInputInHand, CompleteTimerInHand
<1>6. CASE Crash
  BY <1>6, CrashInHand
<1>7. CASE \/ \E k \in Keys : TickAgain(k) \/ ReplayTimer(k)
           \/ EndDrain \/ ReplayRow \/ DeliverEvaluations \/ RunnerAccepts \/ MarkDelivered
           \/ Restart \/ UNCHANGED vars
  <2>1. /\ UNCHANGED <<cursor, inputs, timers, source, saved>>
        /\ stage' = "finish" => stage = "finish" /\ input' = input
    BY <1>7 DEF TickAgain, ReplayTimer, EndDrain, ReplayRow, DeliverEvaluations, RunnerAccepts,
       MarkDelivered, Restart, vars, database, process, Outside
  <2> QED BY <2>1, AwayInHand
<1> QED BY <1>1, <1>2, <1>3, <1>4, <1>5, <1>6, <1>7 DEF Next, Handler
-----------------------------------------------------------------------------
(* The runner's cursor stands in the outbox between what is delivered and  *)
(* what is not.                                                            *)
RunnerAt(acc) == IF acc = <<>> THEN 0 ELSE Last(acc)

Ordered(o, acc) ==
    /\ RunnerAt(acc) = 0 \/ RunnerAt(acc) \in DOMAIN o
    /\ \A s \in DOMAIN o : s < RunnerAt(acc) => o[s].delivered
    /\ \A s \in DOMAIN o : s > RunnerAt(acc) => ~o[s].delivered

OInv ==
    /\ Ordered(outbox, accepted)
    /\ saved # <<>> => Ordered(saved[6], saved[8])
    /\ stage = "acknowledge" => NextItem = RunnerCursor

LEMMA InitOInv == Init => OInv
BY DEF Init, OInv, Ordered, RunnerAt

LEMMA RunnerAtNat ==
    ASSUME LInv PROVE RunnerAt(accepted) \in Nat /\ RunnerCursor = RunnerAt(accepted)
<1>1. accepted \in Seq(Nat)
  BY DEF LInv, Agreed
<1>2. accepted # <<>> => accepted[Len(accepted)] \in Nat
  BY <1>1
<1> QED BY <1>2 DEF RunnerAt, RunnerCursor, Last

(* What is posted comes after everything the runner has committed.         *)
LEMMA PostOrdered ==
    ASSUME LInv, OInv, NEW i \in Inputs, NEW events, IsEvents(events),
           outbox' = Post(i, events), accepted' = accepted
    PROVE  Ordered(outbox, accepted)'
<1>1. IsOutbox(outbox)
  BY DEF LInv, Agreed
<1>2. /\ Len(outbox) \in Nat /\ DOMAIN outbox = 1 .. Len(outbox)
      /\ DOMAIN outbox \subseteq DOMAIN outbox'
      /\ \A s \in DOMAIN outbox : outbox'[s] = outbox[s]
      /\ \A s \in DOMAIN outbox' \ DOMAIN outbox :
           s \in Nat /\ s > Len(outbox) /\ ~outbox'[s].delivered
  BY <1>1, PostAppends
<1>3. RunnerAt(accepted) \in Nat /\ RunnerAt(accepted) <= Len(outbox)
  BY <1>2, RunnerAtNat DEF OInv, Ordered
<1>4. ASSUME NEW s \in DOMAIN outbox', s < RunnerAt(accepted) PROVE outbox'[s].delivered
  <2>1. s \in DOMAIN outbox
    BY <1>2, <1>3, <1>4
  <2>2. outbox[s].delivered
    BY <1>4, <2>1 DEF OInv, Ordered
  <2> QED BY <1>2, <2>1, <2>2
<1>5. ASSUME NEW s \in DOMAIN outbox', s > RunnerAt(accepted) PROVE ~outbox'[s].delivered
  <2>1. CASE s \in DOMAIN outbox
    <3>1. ~outbox[s].delivered
      BY <1>5, <2>1 DEF OInv, Ordered
    <3> QED BY <1>2, <2>1, <3>1
  <2>2. CASE s \notin DOMAIN outbox
    BY <1>2, <2>2
  <2> QED BY <2>1, <2>2
<1>6. RunnerAt(accepted) = 0 \/ RunnerAt(accepted) \in DOMAIN outbox'
  BY <1>2 DEF OInv, Ordered
<1> QED BY <1>4, <1>5, <1>6 DEF Ordered

LEMMA PlanOrdered ==
    ASSUME FInv, LInv, OInv,
           (\E r \in Rows : PlanRow(r)) \/ (\E k \in Keys : PlanTimer(k))
    PROVE  OInv'
<1>1. accepted' = accepted /\ saved' = saved /\ stage' = "audit"
  BY DEF PlanRow, PlanTimer, Outside
<1>2. ASSUME NEW r \in Rows, PlanRow(r) PROVE Ordered(outbox, accepted)'
  <2>1. outbox' = Post(P1(r), RowEvents(source[r], Strategy))
    BY <1>2 DEF PlanRow
  <2> QED BY <1>1, <2>1, PostOrdered, RowEventsAre, Distinct
<1>3. ASSUME NEW k \in Keys, PlanTimer(k) PROVE Ordered(outbox, accepted)'
  <2>1. outbox' = Post(Timer(k), TickEvents(timers[k].tick, Strategy))
    BY <1>3 DEF PlanTimer
  <2> QED BY <1>1, <2>1, PostOrdered, TickEventsAre, Distinct
<1> QED BY <1>1, <1>2, <1>3 DEF OInv

(* Everything before the item in hand is delivered: it would belong to the *)
(* input in hand as well.                                                  *)
LEMMA DeliveredBefore ==
    ASSUME FInv, LInv, HInv, Undelivered(input) # {}, input \in Inputs
    PROVE  \A s \in DOMAIN outbox : s < NextItem => outbox[s].delivered
<1> SUFFICES ASSUME NEW s \in DOMAIN outbox, s < NextItem, ~outbox[s].delivered PROVE FALSE
  OBVIOUS
<1>1. IsOutbox(outbox)
  BY DEF LInv, Agreed
<1>2. /\ NextItem \in Undelivered(input) /\ NextItem \in Nat /\ s \in Nat
      /\ \A u \in Undelivered(input) : NextItem <= u
  BY <1>1, NextItemIs DEF IsOutbox
<1>3. /\ NextItem \in DOMAIN outbox
      /\ outbox[NextItem].input = input /\ ~outbox[NextItem].delivered
  BY <1>2 DEF Undelivered
<1>4. inputs[outbox[s].input] = "PLANNED" /\ inputs[input] = "PLANNED"
  <2>1. \A u \in DOMAIN outbox : ~outbox[u].delivered => inputs[outbox[u].input] = "PLANNED"
    BY DEF LInv, Agreed
  <2> QED BY <1>3, <2>1
<1>5. outbox[s].input = input
  BY <1>1, <1>4, EntryTyped, OneInHand
<1>6. s \in Undelivered(input)
  BY <1>5 DEF Undelivered
<1> QED BY <1>2, <1>6

LEMMA AcceptOrdered ==
    ASSUME FInv, LInv, HInv, OInv, RunnerAccepts PROVE OInv'
<1>1. /\ UNCHANGED <<outbox, saved, input>> /\ stage = "deliver" /\ stage' = "acknowledge"
      /\ Undelivered(input) # {} /\ NextItem >= RunnerCursor
      /\ accepted' = IF NextItem > RunnerCursor THEN Append(accepted, NextItem) ELSE accepted
  BY DEF RunnerAccepts, Outside
<1>2. IsOutbox(outbox) /\ accepted \in Seq(Nat) /\ input \in Inputs
  BY <1>1, InputInHand DEF LInv, Agreed
<1>3. /\ NextItem \in DOMAIN outbox /\ NextItem \in Nat /\ DOMAIN outbox \subseteq Nat
      /\ RunnerAt(accepted) \in Nat /\ RunnerCursor = RunnerAt(accepted)
  BY <1>1, <1>2, NextItemIs, RunnerAtNat DEF IsOutbox
<1>4. RunnerAt(accepted') = NextItem
  <2>1. CASE NextItem > RunnerCursor
    <3>1. accepted' = Append(accepted, NextItem)
      BY <1>1, <2>1
    <3>2. accepted' # <<>> /\ accepted'[Len(accepted')] = NextItem
      BY <1>2, <1>3, <3>1
    <3> QED BY <3>2 DEF RunnerAt, Last
  <2>2. CASE ~(NextItem > RunnerCursor)
    <3>1. accepted' = accepted /\ NextItem = RunnerCursor
      BY <1>1, <1>3, <2>2
    <3> QED BY <1>3, <3>1
  <2> QED BY <2>1, <2>2
<1>5. \A s \in DOMAIN outbox : s < NextItem => outbox[s].delivered
  BY <1>1, <1>2, DeliveredBefore
<1>6. ASSUME NEW s \in DOMAIN outbox, s > NextItem PROVE ~outbox[s].delivered
  <2>1. s > RunnerAt(accepted)
    BY <1>1, <1>3, <1>6
  <2> QED BY <2>1 DEF OInv, Ordered
<1>7. Ordered(outbox, accepted)'
  BY <1>1, <1>3, <1>4, <1>5, <1>6 DEF Ordered
<1>8. NextItem' = NextItem
  BY <1>1 DEF NextItem, Undelivered
<1>9. RunnerCursor' = RunnerAt(accepted')
  BY DEF RunnerCursor, RunnerAt
<1> QED BY <1>1, <1>4, <1>7, <1>8, <1>9 DEF OInv

LEMMA MarkOrdered ==
    ASSUME FInv, LInv, OInv, MarkDelivered PROVE OInv'
<1>1. /\ UNCHANGED <<accepted, saved>> /\ stage = "acknowledge" /\ stage' = "deliver"
      /\ outbox' = [outbox EXCEPT ![NextItem].delivered = TRUE]
  BY DEF MarkDelivered, Outside
<1>2. IsOutbox(outbox) /\ NextItem \in DOMAIN outbox /\ DOMAIN outbox \subseteq Nat
  BY <1>1, NextItemIs DEF LInv, Agreed, Acknowledged, IsOutbox
<1>3. NextItem = RunnerAt(accepted)
  BY <1>1, RunnerAtNat DEF OInv
<1> DEFINE n == NextItem
<1>4. n = RunnerAt(accepted) /\ n \in Nat
  BY <1>2, <1>3
<1> HIDE DEF n
<1>5. /\ DOMAIN outbox' = DOMAIN outbox
      /\ \A s \in DOMAIN outbox : s # n => outbox'[s] = outbox[s]
  BY <1>1, <1>2, MarkMarks DEF n
<1>6. ASSUME NEW s \in DOMAIN outbox, s < n PROVE outbox'[s].delivered
  <2>1. s # n /\ outbox[s].delivered
    BY <1>2, <1>4, <1>6 DEF OInv, Ordered
  <2> QED BY <1>5, <2>1
<1>7. ASSUME NEW s \in DOMAIN outbox, s > n PROVE ~outbox'[s].delivered
  <2>1. s # n /\ ~outbox[s].delivered
    BY <1>2, <1>4, <1>7 DEF OInv, Ordered
  <2> QED BY <1>5, <2>1
<1>8. Ordered(outbox, accepted)'
  BY <1>1, <1>4, <1>5, <1>6, <1>7 DEF OInv, Ordered
<1> QED BY <1>1, <1>8 DEF OInv

LEMMA CrashOrdered ==
    ASSUME OInv, Crash PROVE OInv'
<1>1. stage' = "down" /\ saved' = <<>>
  BY DEF Crash
<1>2. Ordered(outbox, accepted)'
  <2>1. CASE saved # <<>>
    <3>1. outbox' = saved[6] /\ accepted' = saved[8]
      BY <2>1 DEF Crash, RollBack
    <3> QED BY <2>1, <3>1 DEF OInv, Ordered
  <2>2. CASE saved = <<>>
    BY <2>2 DEF Crash, database, OInv, Ordered
  <2> QED BY <2>1, <2>2
<1> QED BY <1>1, <1>2 DEF OInv

LEMMA StepOInv ==
    ASSUME FInv, LInv, HInv, OInv, [Next]_vars
    PROVE  OInv'
<1>1. CASE Poll \/ DrainBatch
  <2>1. /\ UNCHANGED <<outbox, accepted>> /\ stage' = "row"
        /\ saved' = saved \/ (saved'[6] = outbox /\ saved'[8] = accepted)
    BY <1>1 DEF Poll, DrainBatch, StartBatch, database
  <2> QED BY <2>1 DEF OInv, Ordered
<1>2. CASE (\E r \in Rows : PlanRow(r)) \/ (\E k \in Keys : PlanTimer(k))
  BY <1>2, PlanOrdered
<1>3. CASE RunnerAccepts \/ MarkDelivered \/ Crash
  BY <1>3, AcceptOrdered, MarkOrdered, CrashOrdered
<1>4. CASE \/ \E row \in Feed : Collect(row)
           \/ \E r \in Rows : CompleteRow(r)
           \/ \E k \in Keys : \/ TickAgain(k) \/ ReplayTimer(k) \/ CompleteTimer(k)
                              \/ CompleteTimerInput(k)
                              \/ \E tick \in Ticks : Tick(k, tick)
           \/ EndDrain \/ ReplayRow \/ DeliverEvaluations \/ Restart \/ UNCHANGED vars
  <2>1. /\ UNCHANGED <<outbox, accepted>> /\ (saved' = saved \/ saved' = <<>>)
        /\ stage' # "acknowledge" \/ (stage' = stage /\ input' = input)
    BY <1>4 DEF Collect, CompleteRow, TickAgain, ReplayTimer, CompleteTimer,
       CompleteTimerInput, Tick, EndDrain, ReplayRow, DeliverEvaluations, Restart, vars,
       database, process, Outside
  <2>2. Ordered(outbox, accepted)'
    BY <2>1 DEF OInv, Ordered
  <2>3. saved' # <<>> => Ordered(saved[6], saved[8])'
    BY <2>1 DEF OInv, Ordered
  <2>4. stage' = "acknowledge" => NextItem' = RunnerCursor'
    BY <2>1 DEF OInv, NextItem, Undelivered, RunnerCursor
  <2> QED BY <2>2, <2>3, <2>4 DEF OInv
<1> QED BY <1>1, <1>2, <1>3, <1>4 DEF Next, Handler

LEMMA RaisesNowhere == FInv /\ LInv /\ HInv /\ OInv => NeverRaises
<1> SUFFICES ASSUME FInv, LInv, HInv, OInv PROVE NeverRaises
  OBVIOUS
<1>1. \A k \in Incomplete : cursor <= timers[k].watermark
  BY DEF FInv, Fenced
<1>2. ASSUME NEW i \in Inputs, NEW s \in Undelivered(i) PROVE s >= RunnerCursor
  <2>1. s \in DOMAIN outbox /\ ~outbox[s].delivered /\ s \in Nat
    BY DEF Undelivered, LInv, Agreed, IsOutbox
  <2>2. ~(s < RunnerAt(accepted))
    BY <2>1 DEF OInv, Ordered
  <2> QED BY <2>1, <2>2, RunnerAtNat
<1>3. ASSUME NEW i \in Inputs, inputs[i] = "COMPLETE"
      PROVE  Undelivered(i) = {} /\ unaudited[i] = {}
  <2>1. \A s \in DOMAIN outbox : ~outbox[s].delivered => inputs[outbox[s].input] = "PLANNED"
    BY DEF LInv, Agreed
  <2>2. Undelivered(i) = {}
    BY <1>3, <2>1 DEF Undelivered
  <2> QED BY <1>3, <2>2 DEF LInv, Agreed
<1>4. ASSUME stage = "row" PROVE inputs[input] # "COMPLETE"
  <2>1. InBatch
    BY <1>4 DEF FInv, OffBatch
  <2>2. input = P1(cursor + 1) /\ cursor + 1 \in Rows
    BY <2>1, IncompleteKeys, BoundAssumption DEF InBatch, LInv, Rows
  <2>3. ~(cursor + 1 <= cursor)
    BY IncompleteKeys
  <2> QED BY <2>2, <2>3 DEF HInv, InHand
<1> QED BY <1>1, <1>2, <1>3, <1>4 DEF NeverRaises

(* No fail-closed check of v0.4 or v0.5 ever raises, however rows, timers, *)
(* crashes and rollbacks interleave: no timer falls behind the durable     *)
(* cursor, no item below the runner's cursor is still to be delivered, and *)
(* nothing of a completed input is left (the active drain of timers).      *)
THEOREM BindingNeverRaises ==
    ASSUME Driver = "DRAIN"
    PROVE  Spec => []NeverRaises
<1>1. Init => FInv /\ LInv /\ HInv /\ OInv
  BY InitFInv, InitLInv, InitHInv, InitOInv
<1>2. FInv /\ LInv /\ HInv /\ OInv /\ [Next]_vars => FInv' /\ LInv' /\ HInv' /\ OInv'
  BY StepFInv, StepLInv, StepHInv, StepOInv
<1>3. FInv /\ LInv /\ HInv /\ OInv => NeverRaises
  BY RaisesNowhere
<1> QED BY <1>1, <1>2, <1>3, PTL DEF Spec
-----------------------------------------------------------------------------
(***************************************************************************)
(* One winner.  What a plan says of its row, event by event; and then the  *)
(* tables: a winner stays one, and whatever is posted after it is not a    *)
(* strategy event.  The types of the tables are kept along.                *)
(***************************************************************************)
AtMostOne(w) == w = {} \/ \E r : w = {r}

Rank(S, r) == Cardinality({q \in S : q < r})

(* The i-th event of an order is the event of the role with i - 1 before.  *)
LEMMA InOrderAt ==
    ASSUME NEW Chosen, Chosen \subseteq Roles, NEW kind, NEW i \in 1 .. Cardinality(Chosen)
    PROVE  \E r \in Chosen : /\ Rank(Chosen, r) = i - 1
                             /\ InOrderOf(Chosen, kind)[i] = Event(kind[r], r)
<1>1. Chosen \subseteq Nat /\ IsFiniteSet(Chosen)
  <2>1. IsFiniteSet(Roles) /\ Roles \subseteq Nat
    BY FS_Interval, RolesAssumption DEF Roles
  <2> QED BY <2>1, FS_Subset
<1>2. Cardinality(Chosen) \in Nat /\ i - 1 \in Nat /\ i - 1 < Cardinality(Chosen)
  BY <1>1, FS_CardinalityType
<1>3. \E r \in Chosen : Cardinality({q \in Chosen : q < r}) = i - 1
  BY <1>1, <1>2, RankExists
<1> DEFINE r == CHOOSE r \in Chosen : Cardinality({q \in Chosen : q < r}) = i - 1
<1>4. r \in Chosen /\ Cardinality({q \in Chosen : q < r}) = i - 1
  BY <1>3
<1>5. InOrderOf(Chosen, kind)[i] = Event(kind[r], r)
  BY DEF InOrderOf
<1>6. Rank(Chosen, r) = i - 1
  BY <1>4 DEF Rank
<1> HIDE DEF r
<1> QED BY <1>4, <1>5, <1>6

(* A later place in the order is a greater role.                           *)
LEMMA LaterIsGreater ==
    ASSUME NEW S, S \subseteq Roles, NEW q \in S, NEW r \in S,
           Rank(S, q) < Rank(S, r)
    PROVE  q < r
<1>1. S \subseteq Nat /\ IsFiniteSet(S)
  <2>1. IsFiniteSet(Roles) /\ Roles \subseteq Nat
    BY FS_Interval, RolesAssumption DEF Roles
  <2> QED BY <2>1, FS_Subset
<1> SUFFICES ASSUME ~(q < r) PROVE FALSE
  OBVIOUS
<1> DEFINE A == {x \in S : x < q}
           B == {x \in S : x < r}
<1>2. B \subseteq A /\ IsFiniteSet(A)
  <2>1. \A x \in S : x < r => x < q
    BY <1>1
  <2>2. B \subseteq A /\ A \subseteq S
    BY <2>1
  <2> HIDE DEF A, B
  <2> QED BY <1>1, <2>2, FS_Subset
<1>3. Cardinality(B) <= Cardinality(A) /\ Cardinality(A) \in Nat /\ Cardinality(B) \in Nat
  BY <1>2, FS_Subset, FS_CardinalityType
<1>4. Rank(S, q) = Cardinality(A) /\ Rank(S, r) = Cardinality(B)
  BY DEF Rank
<1> QED BY <1>3, <1>4

LEMMA InOrderTyped ==
    ASSUME NEW T, T \subseteq Roles, NEW kind \in [Roles -> {"CANDIDATE", "TERMINAL"}]
    PROVE  /\ InOrderOf(T, kind) \in Seq(Events)
           /\ Len(InOrderOf(T, kind)) = Cardinality(T) /\ Cardinality(T) \in Nat
<1>1. Cardinality(T) \in Nat
  <2>1. IsFiniteSet(Roles)
    BY FS_Interval, RolesAssumption DEF Roles
  <2> QED BY <2>1, FS_Subset, FS_CardinalityType
<1>2. \A i \in 1 .. Cardinality(T) : InOrderOf(T, kind)[i] \in Events
  <2>1. ASSUME NEW i \in 1 .. Cardinality(T) PROVE InOrderOf(T, kind)[i] \in Events
    <3>1. \E r \in T : /\ Rank(T, r) = i - 1
                       /\ InOrderOf(T, kind)[i] = Event(kind[r], r)
      BY <2>1, InOrderAt
    <3>2. PICK r \in T : InOrderOf(T, kind)[i] = Event(kind[r], r)
      BY <3>1
    <3>3. kind[r] \in {"CANDIDATE", "TERMINAL"} /\ r \in Roles
      OBVIOUS
    <3> QED BY <3>2, <3>3 DEF Event, Events
  <2> QED BY <2>1
<1>3. InOrderOf(T, kind) = [i \in 1 .. Cardinality(T) |-> InOrderOf(T, kind)[i]]
  BY DEF InOrderOf
<1> DEFINE f == InOrderOf(T, kind)
           n == Cardinality(T)
<1>4. f = [i \in 1 .. n |-> f[i]] /\ n \in Nat /\ \A i \in 1 .. n : f[i] \in Events
  BY <1>1, <1>2, <1>3
<1> HIDE DEF f, n
<1>5. f \in [1 .. n -> Events]
  BY <1>4
<1>6. f \in Seq(Events) /\ Len(f) = n
  BY <1>4, <1>5
<1> QED BY <1>4, <1>6 DEF f, n
-----------------------------------------------------------------------------
RowType == [kind : {"MARKET", "SKIP"}, sol : BOOLEAN, says : [Roles -> Outcomes]]

(* At most one role of a row wins: a winner ends the loop over the roles.  *)
LEMMA WinnerIsLast ==
    ASSUME NEW row, NEW what, NEW q \in Judged(row, what), NEW r \in Judged(row, what),
           Wins(row, what, q)
    PROVE  ~(q < r)
<1>1. q \in Roles /\ r \in Roles /\ \A x \in 1 .. r - 1 : ~Wins(row, what, x)
  BY DEF Judged
<1>2. q \in Nat /\ r \in Nat /\ q >= 1
  BY <1>1, RolesAssumption DEF Roles
<1> QED BY <1>1, <1>2

LEMMA AfterRowTyped ==
    ASSUME NEW row \in RowType, NEW what, what.runs \in [Roles -> Runs],
           what.won \in SUBSET Roles, AtMostOne(what.won)
    PROVE  /\ AfterRow(row, what).runs \in [Roles -> Runs]
           /\ AfterRow(row, what).won \in SUBSET Roles
           /\ AtMostOne(AfterRow(row, what).won)
           /\ what.won \subseteq AfterRow(row, what).won
<1> DEFINE new == {r \in Judged(row, what) : Wins(row, what, r)}
           f == [r \in Roles |->
                 IF r \notin Evaluated(row, what) THEN what.runs[r]
                 ELSE CASE row.says[r] = "WAIT"   -> "OPEN"
                        [] row.says[r] = "SIGNAL" -> "SIGNALED"
                        [] row.says[r] = "FINISH" -> "FINISHED"]
<1>1. AfterRow(row, what).won = what.won \cup new /\ AfterRow(row, what).runs = f
  BY DEF AfterRow
<1>2. Judged(row, what) \subseteq Roles /\ (what.won # {} => Judged(row, what) = {})
  BY DEF Judged
<1>3. AtMostOne(what.won \cup new)
  <2>1. CASE what.won # {}
    BY <1>2, <2>1 DEF AtMostOne
  <2>2. CASE what.won = {}
    <3>1. ASSUME NEW q \in new, NEW r \in new PROVE q = r
      <4>1. ~(q < r) /\ ~(r < q)
        BY WinnerIsLast
      <4>2. q \in Nat /\ r \in Nat
        BY <1>2, RolesAssumption DEF Roles
      <4> QED BY <4>1, <4>2
    <3> HIDE DEF new
    <3> QED BY <2>2, <3>1 DEF AtMostOne
  <2> QED BY <2>1, <2>2
<1>4. f \in [Roles -> Runs]
  <2> SUFFICES ASSUME NEW r \in Roles PROVE f[r] \in Runs
    OBVIOUS
  <2>1. row.says[r] \in {"WAIT", "SIGNAL", "FINISH"} /\ what.runs[r] \in Runs
    BY DEF RowType, Outcomes
  <2> QED BY <2>1 DEF Runs
<1> QED BY <1>1, <1>2, <1>3, <1>4

(* The events of a row: none of the strategy once there is a winner, and   *)
(* nothing but the price after a candidate that wins.                      *)
LEMMA RowEventsSay ==
    ASSUME NEW row \in RowType, NEW what,
           what.won \in SUBSET Roles
    PROVE  /\ RowEvents(row, what) \in Seq(Events)
           /\ what.won # {} => \A j \in DOMAIN RowEvents(row, what) :
                                  RowEvents(row, what)[j].kind = "MARKET"
           /\ \A j \in DOMAIN RowEvents(row, what) :
                 RowEvents(row, what)[j].kind = "CANDIDATE" /\ row.sol =>
                   /\ AfterRow(row, what).won # {}
                   /\ \A l \in DOMAIN RowEvents(row, what) :
                         j < l => RowEvents(row, what)[l].kind = "MARKET"
<1> DEFINE T == {r \in Evaluated(row, what) : row.says[r] # "WAIT"}
           kind == [r \in Roles |-> IF row.says[r] = "SIGNAL" THEN "CANDIDATE" ELSE "TERMINAL"]
           first == InOrderOf(T, kind)
           n == Cardinality(T)
           es == RowEvents(row, what)
<1>1. T \subseteq Roles /\ T \subseteq Evaluated(row, what)
  BY EvaluatedRoles
<1>2. kind \in [Roles -> {"CANDIDATE", "TERMINAL"}]
  OBVIOUS
<1>3. first \in Seq(Events) /\ Len(first) = n /\ n \in Nat
  <2> HIDE DEF T, kind
  <2> QED BY <1>1, <1>2, InOrderTyped
<1>4. Event("MARKET", 0) \in Events /\ Event("MARKET", 0).kind = "MARKET"
  BY DEF Event, Events
<1>5. CASE row.kind = "SKIP"
  <2>1. es = <<>>
    BY <1>5 DEF RowEvents
  <2> HIDE DEF es
  <2>2. es \in Seq(Events) /\ DOMAIN es = {}
    BY <2>1
  <2> QED BY <2>2 DEF es
<1>6. CASE row.kind # "SKIP"
  <2>1. es = Append(first, Event("MARKET", 0))
    BY <1>6 DEF RowEvents
  <2>2. /\ es \in Seq(Events) /\ DOMAIN es = 1 .. n + 1
        /\ es[n + 1].kind = "MARKET"
        /\ \A j \in 1 .. n : es[j] = first[j]
    <3> HIDE DEF first, es, n
    <3> QED BY <1>3, <1>4, <2>1
  <2>3. ASSUME NEW j \in 1 .. n
        PROVE  \E r \in T : /\ Rank(T, r) = j - 1
                            /\ first[j] = Event(kind[r], r)
    <3> HIDE DEF T, kind
    <3> QED BY <1>1, <2>3, InOrderAt DEF n, first
  <2>4. ASSUME what.won # {} PROVE \A j \in DOMAIN es : es[j].kind = "MARKET"
    <3>1. T = {}
      BY <2>4 DEF Evaluated, Judged
    <3>2. n = 0
      BY <3>1, FS_EmptySet
    <3> HIDE DEF es, n
    <3> QED BY <2>2, <3>2
  <2>5. ASSUME NEW j \in DOMAIN es, es[j].kind = "CANDIDATE", row.sol
        PROVE  /\ AfterRow(row, what).won # {}
               /\ \A l \in DOMAIN es : j < l => es[l].kind = "MARKET"
    <3>1. j \in 1 .. n
      <4> HIDE DEF es, n
      <4> QED BY <1>3, <2>2, <2>5
    <3>2. PICK r \in T : /\ Rank(T, r) = j - 1
                         /\ first[j] = Event(kind[r], r)
      BY <2>3, <3>1
    <3>3. es[j] = Event(kind[r], r)
      BY <2>2, <3>1, <3>2
    <3>4. kind[r] = "CANDIDATE"
      BY <2>5, <3>3 DEF Event
    <3>5. row.says[r] = "SIGNAL"
      BY <1>1, <3>4
    <3>6. r \in Judged(row, what) /\ Wins(row, what, r)
      BY <2>5, <3>5 DEF Evaluated, Wins
    <3>7. r \in AfterRow(row, what).won
      BY <3>6 DEF AfterRow
    <3>8. ASSUME NEW l \in DOMAIN es, j < l PROVE es[l].kind = "MARKET"
      <4>1. l = n + 1 \/ l \in 1 .. n
        <5> HIDE DEF es, n
        <5> QED BY <1>3, <2>2
      <4>2. ASSUME l \in 1 .. n PROVE FALSE
        <5>1. PICK x \in T : Rank(T, x) = l - 1
          BY <2>3, <4>2
        <5>2. j - 1 < l - 1
          BY <3>1, <3>8, <4>2
        <5>3. r < x
          <6> HIDE DEF T
          <6> QED BY <1>1, <3>2, <5>1, <5>2, LaterIsGreater
        <5>4. x \in Judged(row, what)
          BY <5>1 DEF Evaluated
        <5> QED BY <3>6, <5>3, <5>4, WinnerIsLast
      <4> QED BY <2>2, <4>1, <4>2
    <3> QED BY <3>7, <3>8
  <2> QED BY <2>2, <2>4, <2>5
<1> QED BY <1>5, <1>6

LEMMA Joined ==
    ASSUME NEW E, NEW a \in Seq(E), NEW b \in Seq(E)
    PROVE  /\ a \o b \in Seq(E) /\ Len(a \o b) = Len(a) + Len(b)
           /\ DOMAIN (a \o b) = 1 .. Len(a \o b)
OBVIOUS

(* The events of a timer hold no candidate, and only the clock once there  *)
(* is a winner.                                                            *)
LEMMA TickEventsSay ==
    ASSUME NEW tick \in Ticking, NEW what
    PROVE  /\ TickEvents(tick, what) \in Seq(Events)
           /\ \A j \in DOMAIN TickEvents(tick, what) :
                 /\ TickEvents(tick, what)[j].kind # "CANDIDATE"
                 /\ what.won # {} => TickEvents(tick, what)[j].kind = "CLOCK"
<1> DEFINE T == Expired(tick, what)
           kind == [r \in Roles |-> "TERMINAL"]
           first == InOrderOf(T, kind)
           then == IF tick.exit THEN <<Event("CLOCK", 0)>> ELSE <<>>
           n == Cardinality(T)
           es == TickEvents(tick, what)
<1>1. T \subseteq Roles /\ (what.won # {} => T = {})
  BY DEF Expired
<1>2. kind \in [Roles -> {"CANDIDATE", "TERMINAL"}]
  OBVIOUS
<1>3. first \in Seq(Events) /\ Len(first) = n /\ n \in Nat
  <2> HIDE DEF T, kind
  <2> QED BY <1>1, <1>2, InOrderTyped
<1>4. then \in Seq(Events) /\ \A j \in DOMAIN then : then[j].kind = "CLOCK"
  <2>1. Event("CLOCK", 0) \in Events /\ Event("CLOCK", 0).kind = "CLOCK"
    BY DEF Event, Events
  <2>2. CASE tick.exit
    <3>1. then = <<Event("CLOCK", 0)>>
      BY <2>2
    <3> HIDE DEF then
    <3> QED BY <2>1, <3>1
  <2>3. CASE ~tick.exit
    <3>1. then = <<>>
      BY <2>3
    <3> HIDE DEF then
    <3> QED BY <3>1
  <2> QED BY <2>2, <2>3
<1>5. \A j \in 1 .. n : first[j].kind = "TERMINAL"
  <2>1. ASSUME NEW j \in 1 .. n
        PROVE  \E r \in T : /\ Rank(T, r) = j - 1
                            /\ first[j] = Event(kind[r], r)
    <3> HIDE DEF T, kind
    <3> QED BY <1>1, <2>1, InOrderAt DEF n, first
  <2>2. ASSUME NEW j \in 1 .. n PROVE first[j].kind = "TERMINAL"
    <3>1. PICK r \in T : first[j] = Event(kind[r], r)
      BY <2>1, <2>2
    <3> QED BY <1>1, <3>1 DEF Event
  <2> QED BY <2>2
<1>6. what.won # {} => n = 0
  BY <1>1, FS_EmptySet
<1>7. es = first \o then
  BY DEF TickEvents
<1>8. /\ es \in Seq(Events) /\ DOMAIN es = 1 .. n + Len(then)
      /\ \A j \in 1 .. n : es[j] = first[j]
      /\ \A j \in n + 1 .. n + Len(then) : j - n \in DOMAIN then /\ es[j] = then[j - n]
  <2> HIDE DEF es, first, then, n
  <2>1. Len(then) \in Nat /\ DOMAIN then = 1 .. Len(then)
    BY <1>4
  <2>2. \A j \in n + 1 .. n + Len(then) : j - n \in 1 .. Len(then)
    BY <1>3, <2>1
  <2> DEFINE E == Events
  <2> HIDE DEF E
  <2>3. first \in Seq(E) /\ then \in Seq(E) /\ Len(first) = n /\ es = first \o then
    BY <1>3, <1>4, <1>7 DEF E
  <2>4. es \in Seq(E) /\ Len(es) = n + Len(then) /\ DOMAIN es = 1 .. Len(es)
    BY <2>3, Joined
  <2>7. \A j \in 1 .. n : es[j] = first[j]
    BY <1>3, <2>1, <2>3
  <2>8. \A j \in n + 1 .. n + Len(then) : es[j] = then[j - n]
    BY <1>3, <2>1, <2>3

  <2> QED BY <2>1, <2>2, <2>4, <2>7, <2>8 DEF E
<1>9. ASSUME NEW j \in DOMAIN es
      PROVE  es[j].kind \in {"TERMINAL", "CLOCK"} /\ (what.won # {} => es[j].kind = "CLOCK")
  <2> HIDE DEF es, first, then, n
  <2>1. Len(then) \in Nat
    BY <1>4
  <2>2. j \in 1 .. n \/ j \in n + 1 .. n + Len(then)
    BY <1>3, <1>8, <2>1
  <2>3. CASE j \in 1 .. n
    <3>1. n # 0
      BY <2>3
    <3> QED BY <1>5, <1>6, <1>8, <2>3, <3>1
  <2>4. CASE j \in n + 1 .. n + Len(then)
    BY <1>4, <1>8, <2>4
  <2> QED BY <2>2, <2>3, <2>4
<1> QED BY <1>8, <1>9
-----------------------------------------------------------------------------
(* A winning candidate of the outbox: it is one of a row of the source, it *)
(* has locked the mint, and no event of the strategy comes after it.       *)
Closing == {"MARKET", "CLOCK"}

Locked(src, w, o) ==
    \A s \in DOMAIN o : o[s].event.kind = "CANDIDATE" =>
      /\ \E r \in 1 .. Len(src) : o[s].input = P1(r)
      /\ src[o[s].input[2]].sol =>
           w # {} /\ \A u \in DOMAIN o : s < u => o[u].event.kind \in Closing

(* The tables of the strategy and of the outbox, as parameters again.      *)
Kept(src, run, w, o, acc) ==
    /\ run \in [Roles -> Runs]
    /\ w \in SUBSET Roles /\ AtMostOne(w)
    /\ o \in Seq(Entries(Events))
    /\ acc \in Seq(DOMAIN o)
    /\ Locked(src, w, o)

WInv ==
    /\ Kept(source, runs, won, outbox, accepted)
    /\ saved # <<>> => Kept(source, saved[3], saved[4], saved[6], saved[8])
    /\ \A k \in Keys : timers[k].watermark <= Latest
    /\ request \in Keys \cup {0}
    /\ crashes \in 0 .. MaxCrashes

LEMMA FeedRows ==
    ASSUME NEW row \in Feed PROVE row \in RowType
BY FeedAssumption DEF RowType

(* A row more changes nothing of the rows there are.                       *)
LEMMA KeptMore ==
    ASSUME NEW src \in Seq(Feed), NEW row \in Feed, NEW run, NEW w, NEW o, NEW acc,
           Kept(src, run, w, o, acc)
    PROVE  Kept(Append(src, row), run, w, o, acc)
<1> DEFINE more == Append(src, row)
<1>1. /\ Len(src) \in Nat /\ Len(more) = Len(src) + 1
      /\ \A r \in 1 .. Len(src) : more[r] = src[r] /\ r \in 1 .. Len(more)
  OBVIOUS
<1> HIDE DEF more
<1>2. ASSUME NEW s \in DOMAIN o, o[s].event.kind = "CANDIDATE"
      PROVE  /\ \E r \in 1 .. Len(more) : o[s].input = P1(r)
             /\ more[o[s].input[2]].sol =>
                  w # {} /\ \A u \in DOMAIN o : s < u => o[u].event.kind \in Closing
  <2>1. /\ \E r \in 1 .. Len(src) : o[s].input = P1(r)
        /\ src[o[s].input[2]].sol =>
             w # {} /\ \A u \in DOMAIN o : s < u => o[u].event.kind \in Closing
    BY <1>2 DEF Kept, Locked
  <2>2. PICK r \in 1 .. Len(src) : o[s].input = P1(r)
    BY <2>1
  <2>3. o[s].input[2] = r
    BY <2>2 DEF P1
  <2> QED BY <1>1, <2>1, <2>2, <2>3
<1>3. Locked(more, w, o)
  BY <1>2 DEF Locked
<1> QED BY <1>3 DEF Kept, more

(* What _persist_input_and_events appends, event by event.                 *)
LEMMA PostTyped ==
    ASSUME NEW i \in Inputs, NEW events \in Seq(Events), outbox \in Seq(Entries(Events))
    PROVE  /\ Post(i, events) \in Seq(Entries(Events))
           /\ Len(outbox) \in Nat /\ Len(events) \in Nat
           /\ DOMAIN outbox = 1 .. Len(outbox) /\ DOMAIN events = 1 .. Len(events)
           /\ DOMAIN Post(i, events) = 1 .. Len(outbox) + Len(events)
           /\ \A s \in 1 .. Len(outbox) : Post(i, events)[s] = outbox[s]
           /\ \A s \in Len(outbox) + 1 .. Len(outbox) + Len(events) :
                /\ s - Len(outbox) \in DOMAIN events
                /\ Post(i, events)[s] = [input |-> i, event |-> events[s - Len(outbox)],
                                         delivered |-> FALSE]
<1> DEFINE K == Entries(Events)
           new == [j \in 1 .. Len(events) |->
                     [input |-> i, event |-> events[j], delivered |-> FALSE]]
<1>1. Len(events) \in Nat /\ DOMAIN events = 1 .. Len(events)
      /\ \A j \in 1 .. Len(events) : events[j] \in Events
  OBVIOUS
<1>2. \A j \in 1 .. Len(events) : new[j] \in K
  BY <1>1 DEF Entries
<1>3. \A j \in 1 .. Len(events) :
        new[j] = [input |-> i, event |-> events[j], delivered |-> FALSE]
  OBVIOUS
<1>4. Post(i, events) = outbox \o new
  BY DEF Post
<1>5. new \in Seq(K) /\ Len(new) = Len(events)
  <2>1. new \in [1 .. Len(events) -> K]
    BY <1>2
  <2> HIDE DEF K, new
  <2> QED BY <1>1, <2>1
<1> HIDE DEF K, new
<1>6. outbox \in Seq(K) /\ Len(outbox) \in Nat /\ DOMAIN outbox = 1 .. Len(outbox)
  BY DEF K
<1>7. /\ outbox \o new \in Seq(K) /\ Len(outbox \o new) = Len(outbox) + Len(new)
      /\ DOMAIN (outbox \o new) = 1 .. Len(outbox \o new)
  BY <1>5, <1>6, Joined
<1>8. \A s \in 1 .. Len(outbox) : (outbox \o new)[s] = outbox[s]
  BY <1>5, <1>6
<1>9. ASSUME NEW s \in Len(outbox) + 1 .. Len(outbox) + Len(events)
      PROVE  /\ s - Len(outbox) \in 1 .. Len(events)
             /\ (outbox \o new)[s] = new[s - Len(outbox)]
  BY <1>1, <1>5, <1>6
<1> QED BY <1>1, <1>3, <1>4, <1>5, <1>6, <1>7, <1>8, <1>9 DEF K

(* A plan keeps the tables: after a winner it holds no strategy event, and *)
(* a winning candidate of its own is its last strategy event.              *)
LEMMA PostKept ==
    ASSUME Kept(source, runs, won, outbox, accepted),
           NEW i \in Inputs, NEW events \in Seq(Events), NEW run, NEW w,
           run \in [Roles -> Runs], w \in SUBSET Roles, AtMostOne(w), won \subseteq w,
           won # {} => \A j \in DOMAIN events : events[j].kind \in Closing,
           \A j \in DOMAIN events : events[j].kind = "CANDIDATE" =>
             /\ \E r \in 1 .. Len(source) : i = P1(r)
             /\ source[i[2]].sol =>
                  w # {} /\ \A l \in DOMAIN events : j < l => events[l].kind \in Closing
    PROVE  Kept(source, run, w, Post(i, events), accepted)
<1> DEFINE o == Post(i, events)
           n == Len(outbox)
           m == Len(events)
<1>1. outbox \in Seq(Entries(Events)) /\ accepted \in Seq(DOMAIN outbox)
      /\ Locked(source, won, outbox)
  BY DEF Kept
<1>2. /\ o \in Seq(Entries(Events)) /\ n \in Nat /\ m \in Nat
      /\ DOMAIN outbox = 1 .. n /\ DOMAIN events = 1 .. m /\ DOMAIN o = 1 .. n + m
      /\ \A s \in 1 .. n : o[s] = outbox[s]
      /\ \A s \in n + 1 .. n + m :
           /\ s - n \in DOMAIN events
           /\ o[s] = [input |-> i, event |-> events[s - n], delivered |-> FALSE]
  BY <1>1, PostTyped
<1> HIDE DEF o, n, m
<1>3. ASSUME NEW s \in n + 1 .. n + m PROVE o[s].input = i /\ o[s].event = events[s - n]
  <2>1. o[s] = [input |-> i, event |-> events[s - n], delivered |-> FALSE]
    BY <1>2
  <2> QED BY <2>1
<1>4. accepted \in Seq(DOMAIN o)
  <2> DEFINE A == DOMAIN outbox
             B == DOMAIN o
  <2>1. A \subseteq B
    BY <1>2
  <2>2. accepted \in Seq(A)
    BY <1>1
  <2> HIDE DEF A, B
  <2>3. accepted \in Seq(B)
    BY <2>1, <2>2
  <2> QED BY <2>3 DEF B
<1>5. ASSUME NEW s \in DOMAIN o, o[s].event.kind = "CANDIDATE"
      PROVE  /\ \E r \in 1 .. Len(source) : o[s].input = P1(r)
             /\ source[o[s].input[2]].sol =>
                  w # {} /\ \A u \in DOMAIN o : s < u => o[u].event.kind \in Closing
  <2>1. CASE s \in 1 .. n
    <3>1. s \in DOMAIN outbox /\ o[s] = outbox[s]
      BY <1>2, <2>1
    <3>2. /\ \E r \in 1 .. Len(source) : outbox[s].input = P1(r)
          /\ source[outbox[s].input[2]].sol =>
               won # {} /\ \A u \in DOMAIN outbox : s < u => outbox[u].event.kind \in Closing
      BY <1>1, <1>5, <3>1 DEF Locked
    <3>3. ASSUME source[outbox[s].input[2]].sol, NEW u \in DOMAIN o, s < u
          PROVE  o[u].event.kind \in Closing
      <4>1. CASE u \in 1 .. n
        BY <1>2, <3>2, <3>3, <4>1
      <4>2. CASE u \notin 1 .. n
        <5>1. u \in n + 1 .. n + m
          BY <1>2, <4>2
        <5>2. o[u].event = events[u - n] /\ u - n \in DOMAIN events
          BY <1>2, <1>3, <5>1
        <5> QED BY <3>2, <3>3, <5>2
      <4> QED BY <4>1, <4>2
    <3> QED BY <3>1, <3>2, <3>3
  <2>2. CASE s \notin 1 .. n
    <3>1. s \in n + 1 .. n + m /\ s - n \in DOMAIN events
      BY <1>2, <2>2
    <3>2. o[s].input = i /\ events[s - n].kind = "CANDIDATE"
      BY <1>3, <1>5, <3>1
    <3>3. /\ \E r \in 1 .. Len(source) : i = P1(r)
          /\ source[i[2]].sol =>
               w # {} /\ \A l \in DOMAIN events : s - n < l => events[l].kind \in Closing
      BY <3>1, <3>2
    <3>4. ASSUME source[i[2]].sol, NEW u \in DOMAIN o, s < u
          PROVE  o[u].event.kind \in Closing
      <4>1. u \in n + 1 .. n + m /\ s - n < u - n
        BY <1>2, <3>1, <3>4
      <4>2. o[u].event = events[u - n] /\ u - n \in DOMAIN events
        BY <1>2, <1>3, <4>1
      <4> QED BY <3>3, <3>4, <4>1, <4>2
    <3> QED BY <3>2, <3>3, <3>4
  <2> QED BY <2>1, <2>2
<1>6. Locked(source, w, o)
  BY <1>5 DEF Locked
<1> QED BY <1>2, <1>4, <1>6 DEF Kept, o

LEMMA StrategyIs ==
    Strategy.runs = runs /\ Strategy.won = won
BY DEF Strategy

LEMMA PlanRowKept ==
    ASSUME FInv, LInv, WInv, NEW r \in Rows, PlanRow(r)
    PROVE  Kept(source', runs', won', outbox', accepted')
<1> DEFINE row == source[r]
           es == RowEvents(row, Strategy)
           after == AfterRow(row, Strategy)
<1>1. /\ stage = "row" /\ input = P1(r) /\ source' = source /\ accepted' = accepted
      /\ runs' = after.runs /\ won' = after.won /\ outbox' = Post(P1(r), es)
  BY DEF PlanRow, Outside
<1>2. limit # 0
  BY <1>1 DEF FInv, OffBatch, P1, NoInput, Timer
<1>3. InBatch /\ r = cursor + 1
  BY <1>1, <1>2 DEF FInv, InBatch, P1
<1>4. r \in 1 .. Len(source)
  BY <1>3, IncompleteKeys DEF InBatch, Latest
<1>5. row \in RowType
  <2>1. row \in Feed
    BY <1>4 DEF FInv, Typed
  <2> HIDE DEF row
  <2> QED BY <2>1, FeedRows
<1>6. /\ Strategy.runs = runs /\ Strategy.won = won
      /\ runs \in [Roles -> Runs] /\ won \in SUBSET Roles /\ AtMostOne(won)
  BY StrategyIs DEF WInv, Kept
<1>7. /\ after.runs \in [Roles -> Runs] /\ after.won \in SUBSET Roles
      /\ AtMostOne(after.won) /\ won \subseteq after.won
  <2> HIDE DEF row
  <2>1. /\ after.runs \in [Roles -> Runs] /\ after.won \in SUBSET Roles
        /\ AtMostOne(after.won) /\ Strategy.won \subseteq after.won
    BY <1>5, <1>6, AfterRowTyped
  <2> QED BY <1>6, <2>1
<1>8. /\ es \in Seq(Events)
      /\ won # {} => \A j \in DOMAIN es : es[j].kind = "MARKET"
      /\ \A j \in DOMAIN es : es[j].kind = "CANDIDATE" /\ row.sol =>
           /\ after.won # {}
           /\ \A l \in DOMAIN es : j < l => es[l].kind = "MARKET"
  <2> HIDE DEF row
  <2>1. /\ es \in Seq(Events)
        /\ Strategy.won # {} => \A j \in DOMAIN es : es[j].kind = "MARKET"
        /\ \A j \in DOMAIN es : es[j].kind = "CANDIDATE" /\ row.sol =>
             /\ after.won # {}
             /\ \A l \in DOMAIN es : j < l => es[l].kind = "MARKET"
    BY <1>5, <1>6, RowEventsSay
  <2> QED BY <1>6, <2>1
<1>9. P1(r) \in Inputs /\ P1(r)[2] = r
  BY Distinct DEF P1
<1>10. Kept(source, runs, won, outbox, accepted)
  BY DEF WInv
<1>11. /\ won # {} => \A j \in DOMAIN es : es[j].kind \in Closing
       /\ \A j \in DOMAIN es : es[j].kind = "CANDIDATE" =>
            /\ \E q \in 1 .. Len(source) : P1(r) = P1(q)
            /\ source[P1(r)[2]].sol =>
                 after.won # {} /\ \A l \in DOMAIN es : j < l => es[l].kind \in Closing
  <2>1. row.sol = source[P1(r)[2]].sol
    BY <1>9
  <2> HIDE DEF row, es, after
  <2> QED BY <1>4, <1>8, <2>1 DEF Closing
<1> HIDE DEF row, es, after
<1>12. Kept(source, after.runs, after.won, Post(P1(r), es), accepted)
  BY <1>7, <1>8, <1>9, <1>10, <1>11, PostKept
<1> QED BY <1>1, <1>12

LEMMA PlanTimerKept ==
    ASSUME FInv, LInv, WInv, NEW k \in Keys, PlanTimer(k)
    PROVE  Kept(source', runs', won', outbox', accepted')
<1> DEFINE tick == timers[k].tick
           es == TickEvents(tick, Strategy)
           after == AfterTick(tick, Strategy)
<1>1. /\ source' = source /\ accepted' = accepted /\ won' = won
      /\ runs' = after.runs /\ outbox' = Post(Timer(k), es)
  BY DEF PlanTimer, Outside
<1>2. tick \in Ticking
  BY DEF FInv, Typed
<1>3. /\ Strategy.runs = runs /\ Strategy.won = won
      /\ runs \in [Roles -> Runs] /\ won \in SUBSET Roles /\ AtMostOne(won)
  BY StrategyIs DEF WInv, Kept
<1>4. after.runs \in [Roles -> Runs]
  <2>1. after.runs = [r \in Roles |-> IF r \in Expired(tick, Strategy) THEN "FINISHED"
                                      ELSE runs[r]]
    BY <1>3 DEF AfterTick, Strategy
  <2>2. \A r \in Roles : runs[r] \in Runs /\ "FINISHED" \in Runs
    BY <1>3 DEF Runs
  <2> QED BY <2>1, <2>2
<1>5. /\ es \in Seq(Events)
      /\ \A j \in DOMAIN es : /\ es[j].kind # "CANDIDATE"
                              /\ Strategy.won # {} => es[j].kind = "CLOCK"
  <2> HIDE DEF tick
  <2> QED BY <1>2, TickEventsSay
<1>6. Timer(k) \in Inputs
  BY Distinct
<1>7. Kept(source, runs, won, outbox, accepted)
  BY DEF WInv
<1>8. won # {} => \A j \in DOMAIN es : es[j].kind \in Closing
  BY <1>3, <1>5 DEF Closing
<1> HIDE DEF tick, es, after
<1>9. Kept(source, after.runs, won, Post(Timer(k), es), accepted)
  BY <1>3, <1>4, <1>5, <1>6, <1>7, <1>8, PostKept
<1> QED BY <1>1, <1>9

(* An acknowledgement changes no event, a commit of the runner only adds   *)
(* an item of the outbox.                                                  *)
LEMMA AcceptKept ==
    ASSUME FInv, LInv, WInv, RunnerAccepts
    PROVE  Kept(source', runs', won', outbox', accepted')
<1>1. /\ UNCHANGED <<source, runs, won, outbox>> /\ Undelivered(input) # {}
      /\ accepted' = IF NextItem > RunnerCursor THEN Append(accepted, NextItem) ELSE accepted
  BY DEF RunnerAccepts, Outside
<1>2. Kept(source, runs, won, outbox, accepted)
  BY DEF WInv
<1>3. NextItem \in DOMAIN outbox
  BY <1>1, NextItemIs DEF LInv, Agreed
<1>4. accepted' \in Seq(DOMAIN outbox)
  <2> DEFINE D == DOMAIN outbox
             n == NextItem
  <2>1. accepted \in Seq(D) /\ n \in D
    BY <1>2, <1>3 DEF Kept
  <2>2. accepted' = accepted \/ accepted' = Append(accepted, n)
    BY <1>1
  <2> HIDE DEF D, n
  <2>3. accepted' \in Seq(D)
    BY <2>1, <2>2
  <2> QED BY <2>3 DEF D
<1> QED BY <1>1, <1>2, <1>4 DEF Kept

LEMMA MarkKept ==
    ASSUME FInv, LInv, WInv, MarkDelivered
    PROVE  Kept(source', runs', won', outbox', accepted')
<1>1. /\ UNCHANGED <<source, runs, won, accepted>> /\ stage = "acknowledge"
      /\ outbox' = [outbox EXCEPT ![NextItem].delivered = TRUE]
  BY DEF MarkDelivered, Outside
<1>2. outbox \in Seq(Entries(Events)) /\ accepted \in Seq(DOMAIN outbox)
      /\ runs \in [Roles -> Runs] /\ won \in SUBSET Roles /\ AtMostOne(won)
      /\ Locked(source, won, outbox)
  BY DEF WInv, Kept
<1> DEFINE n == NextItem
           K == Entries(Events)
           marked == [outbox[n] EXCEPT !.delivered = TRUE]
<1>3. n \in DOMAIN outbox
  BY <1>1, NextItemIs DEF LInv, Agreed, Acknowledged
<1>4. outbox[n] \in K
  BY <1>2, <1>3
<1>5. marked \in K /\ marked.input = outbox[n].input /\ marked.event = outbox[n].event
  BY <1>4 DEF Entries
<1>6. outbox' = [outbox EXCEPT ![n] = marked]
  BY <1>1
<1> HIDE DEF n, K, marked
<1>7. outbox \in Seq(K)
  BY <1>2 DEF K
<1>8. /\ outbox' \in Seq(K) /\ DOMAIN outbox' = DOMAIN outbox
      /\ \A s \in DOMAIN outbox : outbox'[s] = IF s = n THEN marked ELSE outbox[s]
  BY <1>3, <1>5, <1>6, <1>7
<1>9. \A s \in DOMAIN outbox : /\ outbox'[s].input = outbox[s].input
                               /\ outbox'[s].event = outbox[s].event
  BY <1>3, <1>5, <1>8
<1>10. Locked(source, won, outbox')
  BY <1>2, <1>8, <1>9 DEF Locked
<1> QED BY <1>1, <1>2, <1>8, <1>10 DEF Kept, K

LEMMA StepKept ==
    ASSUME FInv, LInv, WInv, [Next]_vars
    PROVE  /\ Kept(source', runs', won', outbox', accepted')
           /\ saved' # <<>> => Kept(source', saved'[3], saved'[4], saved'[6], saved'[8])
<1>1. /\ Kept(source, runs, won, outbox, accepted)
      /\ saved # <<>> => Kept(source, saved[3], saved[4], saved[6], saved[8])
  BY DEF WInv
<1>2. ASSUME NEW row \in Feed, Collect(row)
      PROVE  /\ Kept(source', runs', won', outbox', accepted')
             /\ saved' # <<>> => Kept(source', saved'[3], saved'[4], saved'[6], saved'[8])
  <2>1. /\ UNCHANGED <<runs, won, outbox, accepted, saved>>
        /\ source' = Append(source, row) /\ source \in Seq(Feed)
    BY <1>2 DEF Collect, database, FInv, Typed
  <2>2. Kept(Append(source, row), runs, won, outbox, accepted)
    BY <1>1, <2>1, KeptMore
  <2>3. saved # <<>> => Kept(Append(source, row), saved[3], saved[4], saved[6], saved[8])
    BY <1>1, <2>1, KeptMore
  <2> QED BY <2>1, <2>2, <2>3
<1>3. CASE Poll \/ DrainBatch
  <2>1. /\ UNCHANGED <<source, runs, won, outbox, accepted>>
        /\ \/ saved' = saved
           \/ /\ saved'[3] = runs /\ saved'[4] = won /\ saved'[6] = outbox
              /\ saved'[8] = accepted
    BY <1>3 DEF Poll, DrainBatch, StartBatch, database, Outside
  <2> QED BY <1>1, <2>1
<1>4. ASSUME NEW r \in Rows, PlanRow(r)
      PROVE  /\ Kept(source', runs', won', outbox', accepted')
             /\ saved' # <<>> => Kept(source', saved'[3], saved'[4], saved'[6], saved'[8])
  <2>1. source' = source /\ saved' = saved
    BY <1>4 DEF PlanRow, Outside
  <2> QED BY <1>1, <1>4, <2>1, PlanRowKept
<1>5. ASSUME NEW k \in Keys, PlanTimer(k)
      PROVE  /\ Kept(source', runs', won', outbox', accepted')
             /\ saved' # <<>> => Kept(source', saved'[3], saved'[4], saved'[6], saved'[8])
  <2>1. source' = source /\ saved' = saved
    BY <1>5 DEF PlanTimer, Outside
  <2> QED BY <1>1, <1>5, <2>1, PlanTimerKept
<1>6. CASE RunnerAccepts \/ MarkDelivered
  <2>1. source' = source /\ saved' = saved
    BY <1>6 DEF RunnerAccepts, MarkDelivered, Outside
  <2> QED BY <1>1, <1>6, <2>1, AcceptKept, MarkKept
<1>7. CASE Crash
  <2>1. source' = source /\ saved' = <<>>
    BY <1>7 DEF Crash
  <2>2. CASE saved # <<>>
    <3>1. runs' = saved[3] /\ won' = saved[4] /\ outbox' = saved[6] /\ accepted' = saved[8]
      BY <1>7, <2>2 DEF Crash, RollBack
    <3> QED BY <1>1, <2>1, <2>2, <3>1
  <2>3. CASE saved = <<>>
    <3>1. UNCHANGED <<runs, won, outbox, accepted>>
      BY <1>7, <2>3 DEF Crash, database
    <3> QED BY <1>1, <2>1, <3>1
  <2> QED BY <2>2, <2>3
<1>8. CASE \/ \E r \in Rows : CompleteRow(r)
           \/ \E k \in Keys : \/ TickAgain(k) \/ ReplayTimer(k) \/ CompleteTimer(k)
                              \/ CompleteTimerInput(k)
                              \/ \E tick \in Ticks : Tick(k, tick)
           \/ EndDrain \/ ReplayRow \/ DeliverEvaluations \/ Restart \/ UNCHANGED vars
  <2>1. /\ UNCHANGED <<source, runs, won, outbox, accepted>>
        /\ (saved' = saved \/ saved' = <<>>)
    BY <1>8 DEF CompleteRow, TickAgain, ReplayTimer, CompleteTimer, CompleteTimerInput, Tick,
       EndDrain, ReplayRow, DeliverEvaluations, Restart, vars, database, Outside
  <2> QED BY <1>1, <2>1
<1> QED BY <1>2, <1>3, <1>4, <1>5, <1>6, <1>7, <1>8 DEF Next, Handler

(* A watermark is a row of the source; the rest of the volatile state.     *)
LEMMA StepBounds ==
    ASSUME FInv, WInv, [Next]_vars
    PROVE  /\ \A k \in Keys : timers'[k].watermark <= Latest'
           /\ request' \in Keys \cup {0}
           /\ crashes' \in 0 .. MaxCrashes
<1>1. /\ \A k \in Keys : timers[k].watermark <= Latest /\ timers[k].watermark \in Nat
      /\ request \in Keys \cup {0} /\ crashes \in 0 .. MaxCrashes
      /\ timers \in [Keys -> [status : Statuses, watermark : Nat, tick : Ticking]]
      /\ Latest \in Nat
  BY DEF WInv, FInv, Typed, Latest
<1>2. Incomplete \subseteq Keys
  BY IncompleteKeys
<1>3. CASE \E row \in Feed : Collect(row)
  <2>1. /\ UNCHANGED <<timers, request, crashes>> /\ Latest' = Latest + 1
    BY <1>3 DEF Collect, database, process, FInv, Typed, Latest
  <2> QED BY <1>1, <2>1
<1>4. ASSUME NEW k \in Keys, NEW tick \in Ticks, Tick(k, tick)
      PROVE  /\ \A j \in Keys : timers'[j].watermark <= Latest'
             /\ request' \in Keys \cup {0} /\ crashes' \in 0 .. MaxCrashes
  <2> DEFINE new == [status |-> "PREPARED", watermark |-> Latest, tick |-> tick]
  <2>1. /\ timers' = [timers EXCEPT ![k] = new] /\ request' = k /\ crashes' = crashes
        /\ Latest' = Latest
    BY <1>4 DEF Tick, Watermark, Outside, Latest
  <2>2. \A j \in Keys : timers'[j] = IF j = k THEN new ELSE timers[j]
    BY <1>1, <2>1
  <2>3. new.watermark = Latest
    OBVIOUS
  <2> HIDE DEF new
  <2> QED BY <1>1, <2>1, <2>2, <2>3
<1>5. CASE Crash
  <2>1. timers' = timers /\ Latest' = Latest
    BY <1>5, CrashStep
  <2>2. request' = 0 /\ crashes' = crashes + 1 /\ crashes < MaxCrashes
    BY <1>5 DEF Crash
  <2> QED BY <1>1, <2>1, <2>2, BoundAssumption
<1>6. ASSUME NEW k \in Keys, PlanTimer(k) \/ CompleteTimer(k)
      PROVE  /\ \A j \in Keys : timers'[j].watermark <= Latest'
             /\ request' \in Keys \cup {0} /\ crashes' \in 0 .. MaxCrashes
  <2>1. /\ UNCHANGED <<request, crashes>> /\ Latest' = Latest
        /\ \E st \in Statuses : timers' = [timers EXCEPT ![k].status = st]
    BY <1>6 DEF PlanTimer, CompleteTimer, Outside, Latest, Statuses
  <2>2. \A j \in Keys : timers'[j].watermark = timers[j].watermark
    BY <1>1, <2>1
  <2> QED BY <1>1, <2>1, <2>2
<1>7. CASE \E k \in Keys : TickAgain(k)
  <2>1. UNCHANGED <<timers, crashes>> /\ Latest' = Latest /\ request' \in Keys
    BY <1>7, <1>2 DEF TickAgain, database, Outside, Latest
  <2> QED BY <1>1, <2>1
<1>8. CASE \/ \E r \in Rows : PlanRow(r) \/ CompleteRow(r)
           \/ \E k \in Keys : ReplayTimer(k) \/ CompleteTimerInput(k)
           \/ Poll \/ DrainBatch \/ EndDrain \/ ReplayRow \/ DeliverEvaluations
           \/ RunnerAccepts \/ MarkDelivered \/ Restart \/ UNCHANGED vars
  <2>1. /\ UNCHANGED <<timers, crashes>> /\ Latest' = Latest
        /\ (request' = request \/ request' = 0)
    BY <1>8 DEF PlanRow, CompleteRow, ReplayTimer, CompleteTimerInput, Poll, DrainBatch,
       StartBatch, EndDrain, ReplayRow, DeliverEvaluations, RunnerAccepts, MarkDelivered,
       Restart, vars, database, process, Outside, Latest
  <2> QED BY <1>1, <2>1
<1> QED BY <1>3, <1>4, <1>5, <1>6, <1>7, <1>8 DEF Next, Handler

LEMMA InitWInv == Init => WInv
<1> SUFFICES ASSUME Init PROVE WInv
  OBVIOUS
<1>1. runs \in [Roles -> Runs] /\ won = {} /\ saved = <<>> /\ request = 0 /\ crashes = 0
  BY DEF Init, Runs
<1>2. outbox = <<>> /\ accepted = <<>> /\ Latest = 0
  BY DEF Init, Latest
<1>3. \A k \in Keys : timers[k].watermark = 0
  BY DEF Init
<1>4. outbox \in Seq(Entries(Events)) /\ DOMAIN outbox = {} /\ accepted \in Seq(DOMAIN outbox)
  <2> DEFINE K == Entries(Events)
             D == DOMAIN outbox
  <2> HIDE DEF K, D
  <2>1. outbox \in Seq(K) /\ accepted \in Seq(D)
    BY <1>2
  <2> QED BY <1>2, <2>1 DEF K, D
<1>5. Kept(source, runs, won, outbox, accepted)
  BY <1>1, <1>4 DEF Kept, Locked, AtMostOne
<1> QED BY <1>1, <1>2, <1>3, <1>5, BoundAssumption DEF WInv

LEMMA AlwaysWInv == Spec => [](FInv /\ LInv /\ WInv)
<1>1. Init => FInv /\ LInv /\ WInv
  BY InitFInv, InitLInv, InitWInv
<1>2. FInv /\ LInv /\ WInv /\ [Next]_vars => FInv' /\ LInv' /\ WInv'
  <2> SUFFICES ASSUME FInv, LInv, WInv, [Next]_vars PROVE FInv' /\ LInv' /\ WInv'
    OBVIOUS
  <2>1. /\ Kept(source', runs', won', outbox', accepted')
        /\ saved' # <<>> => Kept(source', saved'[3], saved'[4], saved'[6], saved'[8])
    BY StepKept
  <2>2. /\ \A k \in Keys : timers'[k].watermark <= Latest'
        /\ request' \in Keys \cup {0} /\ crashes' \in 0 .. MaxCrashes
    BY StepBounds
  <2>3. WInv'
    BY <2>1, <2>2 DEF WInv
  <2> QED BY <2>3, StepFInv, StepLInv
<1> QED BY <1>1, <1>2, PTL DEF Spec

(* The types of the tables and of the volatile state, with both bindings   *)
(* and both drivers of timers.                                             *)
THEOREM TypeOKAlways == Spec => []TypeOK
<1>1. FInv /\ LInv /\ WInv => TypeOK
  <2> SUFFICES ASSUME FInv, LInv, WInv PROVE TypeOK
    OBVIOUS
  <2>1. /\ source \in Seq(Feed) /\ Latest <= MaxRows /\ cursor \in 0 .. Latest
        /\ Latest \in Nat
    BY IncompleteKeys DEF FInv, Typed, LInv
  <2>2. /\ inputs \in [Inputs -> {"ABSENT", "PLANNED", "COMPLETE"}]
        /\ unaudited \in [Inputs -> SUBSET Roles]
    BY DEF LInv, Agreed, InStates
  <2>3. /\ runs \in [Roles -> Runs] /\ won \in SUBSET Roles
        /\ outbox \in Seq([input : Inputs, event : Events, delivered : BOOLEAN])
        /\ accepted \in Seq(DOMAIN outbox)
    BY DEF WInv, Kept, Entries
  <2>4. timers \in [Keys -> [status : Statuses, watermark : 0 .. MaxRows,
                             tick : [expires : BOOLEAN, exit : BOOLEAN]]]
    <3>1. timers \in [Keys -> [status : Statuses, watermark : Nat, tick : Ticking]]
      BY DEF FInv, Typed
    <3>2. \A k \in Keys : timers[k].watermark \in 0 .. MaxRows
      BY <2>1, <3>1, BoundAssumption DEF WInv
    <3> QED BY <3>1, <3>2 DEF Ticking
  <2>5. /\ stage \in {"idle", "drain", "row", "audit", "deliver", "acknowledge", "finish",
                      "down", "failed"}
        /\ limit \in 0 .. Latest
    BY <2>1 DEF FInv, InBatch, OffBatch
  <2>6. input \in Inputs \cup {NoInput}
    <3>1. input = NoInput
            \/ stage \in {"row", "audit", "deliver", "acknowledge", "finish"}
      BY DEF FInv, InBatch, OffBatch
    <3> QED BY <2>1, <3>1, InputInHand
  <2>7. request \in Keys \cup {0} /\ crashes \in 0 .. MaxCrashes
    BY DEF WInv
  <2> QED BY <2>1, <2>2, <2>3, <2>4, <2>5, <2>6, <2>7 DEF TypeOK
<1> QED BY <1>1, AlwaysWInv, PTL

(* A mint has one winner, and the candidate that makes it is the last      *)
(* event of the strategy in the outbox, for rows as well as for timers,    *)
(* whatever crashes and rollbacks there are (_plan_record, execute_prepared_timer).       *)
THEOREM OneWinnerAlways == Spec => []OneWinner
<1>1. LInv /\ WInv => OneWinner
  <2> SUFFICES ASSUME LInv, WInv PROVE OneWinner
    OBVIOUS
  <2>1. AtMostOne(won) /\ Locked(source, won, outbox)
    BY DEF WInv, Kept
  <2>2. Cardinality(won) <= 1
    <3>1. CASE won = {}
      BY <3>1, FS_EmptySet
    <3>2. ASSUME NEW r, won = {r} PROVE Cardinality(won) <= 1
      BY <3>2, FS_Singleton
    <3> QED BY <2>1, <3>1, <3>2 DEF AtMostOne
  <2> QED BY <2>1, <2>2 DEF Locked, Closing, OneWinner
<1> QED BY <1>1, AlwaysWInv, PTL
-----------------------------------------------------------------------------
(***************************************************************************)
(* The causal order.  The schedule only grows at its end, so a sequence of *)
(* the inputs in causal order, and the strategy's state and log after each *)
(* of them, can be carried along; the tables are what is left of the log   *)
(* after the inputs handled so far, and these are the first ones.          *)
(***************************************************************************)
LEMMA ScheduledIs ==
    ASSUME FInv, LInv, NEW i \in Scheduled
    PROVE  /\ i \in Inputs
           /\ \/ \E r \in 1 .. Latest : i = P1(r) /\ r \in Rows /\ At(i) = r
              \/ \E k \in Keys : /\ i = Timer(k) /\ timers[k].status # "NONE"
                                 /\ At(i) = timers[k].watermark /\ At(i) \in Nat
<1>1. Latest \in Nat /\ Latest <= MaxRows
  BY IncompleteKeys DEF LInv
<1>2. CASE \E r \in 1 .. Latest : i = P1(r)
  <2>1. PICK r \in 1 .. Latest : i = P1(r)
    BY <1>2
  <2>2. r \in Rows
    BY <1>1, BoundAssumption DEF Rows
  <2>3. At(i) = r
    BY <2>1 DEF At, P1
  <2> QED BY <2>1, <2>2, <2>3, Distinct
<1>3. CASE \E k \in Keys : i = Timer(k) /\ timers[k].status # "NONE"
  <2>1. PICK k \in Keys : i = Timer(k) /\ timers[k].status # "NONE"
    BY <1>3
  <2>2. At(i) = timers[k].watermark
    BY <2>1 DEF At, Timer
  <2>3. timers[k].watermark \in Nat
    BY DEF FInv, Typed
  <2> QED BY <2>1, <2>2, <2>3, Distinct
<1> QED BY <1>2, <1>3 DEF Scheduled

(* The causal order is strict.                                             *)
LEMMA BeforeStrict ==
    ASSUME FInv, LInv, NEW i \in Scheduled, NEW j \in Scheduled
    PROVE  ~Before(i, i) /\ (Before(i, j) => ~Before(j, i))
<1>1. ASSUME NEW x \in Scheduled
      PROVE  /\ At(x) \in Nat /\ x[2] \in Nat /\ x[1] \in {"P1", "TIMER"}
  <2>1. CASE \E r \in 1 .. Latest : x = P1(r) /\ At(x) = r
    BY <2>1, IncompleteKeys DEF P1
  <2>2. CASE \E k \in Keys : x = Timer(k) /\ At(x) \in Nat
    BY <2>2, BoundAssumption DEF Timer, Keys
  <2> QED BY <2>1, <2>2, ScheduledIs
<1>2. /\ At(i) \in Nat /\ i[2] \in Nat /\ i[1] \in {"P1", "TIMER"}
      /\ At(j) \in Nat /\ j[2] \in Nat /\ j[1] \in {"P1", "TIMER"}
  BY <1>1
<1> QED BY <1>2 DEF Before

(* A step of the source or of the timers keeps what is scheduled.          *)
Stays ==
    \A i \in Scheduled : /\ i \in Scheduled' /\ At(i)' = At(i)
                         /\ \A x : Judge(i, x)' = Judge(i, x)

LEMMA ScheduleStays ==
    ASSUME FInv, LInv,
           Latest \in Nat => Latest' \in Nat /\ Latest <= Latest',
           \A r \in 1 .. Latest : source'[r] = source[r],
           \A k \in Keys : timers[k].status # "NONE" =>
             /\ timers'[k].status # "NONE"
             /\ timers'[k].watermark = timers[k].watermark
             /\ timers'[k].tick = timers[k].tick
    PROVE  Stays
<1> SUFFICES ASSUME NEW CONSTANT i, i \in Scheduled
             PROVE  /\ i \in Scheduled' /\ At(i)' = At(i)
                    /\ \A x : Judge(i, x)' = Judge(i, x)
  BY DEF Stays
<1>1. CASE \E r \in 1 .. Latest : i = P1(r)
  <2>1. PICK r \in 1 .. Latest : i = P1(r)
    BY <1>1
  <2>2. i[1] = "P1" /\ i[2] = r /\ source'[r] = source[r] /\ r \in 1 .. Latest'
    BY <2>1, IncompleteKeys DEF P1
  <2>3. i \in Scheduled'
    BY <2>1, <2>2 DEF Scheduled
  <2>4. At(i)' = At(i)
    BY <2>2 DEF At
  <2>5. \A x : Judge(i, x)' = Judge(i, x)
    BY <2>2 DEF Judge
  <2> QED BY <2>3, <2>4, <2>5
<1>2. CASE \E k \in Keys : i = Timer(k) /\ timers[k].status # "NONE"
  <2>1. PICK k \in Keys : i = Timer(k) /\ timers[k].status # "NONE"
    BY <1>2
  <2>2. i[1] = "TIMER" /\ i[1] # "P1" /\ i[2] = k
    BY <2>1 DEF Timer
  <2>3. /\ timers'[k].status # "NONE" /\ timers'[k].watermark = timers[k].watermark
        /\ timers'[k].tick = timers[k].tick
    BY <2>1
  <2>4. i \in Scheduled'
    BY <2>1, <2>3 DEF Scheduled
  <2>5. At(i)' = At(i)
    BY <2>2, <2>3 DEF At
  <2>6. \A x : Judge(i, x)' = Judge(i, x)
    BY <2>2, <2>3 DEF Judge
  <2> QED BY <2>4, <2>5, <2>6
<1> QED BY <1>1, <1>2 DEF Scheduled
-----------------------------------------------------------------------------
Begins(s, t) == Len(s) <= Len(t) /\ \A j \in 1 .. Len(s) : s[j] = t[j]

(* The inputs scheduled, in causal order.                                  *)
Sorted(q) ==
    /\ q \in Seq(Inputs)
    /\ \A a \in 1 .. Len(q) : q[a] \in Scheduled
    /\ \A i \in Scheduled : \E a \in 1 .. Len(q) : q[a] = i
    /\ \A a, b \in 1 .. Len(q) : a < b => Before(q[a], q[b])

(* What the strategy has said after each of them.                          *)
Telling(q, f) ==
    /\ f = [p \in 0 .. Len(q) |-> f[p]]
    /\ f[0] = Fresh
    /\ \A p \in 1 .. Len(q) : f[p] = Judge(q[p], f[p - 1])
    /\ \A a \in 0 .. Len(q) : IsEvents(f[a].log)
    /\ \A a, b \in 0 .. Len(q) : a <= b => Begins(f[a].log, f[b].log)

LEMMA SortedStays ==
    ASSUME Stays, Scheduled' = Scheduled, NEW CONSTANT q, Sorted(q)
    PROVE  Sorted(q)'
<1>1. \A i, j \in Scheduled : Before(i, j)' <=> Before(i, j)
  BY DEF Stays, Before
<1> QED BY <1>1 DEF Sorted

LEMMA TellingStays ==
    ASSUME Stays, NEW CONSTANT q, NEW CONSTANT f, Sorted(q), Telling(q, f)
    PROVE  Telling(q, f)'
<1>1. \A p \in 1 .. Len(q) : \A x : Judge(q[p], x)' = Judge(q[p], x)
  BY DEF Stays, Sorted
<1> QED BY <1>1 DEF Telling

(* A new input that everything scheduled is before goes to the end.        *)
LEMMA SortedMore ==
    ASSUME Stays, NEW CONSTANT q, NEW CONSTANT new, new \in Inputs, Sorted(q),
           Scheduled' = Scheduled \cup {new},
           \A i \in Scheduled : Before(i, new)'
    PROVE  Sorted(Append(q, new))'
<1>1. \A i, j \in Scheduled : Before(i, j)' <=> Before(i, j)
  BY DEF Stays, Before
<1> DEFINE more == Append(q, new)
<1>2. q \in Seq(Inputs)
  BY DEF Sorted
<1>3. /\ more \in Seq(Inputs) /\ Len(q) \in Nat /\ Len(more) = Len(q) + 1
      /\ more[Len(q) + 1] = new
      /\ \A a \in 1 .. Len(q) : more[a] = q[a]
  <2> DEFINE I == Inputs
  <2>1. q \in Seq(I) /\ new \in I
    BY <1>2
  <2> HIDE DEF I
  <2>2. /\ more \in Seq(I) /\ Len(q) \in Nat /\ Len(more) = Len(q) + 1
        /\ more[Len(q) + 1] = new
        /\ \A a \in 1 .. Len(q) : more[a] = q[a]
    BY <2>1
  <2> QED BY <2>2 DEF I
<1> HIDE DEF more
<1>4. \A a \in 1 .. Len(q) : q[a] \in Scheduled
  BY DEF Sorted
<1>5. ASSUME NEW a \in 1 .. Len(more) PROVE more[a] \in Scheduled'
  <2>1. a \in 1 .. Len(q) \/ a = Len(q) + 1
    BY <1>3
  <2> QED BY <1>3, <1>4, <2>1
<1>6. ASSUME NEW i \in Scheduled' PROVE \E a \in 1 .. Len(more) : more[a] = i
  <2>1. CASE i \in Scheduled
    <3>1. PICK a \in 1 .. Len(q) : q[a] = i
      BY <2>1 DEF Sorted
    <3>2. a \in 1 .. Len(more) /\ more[a] = i
      BY <1>3, <3>1
    <3> QED BY <3>2
  <2>2. CASE i = new
    <3>1. Len(q) + 1 \in 1 .. Len(more) /\ more[Len(q) + 1] = i
      BY <1>3, <2>2
    <3> QED BY <3>1
  <2> QED BY <2>1, <2>2
<1>7. ASSUME NEW a \in 1 .. Len(more), NEW b \in 1 .. Len(more), a < b
      PROVE  Before(more[a], more[b])'
  <2>1. a \in 1 .. Len(q) /\ (b \in 1 .. Len(q) \/ b = Len(q) + 1)
    BY <1>3, <1>7
  <2>2. more[a] = q[a] /\ q[a] \in Scheduled
    BY <1>3, <1>4, <2>1
  <2>3. CASE b \in 1 .. Len(q)
    <3>1. more[b] = q[b] /\ q[b] \in Scheduled
      BY <1>3, <1>4, <2>3
    <3>2. Before(q[a], q[b])
      BY <1>7, <2>1, <2>3 DEF Sorted
    <3>3. Before(q[a], q[b])'
      BY <1>1, <2>2, <3>1, <3>2
    <3> QED BY <2>2, <3>1, <3>3
  <2>4. CASE b = Len(q) + 1
    <3>1. more[b] = new
      BY <1>3, <2>4
    <3>2. Before(q[a], new)'
      BY <2>2
    <3> QED BY <2>2, <3>1, <3>2
  <2> QED BY <2>1, <2>3, <2>4
<1>8. Sorted(more)'
  BY <1>3, <1>5, <1>6, <1>7 DEF Sorted
<1> QED BY <1>8 DEF more
-----------------------------------------------------------------------------
(* A judgment, with the tables as parameters; it adds events to the log.   *)
EventsOf(src, tms, i, what) == IF i[1] = "P1" THEN RowEvents(src[i[2]], what)
                                              ELSE TickEvents(tms[i[2]].tick, what)

JudgeOf(src, tms, i, x) ==
    LET what  == [runs |-> x.runs, won |-> x.won]
        after == IF i[1] = "P1" THEN AfterRow(src[i[2]], what)
                                ELSE AfterTick(tms[i[2]].tick, what)
    IN  [runs |-> after.runs, won |-> after.won,
         log  |-> x.log \o [j \in DOMAIN EventsOf(src, tms, i, what) |->
                              <<i, EventsOf(src, tms, i, what)[j]>>]]

LEMMA JudgeAppends ==
    ASSUME NEW src, NEW tms, NEW i, NEW x, IsEvents(x.log)
    PROVE  IsEvents(JudgeOf(src, tms, i, x).log) /\ Begins(x.log, JudgeOf(src, tms, i, x).log)
<1> DEFINE es == EventsOf(src, tms, i, [runs |-> x.runs, won |-> x.won])
           new == [j \in DOMAIN es |-> <<i, es[j]>>]
<1>1. JudgeOf(src, tms, i, x).log = x.log \o new
  BY DEF JudgeOf
<1>2. IsEvents(es)
  BY RowEventsAre, TickEventsAre DEF EventsOf
<1> HIDE DEF es
<1>3. PICK T : es \in Seq(T)
  BY <1>2 DEF IsEvents
<1>4. new \in Seq({i} \X T)
  <2>1. Len(es) \in Nat /\ DOMAIN es = 1 .. Len(es) /\ \A j \in 1 .. Len(es) : es[j] \in T
    BY <1>3
  <2>2. new \in [1 .. Len(es) -> {i} \X T]
    BY <2>1
  <2> QED BY <2>1, <2>2
<1>5. PICK U : x.log \in Seq(U)
  BY DEF IsEvents
<1> DEFINE V == U \cup ({i} \X T)
           l == x.log
<1> HIDE DEF new
<1>6. l \in Seq(V) /\ new \in Seq(V)
  <2> DEFINE W == {i} \X T
  <2>1. new \in Seq(W) /\ l \in Seq(U) /\ V = U \cup W
    BY <1>4, <1>5
  <2> HIDE DEF W, V, l
  <2>2. U \subseteq V /\ W \subseteq V
    BY <2>1
  <2> QED BY <2>1, <2>2
<1> HIDE DEF V, l
<1>7. l \o new \in Seq(V) /\ Len(l \o new) = Len(l) + Len(new)
      /\ Len(l) \in Nat /\ Len(new) \in Nat
  BY <1>6, Joined
<1>8. \A j \in 1 .. Len(l) : l[j] = (l \o new)[j]
  BY <1>6
<1>9. IsEvents(l \o new) /\ Begins(l, l \o new)
  BY <1>7, <1>8 DEF IsEvents, Begins
<1> QED BY <1>1, <1>9 DEF l

LEMMA BeginsTrans ==
    ASSUME NEW s, NEW t, NEW u, IsEvents(s), IsEvents(t), IsEvents(u), Begins(s, t), Begins(t, u)
    PROVE  Begins(s, u)
<1>1. Len(s) \in Nat /\ Len(t) \in Nat /\ Len(u) \in Nat
  BY DEF IsEvents
<1> QED BY <1>1 DEF Begins

LEMMA TellingMore ==
    ASSUME Stays, NEW CONSTANT q, NEW CONSTANT f, NEW CONSTANT new,
           new \in Inputs, Sorted(q), Telling(q, f)
    PROVE  \E g : /\ Telling(Append(q, new), g)'
                  /\ \A p \in 0 .. Len(q) : g[p] = f[p]
<1> DEFINE more == Append(q, new)
           n == Len(q)
<1>1. /\ n \in Nat /\ Len(more) = n + 1 /\ more[n + 1] = new
      /\ \A a \in 1 .. n : more[a] = q[a]
  <2> DEFINE I == Inputs
  <2>1. q \in Seq(I) /\ new \in I
    BY DEF Sorted
  <2> HIDE DEF I
  <2> QED BY <2>1
<1>2. PICK last : last = Judge(new, f[n])'
  OBVIOUS
<1>3. \A p \in 1 .. n : \A x : Judge(q[p], x)' = Judge(q[p], x)
  BY DEF Stays, Sorted
<1>4. /\ f[0] = Fresh
      /\ \A p \in 1 .. n : f[p] = Judge(q[p], f[p - 1])
      /\ \A a \in 0 .. n : IsEvents(f[a].log)
      /\ \A a, b \in 0 .. n : a <= b => Begins(f[a].log, f[b].log)
  BY DEF Telling
<1>5. IsEvents(last.log) /\ Begins(f[n].log, last.log)
  <2>1. IsEvents(f[n].log)
    BY <1>1, <1>4
  <2>2. last = JudgeOf(source', timers', new, f[n])
    BY <1>2 DEF Judge, JudgeOf, EventsOf
  <2> QED BY <2>1, <2>2, JudgeAppends
<1> DEFINE g == [p \in 0 .. n + 1 |-> IF p <= n THEN f[p] ELSE last]
<1>6. /\ \A p \in 0 .. n : g[p] = f[p]
      /\ g[n + 1] = last
      /\ g = [p \in 0 .. n + 1 |-> g[p]]
  BY <1>1
<1> HIDE DEF g, n
<1>7. ASSUME NEW p \in 1 .. n + 1 PROVE g[p] = Judge(more[p], g[p - 1])'
  <2>1. CASE p \in 1 .. n
    <3>1. p \in 0 .. n /\ p - 1 \in 0 .. n
      BY <1>1, <2>1
    <3>2. g[p] = f[p] /\ g[p - 1] = f[p - 1] /\ more[p] = q[p]
      BY <1>1, <1>6, <2>1, <3>1
    <3>3. f[p] = Judge(q[p], f[p - 1])'
      BY <1>3, <1>4, <2>1
    <3> QED BY <3>2, <3>3
  <2>2. CASE p = n + 1
    <3>1. p - 1 = n /\ n \in 0 .. n
      BY <1>1, <2>2
    <3>2. g[p] = last /\ g[p - 1] = f[n] /\ more[p] = new
      BY <1>1, <1>6, <2>2, <3>1
    <3> QED BY <1>2, <3>2
  <2> QED BY <1>1, <2>1, <2>2
<1>8. ASSUME NEW a \in 0 .. n + 1 PROVE IsEvents(g[a].log)
  <2>1. a \in 0 .. n \/ a = n + 1
    BY <1>1
  <2> QED BY <1>4, <1>5, <1>6, <2>1
<1>9. ASSUME NEW a \in 0 .. n + 1, NEW b \in 0 .. n + 1, a <= b
      PROVE  Begins(g[a].log, g[b].log)
  <2>1. CASE b \in 0 .. n
    <3>1. a \in 0 .. n
      BY <1>1, <1>9, <2>1
    <3> QED BY <1>4, <1>6, <1>9, <2>1, <3>1
  <2>2. CASE b = n + 1 /\ a \in 0 .. n
    <3>1. n \in 0 .. n /\ a <= n
      BY <1>1, <2>2
    <3>2. Begins(f[a].log, f[n].log)
      BY <1>4, <2>2, <3>1
    <3>3. IsEvents(f[a].log) /\ IsEvents(f[n].log)
      BY <1>4, <2>2, <3>1
    <3>4. Begins(f[a].log, last.log)
      BY <1>5, <3>2, <3>3, BeginsTrans
    <3> QED BY <1>6, <2>2, <3>4
  <2>3. CASE b = n + 1 /\ a = n + 1
    <3>1. Len(last.log) \in Nat
      BY <1>5 DEF IsEvents
    <3> QED BY <1>6, <2>3, <3>1 DEF Begins
  <2> QED BY <1>1, <2>1, <2>2, <2>3
<1>10. g[0] = Fresh
  <2>1. 0 \in 0 .. n
    BY <1>1
  <2> QED BY <1>4, <1>6, <2>1
<1>11. Telling(more, g)'
  <2> HIDE DEF more
  <2>1. 0 .. Len(more) = 0 .. n + 1 /\ 1 .. Len(more) = 1 .. n + 1
    BY <1>1
  <2> QED BY <1>6, <1>7, <1>8, <1>9, <1>10, <2>1 DEF Telling
<1> QED BY <1>6, <1>11 DEF n
-----------------------------------------------------------------------------
Told(o) == [s \in DOMAIN o |-> <<o[s].input, o[s].event>>]

(* The tables are what the strategy has said after the inputs handled, and *)
(* these are the first inputs of the schedule.                             *)
ReachedAt(m, q, f, ins, run, w, o) ==
    /\ \A p \in 1 .. Len(q) : ins[q[p]] # "ABSENT" <=> p <= m
    /\ f[m].runs = run /\ f[m].won = w /\ f[m].log = Told(o)

Reached(q, f, ins, run, w, o) ==
    \E m \in 0 .. Len(q) : ReachedAt(m, q, f, ins, run, w, o)

LEMMA ReachedMore ==
    ASSUME NEW q, NEW f, NEW g, NEW new \in Inputs, NEW ins, NEW run, NEW w, NEW o,
           q \in Seq(Inputs), Reached(q, f, ins, run, w, o), ins[new] = "ABSENT",
           \A p \in 0 .. Len(q) : g[p] = f[p]
    PROVE  Reached(Append(q, new), g, ins, run, w, o)
<1> DEFINE more == Append(q, new)
           n == Len(q)
<1>1. /\ n \in Nat /\ Len(more) = n + 1 /\ more[n + 1] = new
      /\ \A a \in 1 .. n : more[a] = q[a]
  <2> DEFINE I == Inputs
  <2>1. q \in Seq(I) /\ new \in I
    OBVIOUS
  <2> HIDE DEF I
  <2> QED BY <2>1
<1>2. PICK m \in 0 .. n : ReachedAt(m, q, f, ins, run, w, o)
  BY DEF Reached
<1>3. g[m] = f[m]
  BY <1>2
<1> HIDE DEF more, n
<1>4. ASSUME NEW p \in 1 .. n + 1 PROVE ins[more[p]] # "ABSENT" <=> p <= m
  <2>1. CASE p \in 1 .. n
    BY <1>1, <1>2, <2>1 DEF ReachedAt, n
  <2>2. CASE p = n + 1
    <3>1. ~(p <= m)
      BY <1>1, <2>2
    <3> QED BY <1>1, <2>2, <3>1
  <2> QED BY <1>1, <2>1, <2>2
<1>5. ReachedAt(m, more, g, ins, run, w, o)
  BY <1>1, <1>2, <1>3, <1>4 DEF ReachedAt
<1>6. m \in 0 .. Len(more)
  BY <1>1
<1> QED BY <1>5, <1>6 DEF Reached, more

LEMMA ToldPost ==
    ASSUME NEW i \in Inputs, NEW events \in Seq(Events), outbox \in Seq(Entries(Events))
    PROVE  Told(Post(i, events)) = Told(outbox) \o [j \in DOMAIN events |-> <<i, events[j]>>]
<1> DEFINE n == Len(outbox)
           k == Len(events)
           o == Post(i, events)
           told == Told(outbox)
           new == [j \in DOMAIN events |-> <<i, events[j]>>]
           V == Inputs \X Events
<1>1. /\ n \in Nat /\ k \in Nat
      /\ DOMAIN outbox = 1 .. n /\ DOMAIN events = 1 .. k
      /\ DOMAIN o = 1 .. n + k
      /\ \A s \in 1 .. n : o[s] = outbox[s]
      /\ \A s \in n + 1 .. n + k :
           /\ s - n \in DOMAIN events
           /\ o[s] = [input |-> i, event |-> events[s - n], delivered |-> FALSE]
  BY PostTyped
<1>2. \A s \in 1 .. n : outbox[s] \in Entries(Events)
  BY <1>1
<1>3. told \in Seq(V) /\ Len(told) = n
  <2>1. told = [s \in 1 .. n |-> <<outbox[s].input, outbox[s].event>>]
    BY <1>1 DEF Told
  <2>2. \A s \in 1 .. n : <<outbox[s].input, outbox[s].event>> \in V
    BY <1>2 DEF Entries
  <2>3. told \in [1 .. n -> V]
    BY <2>1, <2>2
  <2> HIDE DEF told, n, V
  <2> QED BY <1>1, <2>3
<1>4. new \in Seq(V) /\ Len(new) = k
  <2>1. \A j \in 1 .. k : events[j] \in Events
    OBVIOUS
  <2>2. new \in [1 .. k -> V]
    BY <1>1, <2>1
  <2> HIDE DEF new, k, V
  <2> QED BY <1>1, <2>2
<1>5. \A s \in 1 .. n : told[s] = <<outbox[s].input, outbox[s].event>>
  BY <1>1 DEF Told
<1>6. \A j \in 1 .. k : new[j] = <<i, events[j]>>
  BY <1>1
<1> HIDE DEF n, k, o, told, new, V
<1>7. /\ told \o new \in Seq(V) /\ Len(told \o new) = n + k
      /\ DOMAIN (told \o new) = 1 .. n + k
  BY <1>3, <1>4, Joined, ZenonT(60)
<1>8. told \o new = [s \in 1 .. n + k |-> (told \o new)[s]]
  <2>1. \A t : t \in Seq(V) => t = [s \in 1 .. Len(t) |-> t[s]]
    OBVIOUS
  <2> QED BY <1>7, <2>1
<1>9. /\ Told(o) = [s \in 1 .. n + k |-> Told(o)[s]]
      /\ \A s \in 1 .. n + k : Told(o)[s] = <<o[s].input, o[s].event>>
  BY <1>1 DEF Told
<1>10. ASSUME NEW s \in 1 .. n + k PROVE Told(o)[s] = (told \o new)[s]
  <2>1. CASE s \in 1 .. n
    <3>1. (told \o new)[s] = told[s]
      BY <1>3, <1>4, <2>1
    <3> QED BY <1>1, <1>5, <1>9, <2>1, <3>1
  <2>2. CASE s \in n + 1 .. n + k
    <3>1. s - n \in 1 .. k /\ (told \o new)[s] = new[s - n]
      BY <1>1, <1>3, <1>4, <2>2
    <3>2. o[s] = [input |-> i, event |-> events[s - n], delivered |-> FALSE]
      BY <1>1, <2>2
    <3>3. o[s].input = i /\ o[s].event = events[s - n]
      BY <3>2
    <3> QED BY <1>6, <1>9, <3>1, <3>3
  <2>3. n \in Nat /\ k \in Nat
    BY <1>1
  <2>4. s \in 1 .. n \/ s \in n + 1 .. n + k
    BY <2>3
  <2> QED BY <2>1, <2>2, <2>4
<1>11. Told(o) = told \o new
  BY <1>8, <1>9, <1>10
<1> QED BY <1>11 DEF o, told, new

(* The input that is planned is the first of the schedule not yet handled, *)
(* when all before it are handled; the strategy judges it next.            *)
LEMMA ReachedPlan ==
    ASSUME FInv, LInv, NEW q, NEW f, Sorted(q), Telling(q, f),
           Reached(q, f, inputs, runs, won, outbox), outbox \in Seq(Entries(Events)),
           NEW i \in Scheduled, inputs[i] = "ABSENT",
           \A j \in Scheduled : Before(j, i) => inputs[j] # "ABSENT",
           NEW ins, ins = [inputs EXCEPT ![i] = "PLANNED"],
           NEW run, NEW w, NEW events \in Seq(Events),
           \A x : x.runs = runs /\ x.won = won =>
             Judge(i, x) = [runs |-> run, won |-> w,
                            log |-> x.log \o [j \in DOMAIN events |-> <<i, events[j]>>]]
    PROVE  Reached(q, f, ins, run, w, Post(i, events))
<1> DEFINE n == Len(q)
           o == Post(i, events)
<1>1. /\ n \in Nat /\ i \in Inputs
      /\ \A a \in 1 .. n : q[a] \in Scheduled
      /\ \A a, b \in 1 .. n : a < b => Before(q[a], q[b])
  BY ScheduledIs DEF Sorted
<1>2. PICK m \in 0 .. n : ReachedAt(m, q, f, inputs, runs, won, outbox)
  BY DEF Reached
<1>3. PICK p \in 1 .. n : q[p] = i
  BY DEF Sorted
<1>4. ~(p <= m)
  BY <1>2, <1>3 DEF ReachedAt
<1>5. p = m + 1
  <2> SUFFICES ASSUME p # m + 1 PROVE FALSE
    OBVIOUS
  <2>1. m + 1 \in 1 .. n /\ m + 1 < p /\ ~(m + 1 <= m)
    BY <1>1, <1>4
  <2>2. Before(q[m + 1], i) /\ q[m + 1] \in Scheduled
    BY <1>1, <1>3, <2>1
  <2>3. inputs[q[m + 1]] # "ABSENT"
    BY <2>2
  <2> QED BY <1>2, <2>1, <2>3 DEF ReachedAt
<1>6. \A a \in 1 .. n : a # p => q[a] # i
  <2> SUFFICES ASSUME NEW a \in 1 .. n, a # p, q[a] = i PROVE FALSE
    OBVIOUS
  <2>1. a < p \/ p < a
    BY <1>1
  <2>2. Before(i, i)
    BY <1>1, <1>3, <2>1
  <2> QED BY <2>2, BeforeStrict
<1>7. ASSUME NEW a \in 1 .. n PROVE ins[q[a]] # "ABSENT" <=> a <= m + 1
  <2>1. q[a] \in Inputs /\ inputs \in [Inputs -> InStates]
    BY <1>1, ScheduledIs DEF LInv, Agreed
  <2>2. ins[q[a]] = IF q[a] = i THEN "PLANNED" ELSE inputs[q[a]]
    BY <2>1
  <2>3. inputs[q[a]] # "ABSENT" <=> a <= m
    BY <1>2 DEF ReachedAt
  <2>4. CASE a = p
    BY <1>1, <1>3, <1>5, <2>2, <2>4
  <2>5. CASE a # p
    <3>1. q[a] # i
      BY <1>6, <2>5
    <3>2. ins[q[a]] = inputs[q[a]]
      BY <2>2, <3>1
    <3>3. a <= m <=> a <= m + 1
      BY <1>1, <1>5, <2>5
    <3> QED BY <2>3, <3>2, <3>3
  <2> QED BY <2>4, <2>5
<1>8. f[m].runs = runs /\ f[m].won = won /\ f[m].log = Told(outbox)
  BY <1>2 DEF ReachedAt
<1>9. f[m + 1] = Judge(i, f[m])
  <2>1. f[p] = Judge(q[p], f[p - 1])
    BY DEF Telling
  <2>2. p - 1 = m
    BY <1>5
  <2>3. f[p] = Judge(i, f[m])
    BY <1>3, <2>1, <2>2
  <2> QED BY <1>5, <2>3
<1>10. f[m + 1] = [runs |-> run, won |-> w,
                   log |-> f[m].log \o [j \in DOMAIN events |-> <<i, events[j]>>]]
  BY <1>8, <1>9
<1>11. f[m + 1].runs = run /\ f[m + 1].won = w /\ f[m + 1].log = Told(o)
  <2>1. Told(o) = Told(outbox) \o [j \in DOMAIN events |-> <<i, events[j]>>]
    BY <1>1, ToldPost
  <2>2. /\ f[m + 1].runs = run /\ f[m + 1].won = w
        /\ f[m + 1].log = f[m].log \o [j \in DOMAIN events |-> <<i, events[j]>>]
    BY <1>10
  <2> QED BY <1>8, <2>1, <2>2
<1> HIDE DEF o
<1>12. ReachedAt(m + 1, q, f, ins, run, w, o)
  BY <1>7, <1>11 DEF ReachedAt
<1>13. m + 1 \in 0 .. n
  BY <1>1, <1>5
<1> QED BY <1>12, <1>13 DEF Reached, o
-----------------------------------------------------------------------------
(* What is handled: the rows up to the cursor, no row that is not there,   *)
(* and exactly the timers whose plan is written.                           *)
Done(cur, ins) ==
    /\ \A r \in Rows : r <= cur => ins[P1(r)] # "ABSENT"
    /\ \A r \in Rows : ins[P1(r)] # "ABSENT" => r <= Latest
    /\ \A k \in Keys : ins[Timer(k)] # "ABSENT" <=> timers[k].status \in {"PLANNED", "COMPLETE"}

(* The runner has taken the items of the outbox one by one.                *)
Own(acc) == \A j \in DOMAIN acc : acc[j] = j

Handling == stage \in {"audit", "deliver", "acknowledge", "finish"} => inputs[input] # "ABSENT"

DInv ==
    /\ Done(cursor, inputs)
    /\ saved # <<>> => Done(saved[1], saved[2])
    /\ Own(accepted)
    /\ saved # <<>> => Own(saved[8])
    /\ Handling

Carried(q, f) ==
    /\ Sorted(q) /\ Telling(q, f)
    /\ Reached(q, f, inputs, runs, won, outbox)
    /\ saved # <<>> => Reached(q, f, saved[2], saved[3], saved[4], saved[6])

CInv == DInv /\ \E q, f : Carried(q, f)

(* Steps that leave the tables of the inputs alone.                        *)
LEMMA AwayDone ==
    ASSUME FInv, DInv, UNCHANGED <<cursor, inputs, accepted>>,
           source' = source \/ \E row \in Feed : source' = Append(source, row),
           \A k \in Keys : timers'[k].status \in {"PLANNED", "COMPLETE"} <=>
                           timers[k].status \in {"PLANNED", "COMPLETE"},
           \/ saved' = saved \/ saved' = <<>>
           \/ saved'[1] = cursor /\ saved'[2] = inputs /\ saved'[8] = accepted,
           stage' \in {"audit", "deliver", "acknowledge", "finish"} => inputs[input'] # "ABSENT"
    PROVE  DInv'
<1>1. Latest \in Nat /\ Latest' \in Nat /\ Latest <= Latest'
  BY DEF FInv, Typed, Latest
<1>2. ASSUME NEW cur, NEW ins, Done(cur, ins)
      PROVE  /\ \A r \in Rows : r <= cur => ins[P1(r)] # "ABSENT"
             /\ \A r \in Rows : ins[P1(r)] # "ABSENT" => r <= Latest'
             /\ \A k \in Keys : ins[Timer(k)] # "ABSENT" <=>
                                timers'[k].status \in {"PLANNED", "COMPLETE"}
  BY <1>1, <1>2, BoundAssumption DEF Done, Rows
<1>3. Done(cursor, inputs)'
  <2>1. Done(cursor, inputs)
    BY DEF DInv
  <2>2. /\ \A r \in Rows : r <= cursor => inputs[P1(r)] # "ABSENT"
        /\ \A r \in Rows : inputs[P1(r)] # "ABSENT" => r <= Latest'
        /\ \A k \in Keys : inputs[Timer(k)] # "ABSENT" <=>
                           timers'[k].status \in {"PLANNED", "COMPLETE"}
    BY <1>2, <2>1
  <2> QED BY <2>2 DEF Done
<1>4. saved' # <<>> => Done(saved[1], saved[2])'
  <2>1. CASE saved' = saved /\ saved # <<>>
    <3>1. Done(saved[1], saved[2])
      BY <2>1 DEF DInv
    <3>2. /\ \A r \in Rows : r <= saved[1] => saved[2][P1(r)] # "ABSENT"
          /\ \A r \in Rows : saved[2][P1(r)] # "ABSENT" => r <= Latest'
          /\ \A k \in Keys : saved[2][Timer(k)] # "ABSENT" <=>
                             timers'[k].status \in {"PLANNED", "COMPLETE"}
      BY <1>2, <3>1
    <3> QED BY <2>1, <3>2 DEF Done
  <2>2. CASE saved'[1] = cursor /\ saved'[2] = inputs
    BY <1>3, <2>2 DEF Done
  <2> QED BY <2>1, <2>2
<1>5. saved' # <<>> => Own(saved'[8])
  BY DEF DInv
<1> QED BY <1>3, <1>4, <1>5 DEF DInv, Handling, Own

LEMMA PlanRowDone ==
    ASSUME FInv, LInv, DInv, NEW r \in Rows, PlanRow(r) PROVE DInv' /\ r = cursor + 1 /\ InBatch
<1>1. /\ UNCHANGED <<cursor, timers, saved, source, accepted, input>> /\ Latest' = Latest
      /\ stage' = "audit" /\ stage = "row" /\ input = P1(r)
      /\ inputs' = [inputs EXCEPT ![P1(r)] = "PLANNED"]
  BY DEF PlanRow, Outside, Latest
<1>2. InBatch /\ r = cursor + 1
  <2>1. InBatch
    BY <1>1 DEF FInv, OffBatch, NoInput, P1
  <2> QED BY <1>1, <2>1 DEF InBatch, P1
<1>3. r <= Latest
  BY <1>2, IncompleteKeys DEF InBatch
<1>4. \A i \in Inputs : inputs'[i] = IF i = P1(r) THEN "PLANNED" ELSE inputs[i]
  BY <1>1 DEF LInv, Agreed
<1>5. Done(cursor, inputs)'
  BY <1>1, <1>3, <1>4, Distinct DEF DInv, Done
<1>6. saved' # <<>> => Done(saved[1], saved[2])'
  BY <1>1 DEF DInv, Done
<1>7. Handling'
  BY <1>1, <1>4, Distinct DEF Handling
<1> QED BY <1>1, <1>2, <1>5, <1>6, <1>7 DEF DInv, Own

LEMMA PlanTimerDone ==
    ASSUME FInv, LInv, DInv, NEW k \in Keys, PlanTimer(k) PROVE DInv'
<1>1. /\ UNCHANGED <<cursor, saved, source, accepted>> /\ Latest' = Latest
      /\ stage' = "audit" /\ stage = "drain" /\ input' = Timer(k)
      /\ timers' = [timers EXCEPT ![k].status = "PLANNED"]
      /\ inputs' = [inputs EXCEPT ![Timer(k)] = "PLANNED"]
  BY DEF PlanTimer, Ready, Outside, Latest
<1>2. saved = <<>>
  BY <1>1 DEF FInv, InBatch, OffBatch
<1>3. \A j \in Keys : timers'[j].status = IF j = k THEN "PLANNED" ELSE timers[j].status
  BY <1>1 DEF FInv, Typed
<1>4. \A i \in Inputs : inputs'[i] = IF i = Timer(k) THEN "PLANNED" ELSE inputs[i]
  BY <1>1 DEF LInv, Agreed
<1>5. Done(cursor, inputs)'
  <2>1. \A q \in Rows : inputs'[P1(q)] = inputs[P1(q)]
    BY <1>4, Distinct
  <2>2. \A j \in Keys : inputs'[Timer(j)] = IF j = k THEN "PLANNED" ELSE inputs[Timer(j)]
    BY <1>4, Distinct
  <2>3. \A j \in Keys : inputs'[Timer(j)] # "ABSENT" <=>
                        timers'[j].status \in {"PLANNED", "COMPLETE"}
    BY <1>3, <2>2 DEF DInv, Done
  <2> QED BY <1>1, <2>1, <2>3 DEF DInv, Done
<1>6. Handling'
  BY <1>1, <1>4, Distinct DEF Handling
<1> QED BY <1>1, <1>2, <1>5, <1>6 DEF DInv, Own

LEMMA CompleteRowDone ==
    ASSUME FInv, LInv, DInv, NEW r \in Rows, CompleteRow(r)
    PROVE  DInv' /\ \A i \in Inputs : inputs'[i] # "ABSENT" <=> inputs[i] # "ABSENT"
<1>1. limit # 0 /\ InBatch /\ r = cursor + 1 /\ cursor' = r /\ r <= limit
  BY CompletedRow
<1>2. /\ UNCHANGED <<timers, source, accepted>> /\ Latest' = Latest /\ input = P1(r)
      /\ inputs' = [inputs EXCEPT ![P1(r)] = "COMPLETE"] /\ stage = "deliver"
      /\ stage' \in {"row", "idle", "drain"} /\ (saved' = saved \/ saved' = <<>>)
  BY DEF CompleteRow, HandledAll, Outside, Latest
<1>3. \A i \in Inputs : inputs'[i] = IF i = P1(r) THEN "COMPLETE" ELSE inputs[i]
  BY <1>2 DEF LInv, Agreed
<1>4. inputs[P1(r)] # "ABSENT"
  BY <1>2 DEF DInv, Handling
<1>5. \A i \in Inputs : inputs'[i] # "ABSENT" <=> inputs[i] # "ABSENT"
  BY <1>3, <1>4
<1>6. Done(cursor, inputs)'
  <2>1. ASSUME NEW q \in Rows, q <= cursor' PROVE inputs'[P1(q)] # "ABSENT"
    <3>1. q = r \/ q <= cursor
      BY <1>1, <2>1, IncompleteKeys DEF Rows
    <3>2. inputs[P1(q)] # "ABSENT"
      BY <1>4, <3>1 DEF DInv, Done
    <3> QED BY <1>5, <3>2, Distinct
  <2> QED BY <1>2, <1>5, <2>1, Distinct DEF DInv, Done
<1>7. saved' # <<>> => Done(saved[1], saved[2])'
  BY <1>2 DEF DInv, Done
<1>8. Handling'
  BY <1>2 DEF Handling
<1> QED BY <1>2, <1>5, <1>6, <1>7, <1>8 DEF DInv, Own

LEMMA CompleteInputDone ==
    ASSUME FInv, LInv, DInv, NEW k \in Keys, CompleteTimerInput(k)
    PROVE  DInv' /\ \A i \in Inputs : inputs'[i] # "ABSENT" <=> inputs[i] # "ABSENT"
<1>1. /\ UNCHANGED <<cursor, timers, saved, source, accepted, input>> /\ Latest' = Latest
      /\ stage = "deliver" /\ input = Timer(k)
      /\ inputs' = [inputs EXCEPT ![Timer(k)] = "COMPLETE"]
  BY DEF CompleteTimerInput, HandledAll, Outside, Latest
<1>2. \A i \in Inputs : inputs'[i] = IF i = Timer(k) THEN "COMPLETE" ELSE inputs[i]
  BY <1>1 DEF LInv, Agreed
<1>3. inputs[Timer(k)] # "ABSENT"
  BY <1>1 DEF DInv, Handling
<1>4. \A i \in Inputs : inputs'[i] # "ABSENT" <=> inputs[i] # "ABSENT"
  BY <1>2, <1>3
<1>5. Done(cursor, inputs)'
  BY <1>1, <1>4, Distinct DEF DInv, Done
<1>6. saved' # <<>> => Done(saved[1], saved[2])'
  BY <1>1 DEF DInv, Done
<1>7. Handling'
  BY <1>1, <1>2, Distinct DEF Handling
<1> QED BY <1>1, <1>4, <1>5, <1>6, <1>7 DEF DInv, Own

(* The runner takes the item after the one it took last.                   *)
LEMMA AcceptOwn ==
    ASSUME FInv, LInv, HInv, OInv, WInv, DInv, RunnerAccepts PROVE Own(accepted')
<1>1. /\ Undelivered(input) # {} /\ stage = "deliver"
      /\ accepted' = IF NextItem > RunnerCursor THEN Append(accepted, NextItem) ELSE accepted
  BY DEF RunnerAccepts
<1>2. CASE ~(NextItem > RunnerCursor)
  BY <1>1, <1>2 DEF DInv
<1>3. CASE NextItem > RunnerCursor
  <2> DEFINE n == NextItem
             a == Len(accepted) + 1
  <2>1. accepted \in Seq(Nat) /\ Own(accepted) /\ IsOutbox(outbox)
    BY DEF LInv, Agreed, DInv
  <2>2. a \in Nat /\ a - 1 \in Nat /\ RunnerAt(accepted) = a - 1 /\ RunnerCursor = a - 1
    <3>1. Len(accepted) \in Nat
      BY <2>1
    <3>2. accepted # <<>> => accepted[Len(accepted)] = Len(accepted)
      BY <2>1 DEF Own
    <3>3. RunnerAt(accepted) = Len(accepted)
      BY <2>1, <3>2 DEF RunnerAt, Last
    <3> QED BY <3>1, <3>3, RunnerAtNat
  <2>3. n \in DOMAIN outbox /\ n \in Nat /\ input \in Inputs
    BY <1>1, <2>1, NextItemIs, InputInHand DEF LInv
  <2>4. n > a - 1
    BY <1>3, <2>2
  <2>5. Len(outbox) \in Nat /\ DOMAIN outbox = 1 .. Len(outbox)
    BY <2>1 DEF IsOutbox
  <2>6. \A s \in DOMAIN outbox : s < n => outbox[s].delivered
    BY <1>1, <2>3, DeliveredBefore
  <2>7. \A s \in DOMAIN outbox : s > a - 1 => ~outbox[s].delivered
    BY <2>2 DEF OInv, Ordered
  <2>8. n = a
    <3> SUFFICES ASSUME n # a PROVE FALSE
      OBVIOUS
    <3> HIDE DEF n, a
    <3>1. a \in DOMAIN outbox /\ a < n /\ a > a - 1
      BY <2>2, <2>3, <2>4, <2>5
    <3> QED BY <2>6, <2>7, <3>1
  <2>9. accepted' = Append(accepted, Len(accepted) + 1)
    BY <1>1, <1>3, <2>8
  <2>10. \A j \in DOMAIN accepted' : accepted'[j] = j
    <3>1. /\ DOMAIN accepted' = 1 .. Len(accepted) + 1 /\ Len(accepted) \in Nat
          /\ accepted'[Len(accepted) + 1] = Len(accepted) + 1
          /\ \A j \in 1 .. Len(accepted) : accepted'[j] = accepted[j] /\ j \in DOMAIN accepted
      BY <2>1, <2>9
    <3> QED BY <2>1, <3>1 DEF Own
  <2> QED BY <2>10 DEF Own
<1> QED BY <1>2, <1>3

LEMMA CrashDone ==
    ASSUME FInv, DInv, Crash PROVE DInv'
<1>1. timers' = timers /\ Latest' = Latest /\ stage' = "down" /\ saved' = <<>>
  BY CrashStep DEF Crash
<1>2. Done(cursor, inputs)' /\ Own(accepted')
  <2>1. CASE saved # <<>>
    <3>1. cursor' = saved[1] /\ inputs' = saved[2] /\ accepted' = saved[8]
      BY <2>1 DEF Crash, RollBack
    <3> QED BY <1>1, <2>1, <3>1 DEF DInv, Done
  <2>2. CASE saved = <<>>
    <3>1. UNCHANGED <<cursor, inputs, accepted>>
      BY <2>2 DEF Crash, database
    <3> QED BY <1>1, <3>1 DEF DInv, Done
  <2> QED BY <2>1, <2>2
<1> QED BY <1>1, <1>2 DEF DInv, Handling

LEMMA StepDInv ==
    ASSUME FInv, LInv, HInv, OInv, WInv, DInv, [Next]_vars
    PROVE  DInv'
<1>1. CASE \E row \in Feed : Collect(row)
  <2>1. /\ UNCHANGED <<cursor, inputs, timers, accepted, saved, stage, input>>
        /\ \E row \in Feed : source' = Append(source, row)
    BY <1>1 DEF Collect, database, process
  <2>2. stage' \in {"audit", "deliver", "acknowledge", "finish"} => inputs[input'] # "ABSENT"
    BY <2>1 DEF DInv, Handling
  <2> QED BY <2>1, <2>2, AwayDone
<1>2. CASE Poll \/ DrainBatch
  <2>1. /\ UNCHANGED <<cursor, inputs, timers, accepted, source>> /\ stage' = "row"
        /\ \/ saved' = saved
           \/ saved'[1] = cursor /\ saved'[2] = inputs /\ saved'[8] = accepted
    BY <1>2 DEF Poll, DrainBatch, StartBatch, database, Outside
  <2> QED BY <2>1, AwayDone
<1>3. ASSUME NEW k \in Keys, NEW tick \in Ticks, Tick(k, tick) PROVE DInv'
  <2> DEFINE new == [status |-> "PREPARED", watermark |-> Latest, tick |-> tick]
  <2>1. /\ UNCHANGED <<cursor, inputs, accepted, source, saved>> /\ stage' = "drain"
        /\ timers' = [timers EXCEPT ![k] = new] /\ timers[k].status = "NONE"
    BY <1>3 DEF Tick, Watermark, Outside
  <2>2. \A j \in Keys : timers'[j] = IF j = k THEN new ELSE timers[j]
    BY <2>1 DEF FInv, Typed
  <2>3. new.status = "PREPARED"
    OBVIOUS
  <2> HIDE DEF new
  <2>4. \A j \in Keys : timers'[j].status \in {"PLANNED", "COMPLETE"} <=>
                        timers[j].status \in {"PLANNED", "COMPLETE"}
    BY <2>1, <2>2, <2>3
  <2> QED BY <2>1, <2>4, AwayDone
<1>4. ASSUME NEW r \in Rows, PlanRow(r) \/ CompleteRow(r) PROVE DInv'
  BY <1>4, PlanRowDone, CompleteRowDone
<1>5. ASSUME NEW k \in Keys, PlanTimer(k) \/ CompleteTimerInput(k) PROVE DInv'
  BY <1>5, PlanTimerDone, CompleteInputDone
<1>6. ASSUME NEW k \in Keys, CompleteTimer(k) PROVE DInv'
  <2>1. /\ UNCHANGED <<cursor, inputs, accepted, source, saved>> /\ stage' = "drain"
        /\ timers' = [timers EXCEPT ![k].status = "COMPLETE"]
        /\ stage = "finish" /\ input = Timer(k)
    BY <1>6 DEF CompleteTimer, Outside
  <2>2. timers[k].status = "PLANNED"
    BY <2>1 DEF FInv, InBatch, OffBatch, NoInput, Timer
  <2>3. \A j \in Keys : timers'[j].status = IF j = k THEN "COMPLETE" ELSE timers[j].status
    BY <2>1 DEF FInv, Typed
  <2>4. \A j \in Keys : timers'[j].status \in {"PLANNED", "COMPLETE"} <=>
                        timers[j].status \in {"PLANNED", "COMPLETE"}
    BY <2>2, <2>3
  <2> QED BY <2>1, <2>4, AwayDone
<1>7. ASSUME NEW k \in Keys, ReplayTimer(k) PROVE DInv'
  <2>1. /\ UNCHANGED <<cursor, inputs, accepted, source, saved, timers>> /\ input' = Timer(k)
        /\ timers[k].status = "PLANNED"
    BY <1>7 DEF ReplayTimer, database, Outside
  <2>2. inputs[Timer(k)] # "ABSENT"
    BY <2>1 DEF DInv, Done
  <2> QED BY <2>1, <2>2, AwayDone
<1>8. CASE RunnerAccepts
  <2>1. /\ UNCHANGED <<cursor, inputs, source, saved, timers, input>> /\ Latest' = Latest
        /\ stage = "deliver"
    BY <1>8 DEF RunnerAccepts, Outside, Latest
  <2>2. Own(accepted')
    BY <1>8, AcceptOwn
  <2>3. Done(cursor, inputs)' /\ (saved' # <<>> => Done(saved[1], saved[2])' /\ Own(saved'[8]))
    BY <2>1 DEF DInv, Done
  <2> QED BY <2>1, <2>2, <2>3 DEF DInv, Handling, Own
<1>9. CASE Crash
  BY <1>9, CrashDone
<1>10. CASE \/ \E k \in Keys : TickAgain(k)
            \/ EndDrain \/ ReplayRow \/ DeliverEvaluations \/ MarkDelivered
            \/ Restart \/ UNCHANGED vars
  <2>1. /\ UNCHANGED <<cursor, inputs, timers, source, saved, accepted, input>>
    BY <1>10 DEF TickAgain, EndDrain, ReplayRow, DeliverEvaluations, MarkDelivered, Restart,
       vars, database, process, Outside
  <2>2. stage' \in {"audit", "deliver", "acknowledge", "finish"} =>
          \/ stage \in {"audit", "deliver", "acknowledge", "finish"}
          \/ inputs[input] = "PLANNED"
    BY <1>10 DEF TickAgain, EndDrain, ReplayRow, DeliverEvaluations, MarkDelivered, Restart,
       vars, process
  <2>3. stage' \in {"audit", "deliver", "acknowledge", "finish"} => inputs[input'] # "ABSENT"
    BY <2>1, <2>2 DEF DInv, Handling
  <2> QED BY <2>1, <2>3, AwayDone
<1> QED BY <1>1, <1>2, <1>3, <1>4, <1>5, <1>6, <1>7, <1>8, <1>9, <1>10 DEF Next, Handler
-----------------------------------------------------------------------------
(* What is told does not change with an acknowledgement.                   *)
LEMMA ToldMarked ==
    ASSUME FInv, LInv, WInv, MarkDelivered PROVE Told(outbox') = Told(outbox)
<1>1. IsOutbox(outbox) /\ NextItem \in DOMAIN outbox
      /\ outbox' = [outbox EXCEPT ![NextItem].delivered = TRUE]
  BY NextItemIs DEF MarkDelivered, LInv, Agreed, Acknowledged
<1> DEFINE n == NextItem
<1>2. outbox[n] \in Entries(Events)
  BY <1>1 DEF WInv, Kept
<1>3. /\ DOMAIN outbox' = DOMAIN outbox
      /\ \A s \in DOMAIN outbox : s # n => outbox'[s] = outbox[s]
      /\ outbox'[n] = [outbox[n] EXCEPT !.delivered = TRUE]
  BY <1>1
<1>4. outbox'[n].input = outbox[n].input /\ outbox'[n].event = outbox[n].event
  BY <1>2, <1>3 DEF Entries
<1> HIDE DEF n
<1>5. \A s \in DOMAIN outbox : <<outbox'[s].input, outbox'[s].event>>
                               = <<outbox[s].input, outbox[s].event>>
  BY <1>3, <1>4
<1> QED BY <1>3, <1>5 DEF Told

LEMMA ReachedSame ==
    ASSUME NEW q, NEW f, NEW ins, NEW ins2, NEW run, NEW w, NEW o, NEW o2,
           q \in Seq(Inputs), Reached(q, f, ins, run, w, o),
           \A i \in Inputs : ins2[i] # "ABSENT" <=> ins[i] # "ABSENT",
           Told(o2) = Told(o)
    PROVE  Reached(q, f, ins2, run, w, o2)
<1>1. PICK m \in 0 .. Len(q) : ReachedAt(m, q, f, ins, run, w, o)
  BY DEF Reached
<1>2. \A p \in 1 .. Len(q) : q[p] \in Inputs
  OBVIOUS
<1>3. ReachedAt(m, q, f, ins2, run, w, o2)
  BY <1>1, <1>2 DEF ReachedAt
<1> QED BY <1>3 DEF Reached

LEMMA PlanRowReached ==
    ASSUME FInv, LInv, WInv, DInv, NEW r \in Rows, PlanRow(r),
           NEW q, NEW f, Sorted(q), Telling(q, f), Reached(q, f, inputs, runs, won, outbox)
    PROVE  Reached(q, f, inputs', runs', won', outbox')
<1> DEFINE row == source[r]
           es == RowEvents(row, Strategy)
           after == AfterRow(row, Strategy)
           i == P1(r)
<1>1. /\ inputs[i] = "ABSENT" /\ inputs' = [inputs EXCEPT ![i] = "PLANNED"]
      /\ runs' = after.runs /\ won' = after.won /\ outbox' = Post(i, es)
  BY DEF PlanRow
<1>2. r = cursor + 1 /\ InBatch
  BY PlanRowDone
<1>3. r \in 1 .. Latest /\ i \in Scheduled
  BY <1>2, IncompleteKeys DEF InBatch, Scheduled
<1>4. ASSUME NEW j \in Scheduled, Before(j, i) PROVE inputs[j] # "ABSENT"
  <2>1. At(i) = r /\ i[1] = "P1"
    BY DEF At, P1
  <2>2. At(j) < r
    BY <1>4, <2>1 DEF Before
  <2>3. CASE \E n \in 1 .. Latest : j = P1(n) /\ n \in Rows /\ At(j) = n
    <3>1. PICK n \in 1 .. Latest : j = P1(n) /\ n \in Rows /\ At(j) = n
      BY <2>3
    <3>2. n <= cursor
      BY <1>2, <2>2, <3>1, IncompleteKeys
    <3> QED BY <3>1, <3>2 DEF DInv, Done
  <2>4. CASE \E k \in Keys : j = Timer(k) /\ timers[k].status # "NONE"
                             /\ At(j) = timers[k].watermark /\ At(j) \in Nat
    <3>1. PICK k \in Keys : j = Timer(k) /\ timers[k].status # "NONE"
                            /\ At(j) = timers[k].watermark /\ At(j) \in Nat
      BY <2>4
    <3>2. k \notin Incomplete
      BY <1>2, <2>2, <3>1, IncompleteKeys DEF InBatch
    <3>3. timers[k].status = "COMPLETE"
      BY <3>1, <3>2 DEF Incomplete, FInv, Typed, Statuses
    <3> QED BY <3>1, <3>3 DEF DInv, Done
  <2> QED BY <2>3, <2>4, ScheduledIs
<1>5. es \in Seq(Events)
  <2>1. row \in RowType
    <3>1. row \in Feed
      BY <1>3 DEF FInv, Typed, Latest
    <3> HIDE DEF row
    <3> QED BY <3>1, FeedRows
  <2>2. Strategy.won \in SUBSET Roles
    BY StrategyIs DEF WInv, Kept
  <2> HIDE DEF row
  <2> QED BY <2>1, <2>2, RowEventsSay
<1>6. ASSUME NEW x, x.runs = runs, x.won = won
      PROVE  Judge(i, x) = [runs |-> after.runs, won |-> after.won,
                            log |-> x.log \o [j \in DOMAIN es |-> <<i, es[j]>>]]
  BY <1>6 DEF Judge, Strategy, P1
<1>7. outbox \in Seq(Entries(Events))
  BY DEF WInv, Kept
<1> HIDE DEF row, es, after, i
<1>8. Reached(q, f, inputs', after.runs, after.won, Post(i, es))
  BY <1>1, <1>3, <1>4, <1>5, <1>6, <1>7, ReachedPlan
<1> QED BY <1>1, <1>8

LEMMA PlanTimerReached ==
    ASSUME Driver = "DRAIN", FInv, LInv, WInv, DInv, NEW k \in Keys, PlanTimer(k),
           NEW q, NEW f, Sorted(q), Telling(q, f), Reached(q, f, inputs, runs, won, outbox)
    PROVE  Reached(q, f, inputs', runs', won', outbox')
<1> DEFINE tick == timers[k].tick
           es == TickEvents(tick, Strategy)
           after == AfterTick(tick, Strategy)
           i == Timer(k)
<1>1. /\ inputs' = [inputs EXCEPT ![i] = "PLANNED"] /\ Ready(k)
      /\ timers[k].status = "PREPARED"
      /\ runs' = after.runs /\ won' = won /\ outbox' = Post(i, es)
  BY DEF PlanTimer
<1>2. /\ timers[k].watermark = cursor
      /\ \A j \in Incomplete : j < k => timers[j].watermark # cursor
  BY <1>1, ReadyAtCursor, FirstWaiting
<1>3. i \in Scheduled /\ inputs[i] = "ABSENT"
  BY <1>1 DEF Scheduled, DInv, Done
<1>4. ASSUME NEW j \in Scheduled, Before(j, i) PROVE inputs[j] # "ABSENT"
  <2>1. At(i) = cursor /\ i[1] = "TIMER" /\ i[2] = k
    BY <1>2 DEF At, Timer
  <2>2. At(j) < cursor \/ (At(j) = cursor /\ (j[1] = "P1" \/ j[2] < k))
    BY <1>4, <2>1 DEF Before
  <2>3. CASE \E n \in 1 .. Latest : j = P1(n) /\ n \in Rows /\ At(j) = n
    <3>1. PICK n \in 1 .. Latest : j = P1(n) /\ n \in Rows /\ At(j) = n
      BY <2>3
    <3>2. n <= cursor
      BY <2>2, <3>1, IncompleteKeys
    <3> QED BY <3>1, <3>2 DEF DInv, Done
  <2>4. CASE \E n \in Keys : j = Timer(n) /\ timers[n].status # "NONE"
                             /\ At(j) = timers[n].watermark /\ At(j) \in Nat
    <3>1. PICK n \in Keys : j = Timer(n) /\ timers[n].status # "NONE"
                            /\ At(j) = timers[n].watermark /\ At(j) \in Nat
      BY <2>4
    <3>2. j[1] = "TIMER" /\ j[2] = n
      BY <3>1 DEF Timer
    <3>3. n \in Incomplete => cursor <= timers[n].watermark
      BY DEF FInv, Fenced
    <3>4. n \notin Incomplete
      BY <1>2, <2>2, <3>1, <3>2, <3>3, IncompleteKeys
    <3>5. timers[n].status = "COMPLETE"
      BY <3>1, <3>4 DEF Incomplete, FInv, Typed, Statuses
    <3> QED BY <3>1, <3>5 DEF DInv, Done
  <2> QED BY <2>3, <2>4, ScheduledIs
<1>5. es \in Seq(Events)
  <2>1. tick \in Ticking
    BY DEF FInv, Typed
  <2> HIDE DEF tick
  <2> QED BY <2>1, TickEventsSay
<1>6. ASSUME NEW x, x.runs = runs, x.won = won
      PROVE  Judge(i, x) = [runs |-> after.runs, won |-> won,
                            log |-> x.log \o [j \in DOMAIN es |-> <<i, es[j]>>]]
  <2>1. i[1] # "P1" /\ i[2] = k
    BY DEF Timer
  <2>2. after.won = won
    BY DEF AfterTick, Strategy
  <2>3. [runs |-> x.runs, won |-> x.won] = Strategy
    BY <1>6 DEF Strategy
  <2> QED BY <2>1, <2>2, <2>3 DEF Judge
<1>7. outbox \in Seq(Entries(Events))
  BY DEF WInv, Kept
<1> HIDE DEF tick, es, after, i
<1>8. Reached(q, f, inputs', after.runs, won, Post(i, es))
  BY <1>1, <1>3, <1>4, <1>5, <1>6, <1>7, ReachedPlan
<1> QED BY <1>1, <1>8

(* Steps that write the tables and leave the schedule alone.               *)
LEMMA TablesReached ==
    ASSUME Driver = "DRAIN", FInv, LInv, WInv, DInv,
           \/ \E r \in Rows : PlanRow(r) \/ CompleteRow(r)
           \/ \E k \in Keys : \/ PlanTimer(k) \/ CompleteTimerInput(k) \/ CompleteTimer(k)
                              \/ TickAgain(k) \/ ReplayTimer(k)
           \/ Poll \/ DrainBatch \/ EndDrain \/ ReplayRow \/ DeliverEvaluations
           \/ RunnerAccepts \/ MarkDelivered \/ Crash \/ Restart \/ UNCHANGED vars,
           NEW q, NEW f, Carried(q, f)
    PROVE  /\ Reached(q, f, inputs', runs', won', outbox')
           /\ saved' # <<>> => Reached(q, f, saved'[2], saved'[3], saved'[4], saved'[6])
<1>1. /\ Sorted(q) /\ Telling(q, f) /\ q \in Seq(Inputs)
      /\ Reached(q, f, inputs, runs, won, outbox)
      /\ saved # <<>> => Reached(q, f, saved[2], saved[3], saved[4], saved[6])
  BY DEF Carried, Sorted
<1>2. ASSUME NEW r \in Rows, PlanRow(r)
      PROVE  saved' = saved /\ Reached(q, f, inputs', runs', won', outbox')
  BY <1>1, <1>2, PlanRowReached DEF PlanRow
<1>3. ASSUME NEW k \in Keys, PlanTimer(k)
      PROVE  saved' = saved /\ Reached(q, f, inputs', runs', won', outbox')
  BY <1>1, <1>3, PlanTimerReached DEF PlanTimer
<1>4. ASSUME (\E r \in Rows : CompleteRow(r)) \/ (\E k \in Keys : CompleteTimerInput(k))
      PROVE  /\ saved' = saved \/ saved' = <<>>
             /\ Reached(q, f, inputs', runs', won', outbox')
  <2>1. UNCHANGED <<runs, won, outbox>> /\ (saved' = saved \/ saved' = <<>>)
    BY <1>4 DEF CompleteRow, CompleteTimerInput
  <2>2. \A i \in Inputs : inputs'[i] # "ABSENT" <=> inputs[i] # "ABSENT"
    BY <1>4, CompleteRowDone, CompleteInputDone
  <2>3. Reached(q, f, inputs', runs, won, outbox)
    BY <1>1, <2>2, ReachedSame
  <2> QED BY <2>1, <2>3
<1>5. ASSUME MarkDelivered
      PROVE  saved' = saved /\ Reached(q, f, inputs', runs', won', outbox')
  <2>1. UNCHANGED <<inputs, runs, won, saved>>
    BY <1>5 DEF MarkDelivered
  <2>2. Told(outbox') = Told(outbox)
    BY <1>5, ToldMarked
  <2>3. Reached(q, f, inputs, runs, won, outbox')
    BY <1>1, <2>2, ReachedSame
  <2> QED BY <2>1, <2>3
<1>6. ASSUME Poll \/ DrainBatch
      PROVE  /\ Reached(q, f, inputs', runs', won', outbox')
             /\ saved' # <<>> => Reached(q, f, saved'[2], saved'[3], saved'[4], saved'[6])
  <2>1. /\ UNCHANGED <<inputs, runs, won, outbox>>
        /\ \/ saved' = saved
           \/ /\ saved'[2] = inputs /\ saved'[3] = runs /\ saved'[4] = won
              /\ saved'[6] = outbox
    BY <1>6 DEF Poll, DrainBatch, StartBatch, database
  <2> QED BY <1>1, <2>1
<1>7. ASSUME Crash
      PROVE  saved' = <<>> /\ Reached(q, f, inputs', runs', won', outbox')
  <2>1. saved' = <<>>
    BY <1>7 DEF Crash
  <2>2. CASE saved # <<>>
    <3>1. inputs' = saved[2] /\ runs' = saved[3] /\ won' = saved[4] /\ outbox' = saved[6]
      BY <1>7, <2>2 DEF Crash, RollBack
    <3> QED BY <1>1, <2>1, <2>2, <3>1
  <2>3. CASE saved = <<>>
    <3>1. UNCHANGED <<inputs, runs, won, outbox>>
      BY <1>7, <2>3 DEF Crash, database
    <3> QED BY <1>1, <2>1, <3>1
  <2> QED BY <2>2, <2>3
<1>8. ASSUME \/ \E k \in Keys : CompleteTimer(k) \/ TickAgain(k) \/ ReplayTimer(k)
             \/ EndDrain \/ ReplayRow \/ DeliverEvaluations \/ RunnerAccepts
             \/ Restart \/ UNCHANGED vars
      PROVE  saved' = saved /\ Reached(q, f, inputs', runs', won', outbox')
  <2>1. UNCHANGED <<inputs, runs, won, outbox, saved>>
    BY <1>8 DEF CompleteTimer, TickAgain, ReplayTimer, EndDrain, ReplayRow,
       DeliverEvaluations, RunnerAccepts, Restart, vars, database
  <2> QED BY <1>1, <2>1
<1> QED BY <1>1, <1>2, <1>3, <1>4, <1>5, <1>6, <1>7, <1>8

LEMMA QuietSchedule ==
    ASSUME FInv, LInv, [Next]_vars,
           ~(\E row \in Feed : Collect(row)),
           ~(\E k \in Keys : \E tick \in Ticks : Tick(k, tick))
    PROVE  Stays /\ Scheduled' = Scheduled
<1>1. timers \in [Keys -> [status : Statuses, watermark : Nat, tick : Ticking]]
  BY DEF FInv, Typed
<1>2. ASSUME NEW k \in Keys, PlanTimer(k) \/ CompleteTimer(k)
      PROVE  /\ source' = source
             /\ \A j \in Keys : /\ timers'[j].status = "NONE" <=> timers[j].status = "NONE"
                                /\ timers'[j].watermark = timers[j].watermark
                                /\ timers'[j].tick = timers[j].tick
  <2>1. /\ source' = source
        /\ \E st \in {"PLANNED", "COMPLETE"} : timers' = [timers EXCEPT ![k].status = st]
        /\ timers[k].status # "NONE"
    BY <1>2 DEF PlanTimer, CompleteTimer, Outside, FInv, InBatch, OffBatch, NoInput, Timer
  <2>2. PICK st \in {"PLANNED", "COMPLETE"} : timers' = [timers EXCEPT ![k].status = st]
    BY <2>1
  <2>3. \A j \in Keys : /\ timers'[j].status = IF j = k THEN st ELSE timers[j].status
                        /\ timers'[j].watermark = timers[j].watermark
                        /\ timers'[j].tick = timers[j].tick
    BY <1>1, <2>2
  <2> QED BY <2>1, <2>3
<1>3. CASE Crash
  <2>1. timers' = timers /\ source' = source
    BY <1>3, CrashStep DEF Crash
  <2> QED BY <2>1, ScheduleStays DEF Scheduled, Latest
<1>4. CASE \/ \E r \in Rows : PlanRow(r) \/ CompleteRow(r)
           \/ \E k \in Keys : CompleteTimerInput(k) \/ TickAgain(k) \/ ReplayTimer(k)
           \/ Poll \/ DrainBatch \/ EndDrain \/ ReplayRow \/ DeliverEvaluations
           \/ RunnerAccepts \/ MarkDelivered \/ Restart \/ UNCHANGED vars
  <2>1. timers' = timers /\ source' = source
    BY <1>4 DEF PlanRow, CompleteRow, CompleteTimerInput, TickAgain, ReplayTimer, Poll,
       DrainBatch, StartBatch, EndDrain, ReplayRow, DeliverEvaluations, RunnerAccepts,
       MarkDelivered, Restart, vars, database, Outside
  <2> QED BY <2>1, ScheduleStays DEF Scheduled, Latest
<1>5. ASSUME NEW k \in Keys, PlanTimer(k) \/ CompleteTimer(k)
      PROVE  Stays /\ Scheduled' = Scheduled
  <2>1. /\ source' = source /\ Latest' = Latest
        /\ \A j \in Keys : /\ timers'[j].status = "NONE" <=> timers[j].status = "NONE"
                           /\ timers'[j].watermark = timers[j].watermark
                           /\ timers'[j].tick = timers[j].tick
    BY <1>2, <1>5 DEF Latest
  <2>2. Stays
    BY <2>1, ScheduleStays
  <2>3. {j \in Keys : timers'[j].status # "NONE"} = {j \in Keys : timers[j].status # "NONE"}
    BY <2>1
  <2> QED BY <2>1, <2>2, <2>3 DEF Scheduled
<1> QED BY <1>3, <1>4, <1>5 DEF Next, Handler

(* A row that the collector appends comes after everything scheduled.      *)
LEMMA CollectSchedule ==
    ASSUME FInv, LInv, WInv, DInv, NEW row \in Feed, Collect(row)
    PROVE  /\ Stays
           /\ \E new \in Inputs : /\ Scheduled' = Scheduled \cup {new}
                                  /\ \A i \in Scheduled : Before(i, new)'
                                  /\ inputs[new] = "ABSENT"
                                  /\ saved # <<>> => saved[2][new] = "ABSENT"
<1>1. /\ source' = Append(source, row) /\ source \in Seq(Feed) /\ timers' = timers
      /\ Latest < MaxRows /\ Latest \in Nat /\ Latest' = Latest + 1
      /\ \A n \in 1 .. Latest : source'[n] = source[n]
  BY DEF Collect, database, FInv, Typed, Latest
<1>2. Latest \in Nat => Latest' \in Nat /\ Latest <= Latest'
  BY <1>1
<1>3. \A k \in Keys : timers[k].status # "NONE" =>
         /\ timers'[k].status # "NONE"
         /\ timers'[k].watermark = timers[k].watermark
         /\ timers'[k].tick = timers[k].tick
  BY <1>1
<1>4. Stays
  BY <1>1, <1>2, <1>3, ScheduleStays
<1>5. PICK r : r = Latest + 1
  OBVIOUS
<1>6. PICK new : new = P1(r)
  OBVIOUS
<1>7. r \in Rows /\ new \in Inputs /\ new[1] = "P1" /\ new[2] = r
  BY <1>1, <1>5, <1>6, BoundAssumption, Distinct DEF Rows, P1
<1>8. Scheduled' = Scheduled \cup {new}
  <2>1. 1 .. Latest' = (1 .. Latest) \cup {r}
    BY <1>1, <1>5
  <2> QED BY <1>1, <1>6, <2>1 DEF Scheduled
<1>9. ASSUME NEW CONSTANT i, i \in Scheduled PROVE Before(i, new)'
  <2>1. At(i)' = At(i)
    BY <1>4, <1>9 DEF Stays
  <2>2. At(i) \in Nat /\ At(i) <= Latest
    <3>1. \A k \in Keys : timers[k].watermark <= Latest
      BY DEF WInv
    <3>2. CASE \E n \in 1 .. Latest : At(i) = n
      BY <1>1, <3>2
    <3>3. CASE \E k \in Keys : At(i) = timers[k].watermark /\ At(i) \in Nat
      BY <3>1, <3>3
    <3> QED BY <1>9, <3>2, <3>3, ScheduledIs
  <2>3. At(new)' = r
    BY <1>7 DEF At
  <2>4. At(i)' < At(new)'
    BY <1>1, <1>5, <2>1, <2>2, <2>3
  <2> QED BY <2>4 DEF Before
<1>10. ~(r <= Latest)
  BY <1>1, <1>5
<1>11. inputs[new] = "ABSENT"
  <2>1. inputs[P1(r)] # "ABSENT" => r <= Latest
    BY <1>7 DEF DInv, Done
  <2> QED BY <1>6, <1>10, <2>1
<1>12. saved # <<>> => saved[2][new] = "ABSENT"
  <2>1. saved # <<>> => (saved[2][P1(r)] # "ABSENT" => r <= Latest)
    BY <1>7 DEF DInv, Done
  <2> QED BY <1>6, <1>10, <2>1
<1> QED BY <1>4, <1>7, <1>8, <1>9, <1>11, <1>12

(* So does a timer that is prepared: it captures the last row.             *)
LEMMA TickSchedule ==
    ASSUME FInv, LInv, HInv, WInv, DInv, NEW k \in Keys, NEW tick \in Ticks, Tick(k, tick)
    PROVE  /\ Stays
           /\ \E new \in Inputs : /\ Scheduled' = Scheduled \cup {new}
                                  /\ \A i \in Scheduled : Before(i, new)'
                                  /\ inputs[new] = "ABSENT"
<1> DEFINE row == [status |-> "PREPARED", watermark |-> Latest, tick |-> tick]
<1>1. /\ source' = source /\ Latest' = Latest /\ timers' = [timers EXCEPT ![k] = row]
      /\ timers[k].status = "NONE" /\ Latest \in Nat
  BY DEF Tick, Watermark, Outside, Latest, FInv, Typed
<1>2. \A j \in Keys : timers'[j] = IF j = k THEN row ELSE timers[j]
  BY <1>1 DEF FInv, Typed
<1>3. Latest \in Nat => Latest' \in Nat /\ Latest <= Latest'
  BY <1>1
<1>4. \A j \in Keys : timers[j].status # "NONE" =>
         /\ timers'[j].status # "NONE"
         /\ timers'[j].watermark = timers[j].watermark
         /\ timers'[j].tick = timers[j].tick
  BY <1>1, <1>2
<1>5. Stays
  BY <1>1, <1>3, <1>4, ScheduleStays
<1>6. PICK new : new = Timer(k)
  OBVIOUS
<1>7. new \in Inputs /\ new[1] = "TIMER" /\ new[1] # "P1" /\ new[2] = k
  BY <1>6, Distinct DEF Timer
<1>8. Scheduled' = Scheduled \cup {new}
  <2>1. {j \in Keys : timers'[j].status # "NONE"}
          = {j \in Keys : timers[j].status # "NONE"} \cup {k}
    BY <1>1, <1>2
  <2>2. {Timer(j) : j \in {i \in Keys : timers'[i].status # "NONE"}}
          = {Timer(j) : j \in {i \in Keys : timers[i].status # "NONE"}} \cup {new}
    BY <1>6, <2>1
  <2> QED BY <1>1, <2>2 DEF Scheduled
<1>9. timers'[k].watermark = Latest
  BY <1>2
<1>10. \A j \in Keys : timers[j].status # "NONE" => j < k
  <2>1. ASSUME NEW j \in Keys, timers[j].status # "NONE", k < j PROVE FALSE
    BY <1>1, <2>1 DEF HInv, InKeyOrder
  <2> QED BY <1>1, <2>1 DEF Keys
<1>11. ASSUME NEW CONSTANT i, i \in Scheduled PROVE Before(i, new)'
  <2>1. At(i)' = At(i)
    BY <1>5, <1>11 DEF Stays
  <2>2. At(new)' = Latest
    BY <1>7, <1>9 DEF At
  <2>3. CASE \E n \in 1 .. Latest : i = P1(n) /\ At(i) = n
    <3>1. i[1] = "P1" /\ At(i) \in 1 .. Latest
      BY <2>3 DEF P1
    <3>2. At(i)' < At(new)' \/ At(i)' = At(new)'
      BY <1>1, <2>1, <2>2, <3>1
    <3> QED BY <1>7, <3>1, <3>2 DEF Before
  <2>4. CASE \E j \in Keys : /\ i = Timer(j) /\ timers[j].status # "NONE"
                             /\ At(i) = timers[j].watermark /\ At(i) \in Nat
    <3>1. PICK j \in Keys : /\ i = Timer(j) /\ timers[j].status # "NONE"
                            /\ At(i) = timers[j].watermark /\ At(i) \in Nat
      BY <2>4
    <3>2. i[2] = j /\ j < k
      BY <1>10, <3>1 DEF Timer
    <3>3. At(i) <= Latest
      BY <3>1 DEF WInv
    <3>4. At(i)' < At(new)' \/ At(i)' = At(new)'
      BY <1>1, <2>1, <2>2, <3>1, <3>3
    <3> QED BY <1>7, <3>2, <3>4 DEF Before
  <2> QED BY <1>11, <2>3, <2>4, ScheduledIs
<1>12. inputs[new] = "ABSENT"
  <2>1. inputs[Timer(k)] # "ABSENT" <=> timers[k].status \in {"PLANNED", "COMPLETE"}
    BY DEF DInv, Done
  <2> QED BY <1>1, <1>6, <2>1
<1> QED BY <1>5, <1>7, <1>8, <1>11, <1>12

(* The carried schedule takes a new input at its end.                      *)
LEMMA CarriedMore ==
    ASSUME Stays, UNCHANGED <<inputs, runs, won, outbox, saved>>,
           NEW CONSTANT q, NEW CONSTANT f, Carried(q, f),
           NEW CONSTANT new, new \in Inputs,
           Scheduled' = Scheduled \cup {new},
           \A i \in Scheduled : Before(i, new)',
           inputs[new] = "ABSENT", saved # <<>> => saved[2][new] = "ABSENT"
    PROVE  \E q2, f2 : Carried(q2, f2)'
<1>1. /\ Sorted(q) /\ Telling(q, f) /\ q \in Seq(Inputs)
      /\ Reached(q, f, inputs, runs, won, outbox)
      /\ saved # <<>> => Reached(q, f, saved[2], saved[3], saved[4], saved[6])
  BY DEF Carried, Sorted
<1>2. PICK more : more = Append(q, new)
  OBVIOUS
<1>3. Sorted(more)'
  BY <1>1, <1>2, SortedMore
<1>4. \E g : /\ Telling(more, g)'
             /\ \A p \in 0 .. Len(q) : g[p] = f[p]
  BY <1>1, <1>2, TellingMore
<1>5. PICK g : /\ Telling(more, g)'
               /\ \A p \in 0 .. Len(q) : g[p] = f[p]
  BY <1>4
<1>6. Reached(more, g, inputs, runs, won, outbox)
  BY <1>1, <1>2, <1>5, ReachedMore
<1>7. saved # <<>> => Reached(more, g, saved[2], saved[3], saved[4], saved[6])
  BY <1>1, <1>2, <1>5, ReachedMore
<1>8. Carried(more, g)'
  BY <1>3, <1>5, <1>6, <1>7 DEF Carried, Reached, ReachedAt
<1> QED BY <1>8

LEMMA StepCarried ==
    ASSUME Driver = "DRAIN", FInv, LInv, HInv, WInv, DInv, [Next]_vars,
           NEW CONSTANT q, NEW CONSTANT f, Carried(q, f)
    PROVE  \E q2, f2 : Carried(q2, f2)'
<1>1. CASE \E row \in Feed : Collect(row)
  <2>1. PICK row \in Feed : Collect(row)
    BY <1>1
  <2>2. UNCHANGED <<inputs, runs, won, outbox, saved>>
    BY <2>1 DEF Collect, database
  <2>3. /\ Stays
        /\ \E new \in Inputs : /\ Scheduled' = Scheduled \cup {new}
                               /\ \A i \in Scheduled : Before(i, new)'
                               /\ inputs[new] = "ABSENT"
                               /\ saved # <<>> => saved[2][new] = "ABSENT"
    BY <2>1, CollectSchedule
  <2> QED BY <2>2, <2>3, CarriedMore
<1>2. CASE \E k \in Keys : \E tick \in Ticks : Tick(k, tick)
  <2>1. PICK k \in Keys, tick \in Ticks : Tick(k, tick)
    BY <1>2
  <2>2. UNCHANGED <<inputs, runs, won, outbox, saved>> /\ stage = "idle"
    BY <2>1 DEF Tick
  <2>3. saved = <<>>
    BY <2>2 DEF FInv, InBatch, OffBatch
  <2>4. /\ Stays
        /\ \E new \in Inputs : /\ Scheduled' = Scheduled \cup {new}
                               /\ \A i \in Scheduled : Before(i, new)'
                               /\ inputs[new] = "ABSENT"
    BY <2>1, TickSchedule
  <2> QED BY <2>2, <2>3, <2>4, CarriedMore
<1>3. CASE /\ ~(\E row \in Feed : Collect(row))
           /\ ~(\E k \in Keys : \E tick \in Ticks : Tick(k, tick))
  <2>1. Stays /\ Scheduled' = Scheduled
    BY <1>3, QuietSchedule
  <2>2. Sorted(q) /\ Telling(q, f)
    BY DEF Carried
  <2>3. Sorted(q)' /\ Telling(q, f)'
    BY <2>1, <2>2, SortedStays, TellingStays
  <2>4. /\ Reached(q, f, inputs', runs', won', outbox')
        /\ saved' # <<>> => Reached(q, f, saved'[2], saved'[3], saved'[4], saved'[6])
    <3>1. \/ \E r \in Rows : PlanRow(r) \/ CompleteRow(r)
          \/ \E k \in Keys : \/ PlanTimer(k) \/ CompleteTimerInput(k) \/ CompleteTimer(k)
                             \/ TickAgain(k) \/ ReplayTimer(k)
          \/ Poll \/ DrainBatch \/ EndDrain \/ ReplayRow \/ DeliverEvaluations
          \/ RunnerAccepts \/ MarkDelivered \/ Crash \/ Restart \/ UNCHANGED vars
      BY <1>3 DEF Next, Handler
    <3> QED BY <3>1, TablesReached
  <2>5. Carried(q, f)'
    BY <2>3, <2>4 DEF Carried, Reached, ReachedAt
  <2> QED BY <2>5
<1> QED BY <1>1, <1>2, <1>3

LEMMA InitCInv == Init => CInv
<1> SUFFICES ASSUME Init PROVE CInv
  OBVIOUS
<1>1. source = <<>> /\ Latest = 0
  BY DEF Init, Latest
<1>2. \A i \in Inputs : inputs[i] = "ABSENT"
  BY DEF Init
<1>3. \A k \in Keys : timers[k].status = "NONE"
  BY DEF Init
<1>4. outbox = <<>> /\ accepted = <<>> /\ saved = <<>> /\ stage = "idle"
      /\ runs = [r \in Roles |-> "ABSENT"] /\ won = {} /\ cursor = 0
  BY DEF Init
<1>5. DInv
  <2>1. \A r \in Rows : inputs[P1(r)] = "ABSENT" /\ r > 0 /\ r \in Nat
    BY <1>2, Distinct DEF Rows
  <2>2. \A k \in Keys : inputs[Timer(k)] = "ABSENT"
    BY <1>2, Distinct
  <2>3. Done(cursor, inputs)
    BY <1>3, <1>4, <2>1, <2>2 DEF Done
  <2>4. Own(accepted) /\ Handling
    BY <1>4 DEF Own, Handling
  <2> QED BY <1>4, <2>3, <2>4 DEF DInv
<1>6. Scheduled = {}
  BY <1>1, <1>3 DEF Scheduled
<1>7. PICK q : q = <<>>
  OBVIOUS
<1>8. PICK f : f = [p \in 0 .. 0 |-> Fresh]
  OBVIOUS
<1>9. q \in Seq(Inputs) /\ Len(q) = 0
  BY <1>7
<1>10. Sorted(q)
  BY <1>6, <1>9 DEF Sorted
<1>11. f[0] = Fresh /\ Fresh.log = <<>>
  BY <1>8 DEF Fresh
<1>12. Telling(q, f)
  <2>1. \A a \in 0 .. 0 : f[a].log = <<>>
    BY <1>11
  <2>2. IsEvents(<<>>) /\ Begins(<<>>, <<>>)
    BY DEF IsEvents, Begins
  <2>3. f = [p \in 0 .. Len(q) |-> f[p]]
    BY <1>8, <1>9
  <2> QED BY <1>9, <1>11, <2>1, <2>2, <2>3 DEF Telling
<1>13. Reached(q, f, inputs, runs, won, outbox)
  <2>1. Told(outbox) = <<>>
    BY <1>4 DEF Told
  <2>2. f[0].runs = runs /\ f[0].won = won
    BY <1>4, <1>11 DEF Fresh
  <2>3. ReachedAt(0, q, f, inputs, runs, won, outbox)
    BY <1>9, <1>11, <2>1, <2>2 DEF ReachedAt
  <2> QED BY <1>9, <2>3 DEF Reached
<1>14. Carried(q, f)
  BY <1>4, <1>10, <1>12, <1>13 DEF Carried
<1> QED BY <1>5, <1>14 DEF CInv

LEMMA AlwaysCInv ==
    ASSUME Driver = "DRAIN" PROVE Spec => [](FInv /\ LInv /\ WInv /\ CInv)
<1>1. FInv /\ LInv /\ HInv /\ OInv /\ WInv /\ CInv /\ [Next]_vars => CInv'
  <2> SUFFICES ASSUME FInv, LInv, HInv, OInv, WInv, CInv, [Next]_vars PROVE CInv'
    OBVIOUS
  <2>1. DInv /\ DInv'
    BY StepDInv DEF CInv
  <2>2. PICK q, f : Carried(q, f)
    BY DEF CInv
  <2>3. \E q2, f2 : Carried(q2, f2)'
    BY <2>1, <2>2, StepCarried
  <2> QED BY <2>1, <2>3 DEF CInv
<1>2. Init => FInv /\ LInv /\ HInv /\ OInv /\ WInv /\ CInv
  BY InitFInv, InitLInv, InitHInv, InitOInv, InitWInv, InitCInv
<1>3. FInv /\ LInv /\ HInv /\ OInv /\ [Next]_vars => FInv' /\ LInv' /\ HInv' /\ OInv'
  BY StepFInv, StepLInv, StepHInv, StepOInv
<1> QED BY <1>1, <1>2, <1>3, AlwaysWInv, PTL DEF Spec
-----------------------------------------------------------------------------
(* The elements of a sequence without repetitions, counted.                *)
LEMMA CountsDistinct ==
    ASSUME NEW S, NEW n \in Nat, NEW h,
           \A b \in 1 .. n : h[b] \in S,
           \A s \in S : \E b \in 1 .. n : h[b] = s,
           \A a, b \in 1 .. n : h[a] = h[b] => a = b
    PROVE  Cardinality(S) = n
<1> DEFINE g == [b \in 1 .. n |-> h[b]]
<1>1. g \in Injection(1 .. n, S)
  BY DEF Injection, IsInjective
<1>2. g \in Surjection(1 .. n, S)
  BY DEF Surjection
<1>3. ExistsBijection(1 .. n, S)
  BY <1>1, <1>2 DEF ExistsBijection, Bijection
<1> QED BY <1>3, FS_CountingElements

(* The carried sequence is the schedule.                                   *)
LEMMA ScheduleIs ==
    ASSUME FInv, LInv, NEW q, Sorted(q)
    PROVE  Schedule = q
<1> DEFINE n == Len(q)
<1>1. n \in Nat /\ q \in Seq(Inputs) /\ DOMAIN q = 1 .. n
  BY DEF Sorted
<1>2. \A a \in 1 .. n : q[a] \in Scheduled
  BY DEF Sorted
<1>3. \A i \in Scheduled : \E a \in 1 .. n : q[a] = i
  BY DEF Sorted
<1>4. \A a, b \in 1 .. n : a < b => Before(q[a], q[b])
  BY DEF Sorted
<1> HIDE DEF n
<1>5. ASSUME NEW a \in 1 .. n, NEW b \in 1 .. n
      PROVE  /\ q[a] = q[b] => a = b
             /\ Before(q[a], q[b]) <=> a < b
  <2>1. /\ ~Before(q[a], q[a])
        /\ Before(q[b], q[a]) => ~Before(q[a], q[b])
    BY <1>2, BeforeStrict
  <2>2. a < b \/ a = b \/ b < a
    BY <1>1
  <2>3. ~(a < a) /\ (b < a => ~(a < b))
    BY <1>1
  <2> QED BY <1>4, <2>1, <2>2, <2>3
<1>6. Cardinality(Scheduled) = n
  BY <1>1, <1>2, <1>3, <1>5, CountsDistinct
<1>7. ASSUME NEW p \in 1 .. n PROVE Place(q[p]) = p
  <2> DEFINE S == {j \in Scheduled : Before(j, q[p])}
  <2>1. p - 1 \in Nat /\ \A b \in 1 .. p - 1 : b \in 1 .. n /\ b < p
    BY <1>1
  <2>2. \A b \in 1 .. p - 1 : q[b] \in S
    BY <1>2, <1>4, <2>1
  <2>3. ASSUME NEW s \in S PROVE \E b \in 1 .. p - 1 : q[b] = s
    <3>1. PICK b \in 1 .. n : q[b] = s
      BY <1>3
    <3>2. b < p
      BY <1>5, <3>1
    <3>3. b \in 1 .. p - 1
      BY <1>1, <3>2
    <3> QED BY <3>1, <3>3
  <2>4. \A a, b \in 1 .. p - 1 : q[a] = q[b] => a = b
    BY <1>5, <2>1
  <2>5. Place(q[p]) = Cardinality(S) + 1
    BY DEF Place
  <2> HIDE DEF S
  <2>6. Cardinality(S) = p - 1
    BY <2>1, <2>2, <2>3, <2>4, CountsDistinct
  <2> QED BY <1>1, <2>5, <2>6
<1>8. ASSUME NEW p \in 1 .. n PROVE (CHOOSE i \in Scheduled : Place(i) = p) = q[p]
  <2>1. q[p] \in Scheduled /\ Place(q[p]) = p
    BY <1>2, <1>7
  <2>2. \A i \in Scheduled : Place(i) = p => i = q[p]
    BY <1>3, <1>7
  <2> QED BY <2>1, <2>2
<1>9. Schedule = [p \in 1 .. n |-> q[p]]
  BY <1>6, <1>8 DEF Schedule
<1> QED BY <1>1, <1>9

(* The log that the specification defines is the one carried along.        *)
JudgedBy(q) ==
    CHOOSE g : g = [p \in 0 .. Len(q) |->
                      IF p = 0 THEN Fresh ELSE Judge(q[p], g[p - 1])]

LEMMA CausalLogIs ==
    ASSUME FInv, LInv, NEW q, NEW f, Sorted(q), Telling(q, f)
    PROVE  CausalLog = f[Len(q)].log
<1> DEFINE n == Len(q)
           Judges(g) == g = [p \in 0 .. n |-> IF p = 0 THEN Fresh ELSE Judge(q[p], g[p - 1])]
<1>1. n \in Nat
  BY DEF Sorted
<1>2. /\ f = [p \in 0 .. n |-> f[p]] /\ f[0] = Fresh
      /\ \A p \in 1 .. n : f[p] = Judge(q[p], f[p - 1])
  BY DEF Telling
<1> HIDE DEF n
<1>3. Judges(f)
  <2>1. ASSUME NEW p \in 0 .. n
        PROVE  f[p] = IF p = 0 THEN Fresh ELSE Judge(q[p], f[p - 1])
    <3>1. p = 0 \/ p \in 1 .. n
      BY <1>1
    <3> QED BY <1>2, <3>1
  <2> QED BY <1>2, <2>1
<1>4. ASSUME NEW g, Judges(g) PROVE g = f
  <2>1. /\ g = [p \in 0 .. n |-> g[p]] /\ g[0] = Fresh
        /\ \A p \in 1 .. n : g[p] = Judge(q[p], g[p - 1])
    <3>1. \A p \in 0 .. n : g[p] = IF p = 0 THEN Fresh ELSE Judge(q[p], g[p - 1])
      BY <1>4
    <3>2. 0 \in 0 .. n /\ \A p \in 1 .. n : p \in 0 .. n /\ p # 0
      BY <1>1
    <3>3. g = [p \in 0 .. n |-> g[p]]
      BY <1>4
    <3> QED BY <3>1, <3>2, <3>3
  <2> DEFINE Bad == {p \in 0 .. n : g[p] # f[p]}
  <2>2. ASSUME Bad # {} PROVE FALSE
    <3>1. Bad \subseteq Nat
      BY <1>1
    <3>2. Min(Bad) \in Bad /\ \A x \in Bad : Min(Bad) <= x
      <4> HIDE DEF Bad
      <4> QED BY <2>2, <3>1, LeastIn
    <3>3. PICK p \in Bad : \A x \in Bad : p <= x
      BY <3>2
    <3>4. p \in 0 .. n /\ g[p] # f[p]
      OBVIOUS
    <3>5. p \in 1 .. n /\ p - 1 \in 0 .. n /\ ~(p <= p - 1)
      BY <1>1, <1>2, <2>1, <3>4
    <3>6. g[p - 1] = f[p - 1]
      BY <3>3, <3>5
    <3> QED BY <1>2, <2>1, <3>4, <3>5, <3>6
  <2>3. \A p \in 0 .. n : g[p] = f[p]
    BY <2>2
  <2> QED BY <1>2, <2>1, <2>3
<1>5. JudgedBy(q) = f
  <2>1. JudgedBy(q) = CHOOSE g : Judges(g)
    BY DEF JudgedBy, n
  <2> HIDE DEF Judges
  <2> QED BY <1>3, <1>4, <2>1
<1>6. Schedule = q
  BY ScheduleIs
<1>7. CausalLog = JudgedBy(Schedule)[Len(Schedule)].log
  BY DEF CausalLog, JudgedBy
<1> QED BY <1>5, <1>6, <1>7

(* Under the active drain the runner sees a prefix of the causal log: what *)
(* _plan_record and execute_prepared_timer write, and _drain_input hands   *)
(* over, is the strategy judging every row and timer once and in the order *)
(* of rows and fences, whatever crashes and replays happen in between.     *)
THEOREM CausalOrderAlways ==
    ASSUME Driver = "DRAIN"
    PROVE  Spec => []CausalOrder
<1>1. FInv /\ LInv /\ WInv /\ CInv => CausalOrder
  <2> SUFFICES ASSUME FInv, LInv, WInv, CInv PROVE CausalOrder
    OBVIOUS
  <2>1. PICK q, f : Carried(q, f)
    BY DEF CInv
  <2>2. Sorted(q) /\ Telling(q, f)
    BY <2>1 DEF Carried
  <2>3. PICK m \in 0 .. Len(q) : ReachedAt(m, q, f, inputs, runs, won, outbox)
    BY <2>1 DEF Carried, Reached
  <2>4. PICK sofar : sofar = f[m].log
    OBVIOUS
  <2>5. PICK whole : whole = f[Len(q)].log
    OBVIOUS
  <2>6. CausalLog = whole
    BY <2>2, <2>5, CausalLogIs
  <2>7. Len(q) \in Nat /\ Len(q) \in 0 .. Len(q) /\ m <= Len(q)
    BY <2>2 DEF Sorted
  <2>8. IsEvents(sofar) /\ IsEvents(whole) /\ Begins(sofar, whole)
    BY <2>2, <2>3, <2>4, <2>5, <2>7 DEF Telling
  <2>9. sofar = Told(outbox)
    BY <2>3, <2>4 DEF ReachedAt
  <2>10. /\ outbox \in Seq(Entries(Events)) /\ accepted \in Seq(DOMAIN outbox)
         /\ \A j \in DOMAIN accepted : accepted[j] = j
    BY DEF WInv, Kept, CInv, DInv, Own
  <2>11. /\ DOMAIN outbox = 1 .. Len(outbox) /\ Len(outbox) \in Nat
         /\ DOMAIN accepted = 1 .. Len(accepted) /\ Len(accepted) \in Nat
         /\ \A j \in DOMAIN accepted : accepted[j] \in DOMAIN outbox
    BY <2>10
  <2>12. \A j \in 1 .. Len(accepted) : j \in DOMAIN outbox
    BY <2>10, <2>11
  <2>13. Len(accepted) <= Len(outbox)
    BY <2>11, <2>12
  <2>14. Len(sofar) = Len(outbox)
    <3>1. DOMAIN sofar = DOMAIN outbox
      BY <2>9 DEF Told
    <3> QED BY <2>8, <2>11, <3>1 DEF IsEvents
  <2>15. /\ Len(Seen) = Len(accepted)
         /\ \A j \in 1 .. Len(accepted) : Seen[j] = sofar[j]
    <3>1. \A s \in DOMAIN outbox : sofar[s] = <<outbox[s].input, outbox[s].event>>
      BY <2>9 DEF Told
    <3>2. Seen = [j \in 1 .. Len(accepted) |->
                    <<outbox[accepted[j]].input, outbox[accepted[j]].event>>]
      BY <2>11 DEF Seen
    <3>3. DOMAIN Seen = 1 .. Len(accepted)
      BY <3>2
    <3>4. Len(Seen) = Len(accepted)
      BY <2>11, <3>2
    <3>5. ASSUME NEW j \in 1 .. Len(accepted) PROVE Seen[j] = sofar[j]
      <4>1. accepted[j] = j /\ j \in DOMAIN outbox
        BY <2>10, <2>11, <2>12
      <4>2. Seen[j] = <<outbox[accepted[j]].input, outbox[accepted[j]].event>>
        BY <3>2
      <4> QED BY <3>1, <4>1, <4>2
    <3> QED BY <3>4, <3>5
  <2>16. /\ Len(accepted) <= Len(whole)
         /\ \A j \in 1 .. Len(accepted) : Seen[j] = whole[j]
    <3>1. Len(sofar) <= Len(whole) /\ Len(whole) \in Nat
      BY <2>8 DEF Begins, IsEvents
    <3>2. \A j \in 1 .. Len(accepted) : j \in 1 .. Len(sofar)
      BY <2>11, <2>13, <2>14
    <3>3. \A j \in 1 .. Len(accepted) : sofar[j] = whole[j]
      BY <2>8, <3>2 DEF Begins
    <3> QED BY <2>11, <2>13, <2>14, <2>15, <3>1, <3>3
  <2>17. SubSeq(Seen, 1, Len(Seen)) = SubSeq(whole, 1, Len(Seen))
    <3>1. SubSeq(Seen, 1, Len(Seen)) = [j \in 1 .. Len(accepted) |-> Seen[j]]
      BY <2>11, <2>15
    <3>2. SubSeq(whole, 1, Len(Seen)) = [j \in 1 .. Len(accepted) |-> whole[j]]
      BY <2>11, <2>15
    <3> QED BY <2>16, <3>1, <3>2
  <2> QED BY <2>6, <2>15, <2>16, <2>17 DEF CausalOrder, IsPrefix
<1> QED BY <1>1, AlwaysCInv, PTL
-----------------------------------------------------------------------------
(***************************************************************************)
(* What the drains rest on: nothing is taken back but by the rollback of a *)
(* batch, the handler is never stuck, and each of its steps goes on.       *)
(***************************************************************************)
Phase(s) == CASE s \in {"NONE", "ABSENT"} -> 0 [] s = "PREPARED" -> 1
              [] s = "PLANNED" -> 2 [] s = "COMPLETE" -> 3

OnlyForward ==
    /\ cursor <= cursor'
    /\ \A i \in Inputs : Phase(inputs[i]) <= Phase(inputs'[i])
    /\ \A r \in Roles : runs[r] \in {"SIGNALED", "FINISHED"} => runs'[r] = runs[r]
    /\ won \subseteq won'
    /\ \A s \in DOMAIN outbox :
         /\ s \in DOMAIN outbox'
         /\ outbox'[s].input = outbox[s].input /\ outbox'[s].event = outbox[s].event
         /\ outbox[s].delivered => outbox'[s].delivered
    /\ \A k \in Keys :
         /\ Phase(timers[k].status) <= Phase(timers'[k].status)
         /\ timers[k].status # "NONE" =>
              timers'[k].watermark = timers[k].watermark /\ timers'[k].tick = timers[k].tick
    /\ accepted' = accepted \/ \E n \in DOMAIN outbox : accepted' = Append(accepted, n)

LEMMA Phases ==
    /\ Phase("NONE") = 0 /\ Phase("ABSENT") = 0 /\ Phase("PREPARED") = 1
    /\ Phase("PLANNED") = 2 /\ Phase("COMPLETE") = 3
BY DEF Phase

(* What a step leaves alone has not been taken back.                       *)
LEMMA Unmoved ==
    ASSUME FInv, LInv
    PROVE  /\ cursor \in Nat
           /\ \A i \in Inputs : Phase(inputs[i]) <= Phase(inputs[i])
           /\ \A k \in Keys : Phase(timers[k].status) <= Phase(timers[k].status)
<1>1. cursor \in Nat /\ \A k \in Keys : timers[k].status \in Statuses
  BY DEF FInv, Typed
<1>2. \A i \in Inputs : inputs[i] \in InStates
  BY DEF LInv, Agreed
<1>3. \A s \in Statuses \cup InStates : Phase(s) \in Nat
  BY Phases DEF Statuses, InStates
<1>4. \A i \in Inputs : Phase(inputs[i]) \in Nat
  BY <1>2, <1>3
<1>5. \A k \in Keys : Phase(timers[k].status) \in Nat
  BY <1>1, <1>3
<1> QED BY <1>1, <1>4, <1>5

LEMMA TablesForward ==
    ASSUME FInv, LInv, UNCHANGED <<cursor, inputs, runs, won, outbox, timers, accepted>>
    PROVE  OnlyForward
BY Unmoved DEF OnlyForward

LEMMA InputForward ==
    ASSUME FInv, LInv, NEW i \in Inputs, NEW v, inputs' = [inputs EXCEPT ![i] = v],
           Phase(inputs[i]) <= Phase(v)
    PROVE  \A u \in Inputs : Phase(inputs[u]) <= Phase(inputs'[u])
<1>1. \A u \in Inputs : inputs'[u] = IF u = i THEN v ELSE inputs[u]
  BY DEF LInv, Agreed
<1> QED BY <1>1, Unmoved

LEMMA CompleteForward ==
    ASSUME FInv, LInv, NEW i \in Inputs, inputs' = [inputs EXCEPT ![i] = "COMPLETE"]
    PROVE  \A u \in Inputs : Phase(inputs[u]) <= Phase(inputs'[u])
<1>1. inputs[i] \in InStates
  BY DEF LInv, Agreed
<1>2. \A s \in InStates : Phase(s) <= Phase("COMPLETE")
  <2>1. \A s \in InStates : s = "ABSENT" \/ s = "PLANNED" \/ s = "COMPLETE"
    BY DEF InStates
  <2>2. /\ Phase("ABSENT") <= Phase("COMPLETE") /\ Phase("PLANNED") <= Phase("COMPLETE")
        /\ Phase("COMPLETE") <= Phase("COMPLETE")
    BY Phases
  <2> QED BY <2>1, <2>2
<1>3. Phase(inputs[i]) <= Phase("COMPLETE")
  BY <1>1, <1>2
<1> QED BY <1>3, InputForward

LEMMA TimerForward ==
    ASSUME FInv, LInv, NEW k \in Keys, NEW v, timers' = [timers EXCEPT ![k].status = v],
           Phase(timers[k].status) <= Phase(v)
    PROVE  \A j \in Keys : /\ Phase(timers[j].status) <= Phase(timers'[j].status)
                           /\ timers'[j].watermark = timers[j].watermark
                           /\ timers'[j].tick = timers[j].tick
<1>1. timers \in [Keys -> [status : Statuses, watermark : Nat, tick : Ticking]]
  BY DEF FInv, Typed
<1>2. \A j \in Keys : j # k => timers'[j] = timers[j]
  BY <1>1
<1>3. /\ timers'[k].status = v /\ timers'[k].watermark = timers[k].watermark
      /\ timers'[k].tick = timers[k].tick
  BY <1>1
<1> QED BY <1>2, <1>3, Unmoved

LEMMA PostForward ==
    ASSUME LInv, NEW i \in Inputs, NEW events, IsEvents(events), outbox' = Post(i, events)
    PROVE  \A s \in DOMAIN outbox :
             /\ s \in DOMAIN outbox'
             /\ outbox'[s].input = outbox[s].input /\ outbox'[s].event = outbox[s].event
             /\ outbox[s].delivered => outbox'[s].delivered
<1>1. IsOutbox(outbox)
  BY DEF LInv, Agreed
<1>2. /\ DOMAIN outbox \subseteq DOMAIN outbox'
      /\ \A s \in DOMAIN outbox : outbox'[s] = outbox[s]
  BY <1>1, PostAppends
<1> QED BY <1>2

LEMMA PlanForward ==
    ASSUME FInv, LInv, WInv, DInv,
           (\E r \in Rows : PlanRow(r)) \/ (\E k \in Keys : PlanTimer(k))
    PROVE  OnlyForward
<1>1. runs \in [Roles -> Runs]
  BY DEF WInv, Kept
<1>2. ASSUME NEW r \in Rows, PlanRow(r) PROVE OnlyForward
  <2>1. /\ UNCHANGED <<cursor, timers, accepted>> /\ inputs[P1(r)] = "ABSENT"
        /\ inputs' = [inputs EXCEPT ![P1(r)] = "PLANNED"]
        /\ runs' = AfterRow(source[r], Strategy).runs
        /\ won' = AfterRow(source[r], Strategy).won
        /\ outbox' = Post(P1(r), RowEvents(source[r], Strategy))
    BY <1>2 DEF PlanRow, Outside
  <2>2. \A u \in Inputs : Phase(inputs[u]) <= Phase(inputs'[u])
    <3> DEFINE i == P1(r)
    <3>1. i \in Inputs /\ inputs[i] = "ABSENT" /\ inputs' = [inputs EXCEPT ![i] = "PLANNED"]
      BY <2>1, Distinct
    <3> HIDE DEF i
    <3>2. Phase(inputs[i]) <= Phase("PLANNED")
      <4>1. Phase("ABSENT") <= Phase("PLANNED")
        BY Phases
      <4> QED BY <3>1, <4>1
    <3> QED BY <3>1, <3>2, InputForward
  <2>3. \A q \in Roles : runs[q] \in {"SIGNALED", "FINISHED"} => runs'[q] = runs[q]
    BY <1>1, <2>1 DEF AfterRow, Strategy, Evaluated, Running
  <2>4. won \subseteq won'
    BY <2>1 DEF AfterRow, Strategy
  <2>5. \A s \in DOMAIN outbox :
          /\ s \in DOMAIN outbox'
          /\ outbox'[s].input = outbox[s].input /\ outbox'[s].event = outbox[s].event
          /\ outbox[s].delivered => outbox'[s].delivered
    BY <2>1, PostForward, RowEventsAre, Distinct
  <2> QED BY <2>1, <2>2, <2>3, <2>4, <2>5, Unmoved DEF OnlyForward
<1>3. ASSUME NEW k \in Keys, PlanTimer(k) PROVE OnlyForward
  <2>1. /\ UNCHANGED <<cursor, won, accepted>> /\ timers[k].status = "PREPARED"
        /\ timers' = [timers EXCEPT ![k].status = "PLANNED"]
        /\ inputs' = [inputs EXCEPT ![Timer(k)] = "PLANNED"]
        /\ runs' = AfterTick(timers[k].tick, Strategy).runs
        /\ outbox' = Post(Timer(k), TickEvents(timers[k].tick, Strategy))
    BY <1>3 DEF PlanTimer, Outside
  <2>2. \A u \in Inputs : Phase(inputs[u]) <= Phase(inputs'[u])
    <3>1. inputs[Timer(k)] = "ABSENT"
      BY <2>1 DEF DInv, Done
    <3> DEFINE i == Timer(k)
    <3>2. i \in Inputs /\ inputs[i] = "ABSENT" /\ inputs' = [inputs EXCEPT ![i] = "PLANNED"]
      BY <2>1, <3>1, Distinct
    <3> HIDE DEF i
    <3>3. Phase(inputs[i]) <= Phase("PLANNED")
      <4>1. Phase("ABSENT") <= Phase("PLANNED")
        BY Phases
      <4> QED BY <3>2, <4>1
    <3> QED BY <3>2, <3>3, InputForward
  <2>3. \A q \in Roles : runs[q] \in {"SIGNALED", "FINISHED"} => runs'[q] = runs[q]
    <3>1. \A q \in Roles : runs'[q] = IF q \in Expired(timers[k].tick, Strategy)
                                      THEN "FINISHED" ELSE runs[q]
      BY <2>1 DEF AfterTick, Strategy
    <3>2. \A q \in Expired(timers[k].tick, Strategy) : runs[q] = "OPEN"
      BY DEF Expired, Strategy
    <3> QED BY <3>1, <3>2
  <2>4. \A s \in DOMAIN outbox :
          /\ s \in DOMAIN outbox'
          /\ outbox'[s].input = outbox[s].input /\ outbox'[s].event = outbox[s].event
          /\ outbox[s].delivered => outbox'[s].delivered
    BY <2>1, PostForward, TickEventsAre, Distinct
  <2>5. \A j \in Keys : /\ Phase(timers[j].status) <= Phase(timers'[j].status)
                        /\ timers'[j].watermark = timers[j].watermark
                        /\ timers'[j].tick = timers[j].tick
    <3>1. Phase("PREPARED") <= Phase("PLANNED")
      BY Phases
    <3>2. Phase(timers[k].status) <= Phase("PLANNED")
      BY <2>1, <3>1
    <3> QED BY <2>1, <3>2, TimerForward
  <2> QED BY <2>1, <2>2, <2>3, <2>4, <2>5, Unmoved DEF OnlyForward
<1> QED BY <1>2, <1>3

LEMMA MarkForward ==
    ASSUME LInv, MarkDelivered
    PROVE  /\ NextItem \in DOMAIN outbox /\ ~outbox[NextItem].delivered
           /\ outbox'[NextItem].delivered /\ DOMAIN outbox' = DOMAIN outbox
           /\ \A s \in DOMAIN outbox :
                /\ outbox'[s].input = outbox[s].input /\ outbox'[s].event = outbox[s].event
                /\ outbox[s].delivered => outbox'[s].delivered
<1>1. /\ stage = "acknowledge" /\ outbox' = [outbox EXCEPT ![NextItem].delivered = TRUE]
      /\ IsOutbox(outbox)
  BY DEF MarkDelivered, LInv, Agreed
<1>2. NextItem \in DOMAIN outbox /\ ~outbox[NextItem].delivered
  <2>1. NextItem \in Undelivered(input)
    BY <1>1, NextItemIs DEF LInv, Acknowledged
  <2> QED BY <2>1 DEF Undelivered
<1> DEFINE n == NextItem
<1> HIDE DEF n
<1>3. /\ DOMAIN outbox' = DOMAIN outbox /\ outbox'[n].delivered
      /\ \A s \in DOMAIN outbox : /\ outbox'[s].input = outbox[s].input
                                  /\ s # n => outbox'[s] = outbox[s]
  BY <1>1, <1>2, MarkMarks DEF n
<1>4. outbox'[n].event = outbox[n].event
  <2>1. PICK E : outbox \in Seq(Entries(E))
    BY <1>1 DEF IsOutbox
  <2> DEFINE K == Entries(E)
             marked == [outbox[n] EXCEPT !.delivered = TRUE]
  <2>2. outbox[n] \in K
    BY <1>2, <2>1 DEF n
  <2>3. marked.event = outbox[n].event
    BY <2>2 DEF Entries
  <2>4. outbox' = [outbox EXCEPT ![n] = marked]
    BY <1>1 DEF n
  <2>5. outbox \in Seq(K) /\ n \in DOMAIN outbox
    BY <1>2, <2>1 DEF n
  <2> HIDE DEF K, marked
  <2>6. outbox'[n] = marked
    BY <2>4, <2>5
  <2> QED BY <2>3, <2>6
<1>5. \A s \in DOMAIN outbox : outbox'[s].event = outbox[s].event
  BY <1>3, <1>4
<1>6. \A s \in DOMAIN outbox : outbox[s].delivered => outbox'[s].delivered
  BY <1>3
<1>7. \A s \in DOMAIN outbox : outbox'[s].input = outbox[s].input
  BY <1>3
<1> QED BY <1>2, <1>3, <1>5, <1>6, <1>7 DEF n

LEMMA StepForward ==
    ASSUME FInv, LInv, WInv, DInv, [Next]_vars
    PROVE  OnlyForward \/ (Crash /\ saved # <<>>)
<1>1. CASE \/ \E row \in Feed : Collect(row)
           \/ \E k \in Keys : TickAgain(k) \/ ReplayTimer(k)
           \/ Poll \/ DrainBatch \/ EndDrain \/ ReplayRow \/ DeliverEvaluations
           \/ Restart \/ UNCHANGED vars
  <2>1. UNCHANGED <<cursor, inputs, runs, won, outbox, timers, accepted>>
    BY <1>1 DEF Collect, TickAgain, ReplayTimer, Poll, DrainBatch, StartBatch, EndDrain,
       ReplayRow, DeliverEvaluations, Restart, vars, database, Outside
  <2> QED BY <2>1, TablesForward
<1>2. CASE Crash
  <2>1. CASE saved = <<>>
    <3>1. UNCHANGED <<cursor, inputs, runs, won, outbox, timers, accepted>>
      BY <1>2, <2>1 DEF Crash, database
    <3> QED BY <3>1, TablesForward
  <2> QED BY <1>2, <2>1
<1>3. ASSUME NEW k \in Keys, NEW tick \in Ticks, Tick(k, tick) PROVE OnlyForward
  <2> DEFINE new == [status |-> "PREPARED", watermark |-> Latest, tick |-> tick]
  <2>1. /\ UNCHANGED <<cursor, inputs, runs, won, outbox, accepted>>
        /\ timers[k].status = "NONE" /\ timers' = [timers EXCEPT ![k] = new]
    BY <1>3 DEF Tick, Watermark
  <2>2. timers \in [Keys -> [status : Statuses, watermark : Nat, tick : Ticking]]
    BY DEF FInv, Typed
  <2>3. new.status = "PREPARED"
    OBVIOUS
  <2> HIDE DEF new
  <2>4. \A j \in Keys : timers'[j] = IF j = k THEN new ELSE timers[j]
    BY <2>1, <2>2
  <2>5. Phase(timers[k].status) <= Phase(new.status)
    BY <2>1, <2>3, Phases
  <2> QED BY <2>1, <2>4, <2>5, Unmoved DEF OnlyForward
<1>4. CASE RunnerAccepts
  <2>1. /\ UNCHANGED <<cursor, inputs, runs, won, outbox, timers>> /\ Undelivered(input) # {}
        /\ accepted' = IF NextItem > RunnerCursor THEN Append(accepted, NextItem) ELSE accepted
    BY <1>4 DEF RunnerAccepts
  <2>2. NextItem \in DOMAIN outbox
    BY <2>1, NextItemIs DEF LInv, Agreed
  <2> QED BY <2>1, <2>2, Unmoved DEF OnlyForward
<1>5. CASE MarkDelivered
  <2>1. UNCHANGED <<cursor, inputs, runs, won, timers, accepted>>
    BY <1>5 DEF MarkDelivered
  <2> QED BY <1>5, <2>1, MarkForward, Unmoved DEF OnlyForward
<1>6. ASSUME NEW r \in Rows, CompleteRow(r) PROVE OnlyForward
  <2>1. /\ UNCHANGED <<runs, won, outbox, timers, accepted>>
        /\ inputs' = [inputs EXCEPT ![input] = "COMPLETE"] /\ input = P1(r)
    BY <1>6 DEF CompleteRow
  <2>2. cursor <= cursor'
    BY <1>6, CompletedRow, IncompleteKeys
  <2>3. \A u \in Inputs : Phase(inputs[u]) <= Phase(inputs'[u])
    <3>1. input \in Inputs
      BY <2>1, Distinct
    <3> QED BY <2>1, <3>1, CompleteForward
  <2> QED BY <2>1, <2>2, <2>3, Unmoved DEF OnlyForward
<1>7. ASSUME NEW k \in Keys, CompleteTimerInput(k) PROVE OnlyForward
  <2>1. /\ UNCHANGED <<cursor, runs, won, outbox, timers, accepted>>
        /\ inputs' = [inputs EXCEPT ![input] = "COMPLETE"] /\ input = Timer(k)
    BY <1>7 DEF CompleteTimerInput
  <2>2. \A u \in Inputs : Phase(inputs[u]) <= Phase(inputs'[u])
    <3>1. input \in Inputs
      BY <2>1, Distinct
    <3> QED BY <2>1, <3>1, CompleteForward
  <2> QED BY <2>1, <2>2, Unmoved DEF OnlyForward
<1>8. ASSUME NEW k \in Keys, CompleteTimer(k) PROVE OnlyForward
  <2>1. /\ UNCHANGED <<cursor, inputs, runs, won, outbox, accepted>>
        /\ timers' = [timers EXCEPT ![k].status = "COMPLETE"]
    BY <1>8 DEF CompleteTimer
  <2>2. timers[k].status \in Statuses
    BY DEF FInv, Typed
  <2>3. \A j \in Keys : /\ Phase(timers[j].status) <= Phase(timers'[j].status)
                        /\ timers'[j].watermark = timers[j].watermark
                        /\ timers'[j].tick = timers[j].tick
    <3>1. \A s \in Statuses : s = "NONE" \/ s = "PREPARED" \/ s = "PLANNED" \/ s = "COMPLETE"
      BY DEF Statuses
    <3>2. /\ Phase("NONE") <= Phase("COMPLETE") /\ Phase("PREPARED") <= Phase("COMPLETE")
          /\ Phase("PLANNED") <= Phase("COMPLETE") /\ Phase("COMPLETE") <= Phase("COMPLETE")
      BY Phases
    <3>3. Phase(timers[k].status) <= Phase("COMPLETE")
      BY <2>2, <3>1, <3>2
    <3> QED BY <2>1, <3>3, TimerForward
  <2> QED BY <2>1, <2>3, Unmoved DEF OnlyForward
<1> QED BY <1>1, <1>2, <1>3, <1>4, <1>5, <1>6, <1>7, <1>8, PlanForward DEF Next, Handler

(* Under the active drain nothing is taken back but by the rollback of a   *)
(* batch: inputs and timers only advance, a finished run and a winner      *)
(* stay, an item of the outbox stays what it is and delivered, the runner  *)
(* takes one item more or none, through every crash, restart and replay    *)
(* (_persist_input_and_events, _drain_input, execute_prepared_timer).      *)
THEOREM NothingTakenBack ==
    ASSUME Driver = "DRAIN"
    PROVE  Spec => [][OnlyForward \/ (Crash /\ saved # <<>>)]_vars
<1>1. FInv /\ LInv /\ WInv /\ CInv /\ [Next]_vars
        => [OnlyForward \/ (Crash /\ saved # <<>>)]_vars
  BY StepForward DEF CInv
<1> QED BY <1>1, AlwaysCInv, PTL DEF Spec
-----------------------------------------------------------------------------
(* The guards of the handler's actions.                                    *)
HandlerReady ==
    \/ /\ stage = "drain"
       /\ \/ Drained
          \/ ~Drained /\ cursor < Target /\ cursor < Admitted
          \/ /\ ~Drained /\ cursor >= Target /\ NextTimer \in Keys
             /\ timers[NextTimer].status \in {"PREPARED", "PLANNED"}
    \/ stage = "row" /\ \E r \in Rows : input = P1(r) /\ inputs[input] \in {"ABSENT", "PLANNED"}
    \/ stage = "audit"
    \/ /\ stage = "deliver" /\ input \in Inputs
       /\ \/ Undelivered(input) # {} /\ NextItem >= RunnerCursor
          \/ Undelivered(input) = {} /\ unaudited[input] = {}
    \/ stage = "acknowledge" /\ Undelivered(input) # {}
    \/ stage = "finish" /\ \E k \in Keys : input = Timer(k)

(* What the process knows of the timer it drives.                          *)
Driven ==
    /\ request # 0 => timers[request].status # "NONE"
    /\ stage = "drain" \/ (\E k \in Keys : input = Timer(k)) => request # 0
    /\ stage \in {"deliver", "acknowledge"} => unaudited[input] = {}
    /\ stage # "failed"

LEMMA DrivenStep ==
    ASSUME Driver = "DRAIN", FInv, LInv, WInv, Driven, [Next]_vars
    PROVE  Driven'
<1>1. /\ timers \in [Keys -> [status : Statuses, watermark : Nat, tick : Ticking]]
      /\ request \in Keys \cup {0} /\ 0 \notin Keys /\ Incomplete \subseteq Keys
  BY BoundAssumption, IncompleteKeys DEF FInv, Typed, WInv, Keys
<1>2. CASE (\E row \in Feed : Collect(row)) \/ UNCHANGED vars
  BY <1>2 DEF Collect, Driven, vars, database, process
<1>3. CASE Poll \/ DrainBatch
  <2>1. /\ UNCHANGED <<timers, request>> /\ stage' = "row" /\ input' = P1(cursor + 1)
    BY <1>3 DEF Poll, DrainBatch, StartBatch, database
  <2> QED BY <2>1 DEF Driven, P1, Timer
<1>4. ASSUME NEW k \in Keys, NEW tick \in Ticks, Tick(k, tick) PROVE Driven'
  <2>1. request' = k /\ stage' = "drain" /\ timers'[k].status = "PREPARED"
    BY <1>1, <1>4 DEF Tick
  <2> QED BY <1>1, <2>1 DEF Driven
<1>5. ASSUME NEW k \in Keys, TickAgain(k) PROVE Driven'
  <2>1. /\ request' = k /\ stage' = "drain" /\ timers' = timers
        /\ timers[k].status \in {"PREPARED", "PLANNED"}
    BY <1>5 DEF TickAgain, database, Incomplete
  <2> QED BY <1>1, <2>1 DEF Driven
<1>6. CASE EndDrain
  <2>1. stage = "drain" /\ request' = 0 /\ stage' = "idle" /\ input' = input
    BY <1>6 DEF EndDrain
  <2>2. input = NoInput
    BY <2>1 DEF FInv, InBatch, OffBatch
  <2> QED BY <2>1, <2>2 DEF Driven, NoInput, Timer
<1>7. ASSUME NEW k \in Keys, PlanTimer(k) \/ ReplayTimer(k) PROVE Driven'
  <2>1. stage = "drain" /\ stage' = "audit" /\ request' = request
    BY <1>7 DEF PlanTimer, ReplayTimer, Ready
  <2>2. \A j \in Keys : timers'[j].status = timers[j].status \/ timers'[j].status = "PLANNED"
    BY <1>1, <1>7 DEF PlanTimer, ReplayTimer, database
  <2> QED BY <1>1, <2>1, <2>2 DEF Driven
<1>8. CASE DeliverEvaluations
  <2>1. /\ UNCHANGED <<timers, request, input>> /\ stage' = "deliver" /\ stage = "audit"
        /\ unaudited' = [unaudited EXCEPT ![input] = {}]
    BY <1>8 DEF DeliverEvaluations
  <2>2. input \in Inputs /\ unaudited \in [Inputs -> SUBSET Roles]
    BY <2>1, InputInHand DEF LInv, Agreed
  <2>3. unaudited'[input'] = {}
    BY <2>1, <2>2
  <2> QED BY <2>1, <2>3 DEF Driven
<1>9. CASE \/ RunnerAccepts \/ MarkDelivered \/ ReplayRow \/ Restart
           \/ \E r \in Rows : PlanRow(r)
           \/ \E k \in Keys : CompleteTimerInput(k)
  <2>1. /\ UNCHANGED <<timers, request, input>>
        /\ \/ stage' \in {"audit", "idle", "finish"}
           \/ /\ stage \in {"deliver", "acknowledge"} /\ stage' \in {"deliver", "acknowledge"}
              /\ unaudited' = unaudited
    BY <1>9 DEF RunnerAccepts, MarkDelivered, ReplayRow, Restart, PlanRow, CompleteTimerInput,
       HandledAll, database
  <2> QED BY <2>1 DEF Driven
<1>10. ASSUME NEW r \in Rows, CompleteRow(r) PROVE Driven'
  <2>1. /\ UNCHANGED <<timers, request>> /\ stage' \in {"row", "idle", "drain"}
        /\ stage' = "drain" => request # 0
        /\ input' = P1(r + 1) \/ input' = NoInput
    BY <1>10 DEF CompleteRow
  <2> QED BY <2>1 DEF Driven, P1, NoInput, Timer
<1>11. ASSUME NEW k \in Keys, CompleteTimer(k) PROVE Driven'
  <2>1. /\ request' = request /\ request # 0 /\ stage' = "drain" /\ input' = NoInput
    BY <1>11 DEF CompleteTimer, Driven
  <2>2. \A j \in Keys : timers'[j].status = timers[j].status \/ timers'[j].status = "COMPLETE"
    BY <1>1, <1>11 DEF CompleteTimer
  <2> QED BY <1>1, <2>1, <2>2 DEF Driven
<1>12. CASE Crash
  <2>1. stage' = "down" /\ request' = 0 /\ input' = NoInput
    BY <1>12 DEF Crash
  <2> QED BY <2>1 DEF Driven, NoInput, Timer
<1> QED
  BY <1>2, <1>3, <1>4, <1>5, <1>6, <1>7, <1>8, <1>9, <1>10, <1>11, <1>12 DEF Next, Handler

LEMMA AlwaysDriven ==
    ASSUME Driver = "DRAIN"
    PROVE  Spec => [](FInv /\ LInv /\ HInv /\ OInv /\ WInv /\ Driven)
<1>1. Init => FInv /\ LInv /\ HInv /\ OInv /\ Driven
  <2>1. Init => Driven
    BY DEF Init, Driven, NoInput, Timer
  <2> QED BY <2>1, InitFInv, InitLInv, InitHInv, InitOInv
<1>2. FInv /\ LInv /\ HInv /\ OInv /\ [Next]_vars => FInv' /\ LInv' /\ HInv' /\ OInv'
  BY StepFInv, StepLInv, StepHInv, StepOInv
<1>3. FInv /\ LInv /\ WInv /\ Driven /\ [Next]_vars => Driven'
  BY DrivenStep
<1> QED BY <1>1, <1>2, <1>3, AlwaysWInv, PTL DEF Spec

(* On its way to the fence the drain finds a row to take or a timer.       *)
LEMMA DrainReady ==
    ASSUME Driver = "DRAIN", FInv, LInv, WInv, Driven, stage = "drain"
    PROVE  HandlerReady
<1> SUFFICES ASSUME ~Drained
             PROVE  \/ cursor < Target /\ cursor < Admitted
                    \/ /\ cursor >= Target /\ NextTimer \in Keys
                       /\ timers[NextTimer].status \in {"PREPARED", "PLANNED"}
  BY DEF HandlerReady
<1>1. request \in Keys /\ timers[request].status \in {"PREPARED", "PLANNED", "COMPLETE"}
  BY DEF Driven, WInv, FInv, Typed, Statuses
<1>2. HasFence
  <2>1. CASE timers[request].status = "COMPLETE"
    BY <2>1 DEF Drained, HasFence
  <2>2. CASE timers[request].status \in {"PREPARED", "PLANNED"}
    BY <1>1, <2>2 DEF HasFence, Incomplete
  <2> QED BY <1>1, <2>1, <2>2
<1> DEFINE S == {k \in Incomplete : timers[k].watermark = Fence}
<1>3. Fence \in Nat /\ S # {} /\ S \subseteq Nat /\ Target = Fence /\ cursor \in Nat
  BY <1>2, FenceIsLeast, IncompleteKeys DEF Keys, Target
<1>4. NextTimer \in S
  <2>1. NextTimer = Min(S)
    BY DEF NextTimer
  <2> HIDE DEF S
  <2> QED BY <1>3, <2>1, LeastIn
<1>5. NextTimer \in Keys /\ timers[NextTimer].status \in {"PREPARED", "PLANNED"}
  BY <1>4 DEF Incomplete
<1>6. ASSUME cursor < Fence PROVE cursor < Admitted
  <2>1. Fence <= Latest /\ Latest \in Nat
    BY <1>4, IncompleteKeys DEF FInv, Fenced
  <2> DEFINE A == {cursor + BatchSize, Latest} \cup {Fence}
  <2>2. A \subseteq Nat /\ A # {} /\ \A a \in A : cursor < a
    BY <1>3, <1>6, <2>1, BoundAssumption
  <2>3. Admitted = Min(A)
    BY <1>2 DEF Admitted
  <2> HIDE DEF A
  <2> QED BY <2>2, <2>3, LeastIn
<1> QED BY <1>3, <1>5, <1>6

LEMMA ReadyAlways ==
    ASSUME Driver = "DRAIN", FInv, LInv, HInv, OInv, WInv, Driven,
           stage \notin {"idle", "down"}
    PROVE  HandlerReady
<1>1. NeverRaises
  BY RaisesNowhere
<1>2. stage \in {"drain", "row", "audit", "deliver", "acknowledge", "finish"}
  BY DEF Driven, FInv, InBatch, OffBatch
<1>3. stage # "drain" => input \in Inputs
  BY <1>2, InputInHand DEF LInv
<1>4. CASE stage = "row"
  <2>1. limit # 0 /\ input = P1(cursor + 1)
    BY <1>4 DEF FInv, InBatch, OffBatch
  <2>2. cursor + 1 \in Rows
    BY <2>1, IncompleteKeys, BoundAssumption DEF FInv, InBatch, LInv, Rows
  <2>3. inputs[input] \in {"ABSENT", "PLANNED"}
    BY <1>1, <1>3, <1>4 DEF NeverRaises, LInv, Agreed, InStates
  <2> QED BY <1>4, <2>1, <2>2, <2>3 DEF HandlerReady
<1>5. CASE stage = "deliver"
  <2>1. unaudited[input] = {}
    BY <1>5 DEF Driven
  <2>2. CASE Undelivered(input) # {}
    <3>1. NextItem \in Undelivered(input)
      BY <2>2, NextItemIs DEF LInv, Agreed
    <3>2. NextItem >= RunnerCursor
      BY <1>1, <1>3, <1>5, <3>1 DEF NeverRaises
    <3> QED BY <1>3, <1>5, <2>2, <3>2 DEF HandlerReady
  <2>3. CASE Undelivered(input) = {}
    BY <1>3, <1>5, <2>1, <2>3 DEF HandlerReady
  <2> QED BY <2>2, <2>3
<1>6. CASE stage = "acknowledge"
  BY <1>6 DEF HandlerReady, LInv, Acknowledged
<1>7. CASE stage = "finish"
  BY <1>7 DEF HandlerReady, FInv, InBatch, OffBatch
<1>8. CASE stage = "audit"
  BY <1>8 DEF HandlerReady
<1> QED BY <1>2, <1>4, <1>5, <1>6, <1>7, <1>8, DrainReady

(* Under the active drain the handler is never stuck: in a batch, and      *)
(* between a timer's request and its end, one of its actions can go on,    *)
(* also when crashes have left other timers incomplete before it.          *)
THEOREM HandlerNeverStuck ==
    ASSUME Driver = "DRAIN"
    PROVE  Spec => [](stage \notin {"idle", "down"} => HandlerReady)
<1>1. FInv /\ LInv /\ HInv /\ OInv /\ WInv /\ Driven
        => (stage \notin {"idle", "down"} => HandlerReady)
  BY ReadyAlways
<1> QED BY <1>1, AlwaysDriven, PTL
-----------------------------------------------------------------------------
(* Where the process is with the input in hand.                            *)
Group(s) == CASE s = "drain" -> 0 [] s = "row" -> 1 [] s = "audit" -> 2
              [] s \in {"deliver", "acknowledge"} -> 3 [] s = "finish" -> 4 [] s = "idle" -> 5

HandlerGoesOn ==
    \/ \E k \in Keys : timers[k].status # "COMPLETE" /\ timers'[k].status = "COMPLETE"
    \/ cursor < cursor'
    \/ Group(stage) < Group(stage')
    \/ stage = "deliver" /\ stage' = "acknowledge" /\ outbox' = outbox
    \/ /\ Group(stage') = Group(stage) /\ DOMAIN outbox' = DOMAIN outbox
       /\ \E s \in DOMAIN outbox : ~outbox[s].delivered /\ outbox'[s].delivered

LEMMA Groups ==
    /\ Group("drain") = 0 /\ Group("row") = 1 /\ Group("audit") = 2 /\ Group("deliver") = 3
    /\ Group("acknowledge") = 3 /\ Group("finish") = 4 /\ Group("idle") = 5
BY DEF Group

LEMMA HandlerStep ==
    ASSUME Driver = "DRAIN", FInv, LInv, Handler
    PROVE  HandlerGoesOn
<1>1. CASE \/ DrainBatch \/ EndDrain \/ ReplayRow \/ DeliverEvaluations
           \/ \E r \in Rows : PlanRow(r)
           \/ \E k \in Keys : PlanTimer(k) \/ ReplayTimer(k) \/ CompleteTimerInput(k)
  <2>1. \/ stage = "drain" /\ stage' \in {"row", "idle", "audit"}
        \/ stage = "row" /\ stage' = "audit"
        \/ stage = "audit" /\ stage' = "deliver"
        \/ stage = "deliver" /\ stage' = "finish"
    BY <1>1 DEF DrainBatch, StartBatch, EndDrain, ReplayRow, DeliverEvaluations, PlanRow,
       PlanTimer, ReplayTimer, Ready, CompleteTimerInput, HandledAll
  <2>2. Group(stage) < Group(stage')
    BY <2>1, Groups
  <2> QED BY <2>2 DEF HandlerGoesOn
<1>2. CASE RunnerAccepts
  BY <1>2 DEF RunnerAccepts, HandlerGoesOn
<1>3. CASE MarkDelivered
  <2>1. stage = "acknowledge" /\ stage' = "deliver"
    BY <1>3 DEF MarkDelivered
  <2>2. Group(stage') = Group(stage)
    BY <2>1, Groups
  <2> QED BY <1>3, <2>2, MarkForward DEF HandlerGoesOn
<1>4. ASSUME NEW r \in Rows, CompleteRow(r) PROVE HandlerGoesOn
  <2>1. cursor < cursor'
    BY <1>4, CompletedRow, IncompleteKeys
  <2> QED BY <2>1 DEF HandlerGoesOn
<1>5. ASSUME NEW k \in Keys, CompleteTimer(k) PROVE HandlerGoesOn
  <2>1. /\ stage = "finish" /\ input = Timer(k)
        /\ timers' = [timers EXCEPT ![k].status = "COMPLETE"]
    BY <1>5 DEF CompleteTimer
  <2>2. timers[k].status = "PLANNED"
    BY <2>1, Distinct DEF FInv, InBatch, OffBatch
  <2>3. timers'[k].status = "COMPLETE"
    BY <2>1 DEF FInv, Typed
  <2> QED BY <2>2, <2>3 DEF HandlerGoesOn
<1> QED BY <1>1, <1>2, <1>3, <1>4, <1>5 DEF Handler

(* Every step of the handler goes on: a timer is complete, a row is        *)
(* behind the cursor, the input in hand is further or one item more of it  *)
(* delivered.  What goes on only advances, and the fence bounds the rows   *)
(* of a drain, so it takes finitely many steps.                            *)
THEOREM HandlerProgress ==
    ASSUME Driver = "DRAIN"
    PROVE  Spec => [][Handler => HandlerGoesOn]_vars
<1>1. FInv /\ LInv /\ [Next]_vars => [Handler => HandlerGoesOn]_vars
  BY HandlerStep
<1> QED BY <1>1, AlwaysLInv, PTL DEF Spec
=============================================================================
