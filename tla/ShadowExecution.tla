--------------------------- MODULE ShadowExecution ---------------------------
(***************************************************************************)
(* The shadow sidecar of phase 5.  One process reads the paper database    *)
(* and executes every entry and exit of it again, without broadcasting, on *)
(* evidence of its own.  A cycle has six stages: bridge the entry rows,    *)
(* execute entries, materialise the inventory a completed entry would      *)
(* hold, bridge the exit rows, execute exits, record comparisons.          *)
(*                                                                         *)
(* Every action is one committed transaction of the shadow database, or a  *)
(* read the cycle acts on later, so a crash may fall between any two.  The *)
(* execution of an intent is a pipeline that a restart runs again from its *)
(* first step: answers of the network are journaled, and a step whose      *)
(* effect is already durable changes nothing.                              *)
(*                                                                         *)
(* Abstracted: instants (journal keys start, failure_clock and finished),  *)
(* the several calls behind one question to the network, amounts, venues   *)
(* and fingerprints: what a piece of evidence says is the answer it was    *)
(* derived from.  The paper database only ever appends.                    *)
(***************************************************************************)
EXTENDS Naturals, FiniteSets, SequencesExt

CONSTANTS
    NumEntries,      \* entry rows the paper runner may append
    NumExits,        \* exit rows it may append
    ParentEntry,     \* exit -> the entry whose position it closes
    Answers,         \* intent -> question -> what the network may answer
    CycleLimit,      \* --cycle-limit: rows and intents per stage of a cycle
    MaxCrashes,      \* bound: processes killed
    MaxMishaps,      \* bound: exceptions that are nobody's answer (disk, memory)
    NONE

Entries   == 1 .. NumEntries                  \* in the order of source_cursor
Exits     == NumEntries + 1 .. NumEntries + NumExits
Intents   == Entries \cup Exits               \* in the order of decision_at_us
Questions == {"venue", "actor", "sim"}

ASSUME CountAssumption  == /\ NumEntries \in Nat /\ NumExits \in Nat
                           /\ CycleLimit \in Nat \ {0}
                           /\ MaxCrashes \in Nat /\ MaxMishaps \in Nat
ASSUME ParentAssumption == ParentEntry \in [Exits -> Entries]
ASSUME NoneAssumption   ==
    NONE \notin {"EXIT_INTENT", "NO_POSITION", "open", "done", "inventoried",
                 "error", "routeless", "unquotable", "nobase", "malformed", "unplannable",
                 "success", "program", "expired", "rpc", "quote", "plan", "replay", "invalid",
                 "determinism", "mishap", "settled",
                 "conflict", "late parent", "no inventory"}

VARIABLES
    contexts,    \* paper: entry rows appended so far
    exitRows,    \* paper: exit intents, in rowid order
    lineage,     \* entries with a lineage row
    cursor,      \* T004A cursor
    evidence,    \* exit -> its T004B evidence
    exitCursor,  \* T004B cursor and progress ledger: exit rows processed
    hist,        \* intent -> transition history: <<to, by>>; empty: not registered
    answer,      \* intent -> question -> the journaled answer
    kept,        \* intent -> immutable evidence rows: <<kind, by>>
    failure,     \* intent -> journal stage "failure"
    integrity,   \* intent -> journal stage "integrity_failure"
    work,        \* intent -> its shadow_c2_work row
    inventory,   \* entries with an expected inventory
    heads,       \* intent -> classification of its latest comparison
    scan,        \* intent the comparison scan stands after
    pc,          \* where the cycle is
    todo,        \* rows or intents the current stage has read and not handled
    raised,      \* the exception being handled
    abort,       \* why the last process ended by an exception: <<reason, intent>>
    crashes,
    mishaps

paper   == <<contexts, exitRows>>
bridge  == <<lineage, cursor, evidence, exitCursor>>
journal == <<answer, failure, integrity>>
records == <<hist, kept, journal>>
book    == <<work, inventory>>
compare == <<heads, scan>>
faults  == <<crashes, mishaps>>
process == <<pc, todo, raised, abort>>
vars    == <<paper, bridge, records, book, compare, process, faults>>
-----------------------------------------------------------------------------
(* The state machine of an intent.                                         *)
Negative == {"REJECTED", "EXPIRED", "FAILED"}
Terminal == Negative \cup {"COMPLETED"}
Allowed  == [CREATED             |-> {"ELIGIBILITY_CHECKED"} \cup Negative,
             ELIGIBILITY_CHECKED |-> {"ROUTE_BOUND"} \cup Negative,
             ROUTE_BOUND         |-> {"QUOTE_BOUND"} \cup Negative,
             QUOTE_BOUND         |-> {"PLAN_BUILT"} \cup Negative,
             PLAN_BUILT          |-> {"SIMULATED", "EXPIRED", "FAILED"},
             SIMULATED           |-> {"COMPLETED", "FAILED"},
             COMPLETED |-> {}, REJECTED |-> {}, EXPIRED |-> {}, FAILED |-> {}]

Registered(i) == hist[i] # <<>>
State(i)      == IF Registered(i) THEN Last(hist[i])[1] ELSE "UNREGISTERED"

(* The pipeline of an intent, as far as the answers so far determine it.   *)
To(state, by)  == [do |-> "to", what |-> state, by |-> by]
Ask(question)  == [do |-> "ask", what |-> question, by |-> NONE]
Keep(kind, by) == [do |-> "keep", what |-> kind, by |-> by]
Refuse(error)  == [do |-> "refuse", what |-> error, by |-> NONE]
Unusable       == {NONE, "error"}

Simulated(sim) ==
    CASE sim \in Unusable -> <<>>
      [] sim = "success"  -> <<Keep("run", sim), To("SIMULATED", sim), To("COMPLETED", sim)>>
      [] sim = "program"  -> <<Keep("run", sim), To("SIMULATED", sim), To("FAILED", sim)>>
      [] sim = "expired"  -> <<Keep("run", sim), To("EXPIRED", sim)>>
      [] OTHER            -> <<Keep("run", sim), To("FAILED", sim)>>

(* An actor read whose accounts do not decode (also a recipient account    *)
(* missing or foreign) is refused as a conflict of the replay; one no plan *)
(* can be built from as a plan error.                                      *)
Planned(i, actor, sim) ==
    CASE actor \in Unusable                  -> <<>>
      [] actor = "malformed"                 -> <<Refuse("replay")>>
      [] actor = "nobase" /\ i \in Exits     -> <<To("REJECTED", actor)>>
      [] actor = "unplannable"               -> <<Refuse("plan")>>
      [] OTHER -> <<Keep("plan", actor), To("PLAN_BUILT", actor), Ask("sim")>> \o Simulated(sim)

Routed(i, venue, actor, sim) ==
    <<Keep("state", venue), To("ROUTE_BOUND", venue), Keep("route", venue)>> \o
    IF venue = "unquotable" THEN <<Refuse("quote")>>
    ELSE <<To("QUOTE_BOUND", venue), Keep("quote", venue), Ask("actor")>> \o
         Planned(i, actor, sim)

Pipeline(i) ==
    LET a == answer[i] IN
    <<To("ELIGIBILITY_CHECKED", "intent"), Ask("venue")>> \o
    CASE a.venue \in Unusable    -> <<>>
      [] a.venue = "routeless"   -> <<Keep("state", a.venue), To("REJECTED", a.venue),
                                      Keep("route", a.venue)>>
      [] OTHER                   -> Routed(i, a.venue, a.actor, a.sim)

(* A step that a replay finds done.                                        *)
Done(i, s) ==
    CASE s.do = "to"   -> <<s.what, s.by>> \in Range(hist[i])
      [] s.do = "keep" -> <<s.what, s.by>> \in kept[i]
      [] s.do = "ask"  -> answer[i][s.what] \notin Unusable
      [] OTHER         -> FALSE

(* The places of the steps that are still to be done; the pipeline is      *)
(* bound, not abbreviated, so that it is laid out once.                    *)
Pending(i) == UNION {{n \in DOMAIN p : ~Done(i, p[n])} : p \in {Pipeline(i)}}

(* Evidence is only inserted while the intent is where it belongs.         *)
Belongs(i, s) ==
    CASE s.what = "state" -> State(i) \in {"ELIGIBILITY_CHECKED", "ROUTE_BOUND", "QUOTE_BOUND"}
      [] s.what = "route" -> IF s.by = "routeless" THEN State(i) \in Negative
                                                   ELSE State(i) = "ROUTE_BOUND"
      [] s.what = "run"   -> State(i) = "PLAN_BUILT"
      [] OTHER            -> State(i) = "QUOTE_BOUND"
-----------------------------------------------------------------------------
Init ==
    /\ contexts = 0 /\ exitRows = <<>>
    /\ lineage = {} /\ cursor = 0 /\ exitCursor = 0
    /\ evidence = [x \in Exits |-> NONE]
    /\ hist = [i \in Intents |-> <<>>]
    /\ answer = [i \in Intents |-> [q \in Questions |-> NONE]]
    /\ kept = [i \in Intents |-> {}]
    /\ failure = [i \in Intents |-> NONE] /\ integrity = [i \in Intents |-> NONE]
    /\ work = [i \in Intents |-> NONE] /\ inventory = {}
    /\ heads = [i \in Intents |-> NONE] /\ scan = 0
    /\ pc = "down" /\ todo = <<>> /\ raised = NONE /\ abort = <<NONE, 0>>
    /\ crashes = 0 /\ mishaps = 0

(* The paper runner, in another process, appends rows.                     *)
AppendContext ==
    /\ contexts < NumEntries
    /\ contexts' = contexts + 1
    /\ UNCHANGED <<exitRows, bridge, records, book, compare, process, faults>>

AppendExit(x) ==
    /\ x \notin Range(exitRows) /\ ParentEntry[x] <= contexts
    /\ exitRows' = Append(exitRows, x)
    /\ UNCHANGED <<contexts, bridge, records, book, compare, process, faults>>
-----------------------------------------------------------------------------
(* The process: opened by an operator, ended by its duration, by a crash,  *)
(* or by an exception that leaves a cycle.                                 *)
Ended(reason, i) ==
    /\ pc' = "down" /\ todo' = <<>> /\ raised' = NONE /\ abort' = <<reason, i>>

(* Mistake: the answers of an unfinished intent die with its process.      *)
JournalOfProcess ==
    [i \in Intents |-> IF work[i] \in {"done", "inventoried"} THEN answer[i]
                       ELSE [q \in Questions |-> NONE]]
DurableJournal == answer

Open ==
    /\ pc = "down"
    /\ pc' = "opened" /\ abort' = <<NONE, 0>>
    /\ answer' = DurableJournal
    /\ UNCHANGED <<paper, bridge, hist, kept, failure, integrity, book, compare,
                   todo, raised, faults>>

Close ==
    /\ pc = "rest"
    /\ Ended(NONE, 0)
    /\ UNCHANGED <<paper, bridge, records, book, compare, faults>>

Crash ==
    /\ pc # "down" /\ crashes < MaxCrashes
    /\ crashes' = crashes + 1
    /\ Ended(NONE, 0)
    /\ UNCHANGED <<paper, bridge, records, book, compare, mishaps>>

(* What a stage reads when it begins: at most CycleLimit, in order, that   *)
(* is, at place n the one that has n - 1 before it.                        *)
Some(S) == [n \in 1 .. Min({CycleLimit, Cardinality(S)}) |->
               CHOOSE i \in S : Cardinality({j \in S : j < i}) = n - 1]
Enter(l, q) == pc' = l /\ todo' = q /\ UNCHANGED <<raised, abort>>
NextTask   == todo' = Tail(todo) /\ UNCHANGED <<pc, raised, abort>>
At(l)      == pc = l /\ todo # <<>>

EntryRows == [n \in 1 .. Min({CycleLimit, contexts - cursor}) |-> cursor + n]
(* Mistake: the row at the cursor is read again.                           *)
ExitRowsAgain == SubSeq(exitRows, Max({exitCursor, 1}),
                        Min({exitCursor + CycleLimit, Len(exitRows)}))
ExitRows  == SubSeq(exitRows, exitCursor + 1, Min({exitCursor + CycleLimit, Len(exitRows)}))
Scope     == lineage \cup {x \in Exits : evidence[x] = "EXIT_INTENT"}
Waiting(S) == Some({i \in S \cap Scope : work[i] \notin {"done", "inventoried"}})
(* Mistake: only the newest entry is asked whether it awaits its inventory. *)
NewestUnclaimed == {e \in Entries : work[e] = "done" /\ e = cursor}
Unclaimed == {e \in Entries : work[e] = "done"}
AwaitedExits == IF Unclaimed = {} THEN ExitRows ELSE <<>>

(* Mistake: the scan does not start over.                                  *)
ComparedOnce == Some({i \in Scope : i > scan})
Compared == LET later == Some({i \in Scope : i > scan}) IN
            IF later = <<>> THEN Some(Scope) ELSE later

BeginCycle ==
    /\ pc \in {"opened", "rest"}
    /\ Enter("entries", EntryRows)
    /\ UNCHANGED <<paper, bridge, records, book, compare, faults>>

NextStage ==
    /\ todo = <<>>
    /\ \/ pc = "entries"     /\ Enter("execute entries",
                                      IF Unclaimed = {} THEN Waiting(Entries) ELSE <<>>)
       \/ pc = "execute entries" /\ Enter("inventories", Some(Unclaimed))
       \/ pc = "inventories" /\ Enter("exits", AwaitedExits)
       \/ pc = "exits"       /\ Enter("execute exits", Waiting(Exits))
       \/ pc = "execute exits" /\ Enter("compare", Compared)
       \/ pc = "compare"     /\ Enter("rest", <<>>)
    /\ UNCHANGED <<paper, bridge, records, book, compare, faults>>
-----------------------------------------------------------------------------
(* poll_once: intent, lineage and cursor of one row are three commits.     *)
Create(i) == hist' = [hist EXCEPT ![i] = <<<<"CREATED", "row">>>>]

RegisterEntry ==
    /\ At("entries") /\ ~Registered(Head(todo))
    /\ Create(Head(todo))
    /\ UNCHANGED <<paper, bridge, kept, journal, book, compare, process, faults>>

PersistLineage ==
    /\ At("entries") /\ Registered(Head(todo)) /\ Head(todo) \notin lineage
    /\ lineage' = lineage \cup {Head(todo)}
    /\ UNCHANGED <<paper, cursor, evidence, exitCursor, records, book, compare, process, faults>>

(* Mistake: the cursor does not ask for the lineage of its row.            *)
RecordedOrNot(e) == Registered(e)
Recorded(e) == e \in lineage

AdvanceCursor ==
    /\ At("entries") /\ Recorded(Head(todo))
    /\ cursor' = Head(todo) /\ NextTask
    /\ UNCHANGED <<paper, lineage, evidence, exitCursor, records, book, compare, faults>>
-----------------------------------------------------------------------------
(* _execute, up to the first step that is not done yet.                    *)
Executing == pc \in {"execute entries", "execute exits"} /\ todo # <<>>
Current   == Head(todo)
Running   == Executing /\ raised = NONE /\ work[Current] = "open"
Raise(e)  == raised' = e /\ UNCHANGED <<pc, todo, abort>>

(* Mistake: an exit runs whatever became of its parent.                    *)
ParentIgnored(i)  == FALSE
ParentUnsound(i) == i \in Exits /\ integrity[ParentEntry[i]] # NONE

Claim ==
    /\ Executing /\ raised = NONE /\ work[Current] = NONE
    /\ work' = [work EXCEPT ![Current] = "open"]
    /\ UNCHANGED <<paper, bridge, records, inventory, compare, process, faults>>

RefuseOrphan ==
    /\ Running /\ ParentUnsound(Current)
    /\ Raise("replay")
    /\ UNCHANGED <<paper, bridge, records, book, compare, faults>>

Step      == Pipeline(Current)[Min(Pending(Current))]
NextIs(a) == /\ Running /\ ~ParentUnsound(Current)
             /\ Pending(Current) # {} /\ Step.do = a

AskNetwork ==
    /\ NextIs("ask") /\ answer[Current][Step.what] = NONE
    /\ \E a \in Answers[Current][Step.what] :
          answer' = [answer EXCEPT ![Current][Step.what] = a]
    /\ UNCHANGED <<paper, bridge, hist, kept, failure, integrity, book, compare, process, faults>>

JournaledError ==
    /\ NextIs("ask") /\ answer[Current][Step.what] = "error"
    /\ Raise("rpc")
    /\ UNCHANGED <<paper, bridge, records, book, compare, faults>>

RefuseEvidence ==
    /\ NextIs("refuse")
    /\ Raise(Step.what)
    /\ UNCHANGED <<paper, bridge, records, book, compare, faults>>

Transit ==
    /\ NextIs("to")
    /\ IF Step.what \in Allowed[State(Current)]
       THEN hist' = [hist EXCEPT ![Current] = Append(@, <<Step.what, Step.by>>)]
            /\ UNCHANGED process
       ELSE Raise("invalid") /\ UNCHANGED hist
    /\ UNCHANGED <<paper, bridge, kept, journal, book, compare, faults>>

KeepEvidence ==
    /\ NextIs("keep")
    /\ IF Belongs(Current, Step) /\ Step.what \notin {k[1] : k \in kept[Current]}
       THEN kept' = [kept EXCEPT ![Current] = @ \cup {<<Step.what, Step.by>>}]
            /\ UNCHANGED process
       ELSE Raise("determinism") /\ UNCHANGED kept
    /\ UNCHANGED <<paper, bridge, hist, journal, book, compare, faults>>

Mishap ==
    /\ Running /\ mishaps < MaxMishaps
    /\ mishaps' = mishaps + 1 /\ Raise("mishap")
    /\ UNCHANGED <<paper, bridge, records, book, compare, crashes>>

(* The handler: record the failure, then bring the intent to a terminal    *)
(* state, or mark a terminal one as unsound.  A record that says otherwise *)
(* raises out of the cycle.                                                *)
Handling == Executing /\ raised \notin {NONE, "settled"}
Handled  == Handling /\ failure[Current] = raised
Settled  == raised' = "settled" /\ UNCHANGED <<pc, todo, abort>>

RecordFailure ==
    /\ Handling /\ failure[Current] = NONE
    /\ failure' = [failure EXCEPT ![Current] = raised]
    /\ UNCHANGED <<paper, bridge, hist, kept, answer, integrity, book, compare, process, faults>>

FailureConflict ==
    /\ Handling /\ failure[Current] \notin {NONE, raised}
    /\ Ended("conflict", Current)
    /\ UNCHANGED <<paper, bridge, records, book, compare, faults>>

FailureTarget(i) ==
    IF /\ raised \in {"quote", "plan"}
       /\ State(i) \in {"CREATED", "ELIGIBILITY_CHECKED", "ROUTE_BOUND", "QUOTE_BOUND"}
    THEN "REJECTED" ELSE "FAILED"

(* ReplayConflict is a ShadowDeterminismConflict.  A crash between FAILED  *)
(* and done makes the handler meet its own terminal state, and a conflict  *)
(* that had failed the intent in good order now marks it as unsound.       *)
Suspect(i) == raised \in {"determinism", "replay"} \/ State(i) = "COMPLETED"

FailIntent ==
    /\ Handled /\ State(Current) \notin Terminal
    /\ hist' = [hist EXCEPT ![Current] = Append(@, <<FailureTarget(Current), raised>>)]
    /\ Settled
    /\ UNCHANGED <<paper, bridge, kept, journal, book, compare, faults>>

MarkUnsound ==
    /\ Handled /\ State(Current) \in Terminal /\ Suspect(Current)
    /\ integrity' = [integrity EXCEPT ![Current] = raised]
    /\ Settled
    /\ UNCHANGED <<paper, bridge, hist, kept, answer, failure, book, compare, faults>>

Finish ==
    /\ Executing
    /\ \/ Running /\ ~ParentUnsound(Current) /\ Pending(Current) = {}
       \/ Handled /\ State(Current) \in Terminal /\ ~Suspect(Current)
       \/ raised = "settled"
    /\ work' = [work EXCEPT ![Current] = "done"]
    /\ todo' = Tail(todo) /\ raised' = NONE
    /\ UNCHANGED <<paper, bridge, records, inventory, compare, pc, abort, faults>>
-----------------------------------------------------------------------------
(* _inventories: the chain is replayed from the journal alone.             *)
Sound(e) == integrity[e] = NONE /\ State(e) = "COMPLETED"

Materialize ==
    /\ At("inventories") /\ Sound(Current) /\ Current \notin inventory
    /\ IF Pending(Current) = {}
       THEN inventory' = inventory \cup {Current} /\ UNCHANGED integrity
       ELSE integrity' = [integrity EXCEPT ![Current] = "replay"] /\ UNCHANGED inventory
    /\ UNCHANGED <<paper, bridge, hist, kept, answer, failure, work, compare, process, faults>>

MaterializeFails ==
    /\ At("inventories") /\ Sound(Current) /\ mishaps < MaxMishaps
    /\ mishaps' = mishaps + 1
    /\ integrity' = [integrity EXCEPT ![Current] = "mishap"]
    /\ UNCHANGED <<paper, bridge, hist, kept, answer, failure, book, compare, process, crashes>>

InventoryDone ==
    /\ At("inventories") /\ (Sound(Current) => Current \in inventory)
    /\ work' = [work EXCEPT ![Current] = "inventoried"]
    /\ NextTask
    /\ UNCHANGED <<paper, bridge, records, inventory, compare, faults>>
-----------------------------------------------------------------------------
(* poll_exit_once.                                                         *)
Parent     == ParentEntry[Head(todo)]
Polling(S) == At("exits") /\ Parent \in lineage /\ State(Parent) \in S

LateParent ==
    /\ At("exits") /\ Parent \notin lineage
    /\ Ended("late parent", Head(todo))
    /\ UNCHANGED <<paper, bridge, records, book, compare, faults>>

WaitForEntry ==
    /\ At("exits") /\ Parent \in lineage /\ State(Parent) \notin Terminal
    /\ todo' = <<>>
    /\ UNCHANGED <<paper, bridge, records, book, compare, pc, raised, abort, faults>>

NoPosition ==
    /\ Polling(Negative) /\ evidence[Head(todo)] = NONE
    /\ evidence' = [evidence EXCEPT ![Head(todo)] = "NO_POSITION"]
    /\ UNCHANGED <<paper, lineage, cursor, exitCursor, records, book, compare, process, faults>>

MissingInventory ==
    /\ Polling({"COMPLETED"}) /\ Parent \notin inventory
    /\ Ended("no inventory", Head(todo))
    /\ UNCHANGED <<paper, bridge, records, book, compare, faults>>

RegisterExit ==
    /\ Polling({"COMPLETED"}) /\ Parent \in inventory /\ ~Registered(Head(todo))
    /\ Create(Head(todo))
    /\ UNCHANGED <<paper, bridge, kept, journal, book, compare, process, faults>>

PersistExitEvidence ==
    /\ Polling({"COMPLETED"}) /\ Registered(Head(todo)) /\ evidence[Head(todo)] = NONE
    /\ evidence' = [evidence EXCEPT ![Head(todo)] = "EXIT_INTENT"]
    /\ UNCHANGED <<paper, lineage, cursor, exitCursor, records, book, compare, process, faults>>

AdvanceExitCursor ==
    /\ At("exits") /\ evidence[Head(todo)] # NONE
    /\ exitCursor' = exitCursor + 1 /\ NextTask
    /\ UNCHANGED <<paper, lineage, cursor, evidence, records, book, compare, faults>>
-----------------------------------------------------------------------------
(* persist_comparison and the scan after it are two commits.               *)
Classification(i) ==
    IF integrity[i] # NONE THEN "INTEGRITY_FAILURE"
    ELSE CASE State(i) = "COMPLETED" -> "SIM_SUCCESS"
           [] State(i) \in Negative  -> "NON_SUCCESS"
           [] OTHER                  -> "PENDING"

Compare ==
    /\ At("compare") /\ heads[Current] # Classification(Current)
    /\ heads' = [heads EXCEPT ![Current] = Classification(Current)]
    /\ UNCHANGED <<paper, bridge, records, book, scan, process, faults>>

AdvanceScan ==
    /\ At("compare") /\ heads[Current] = Classification(Current)
    /\ scan' = Current /\ NextTask
    /\ UNCHANGED <<paper, bridge, records, book, heads, faults>>
-----------------------------------------------------------------------------
Paper   == AppendContext \/ \E x \in Exits : AppendExit(x)
Bridge  == \/ RegisterEntry \/ PersistLineage \/ AdvanceCursor
           \/ LateParent \/ WaitForEntry \/ NoPosition \/ MissingInventory
           \/ RegisterExit \/ PersistExitEvidence \/ AdvanceExitCursor
Execute == \/ Claim \/ RefuseOrphan \/ AskNetwork \/ JournaledError \/ RefuseEvidence
           \/ Transit \/ KeepEvidence \/ Finish
Handle  == RecordFailure \/ FailureConflict \/ FailIntent \/ MarkUnsound
Gather  == Materialize \/ InventoryDone \/ Compare \/ AdvanceScan
Sidecar == Open \/ BeginCycle \/ NextStage \/ Bridge \/ Execute \/ Handle \/ Gather
Fault   == Crash \/ Mishap \/ MaterializeFails

Next == Paper \/ Sidecar \/ Close \/ Fault

(* The cycle runs on by itself, and a sidecar that ended is opened again.  *)
Spec == Init /\ [][Next]_vars /\ WF_vars(Sidecar)
-----------------------------------------------------------------------------
Exceptions == {"rpc", "quote", "plan", "replay", "invalid", "determinism", "mishap"}

(* Every variable is of its kind, and no cursor is ahead of the paper      *)
(* database it reads.                                                      *)
TypeOK ==
    /\ contexts \in 0 .. NumEntries
    /\ Range(exitRows) \subseteq Exits /\ Len(exitRows) = Cardinality(Range(exitRows))
    /\ lineage \subseteq Entries /\ cursor \in 0 .. contexts
    /\ exitCursor \in 0 .. Len(exitRows)
    /\ \A x \in Exits   : evidence[x] \in {NONE, "EXIT_INTENT", "NO_POSITION"}
    /\ \A i \in Intents :
          /\ Registered(i) => State(i) \in DOMAIN Allowed
          /\ failure[i] \in Exceptions \cup {NONE}
          /\ integrity[i] \in Exceptions \cup {NONE}
          /\ work[i] \in {NONE, "open", "done", "inventoried"}
          /\ heads[i] \in {NONE, "PENDING", "SIM_SUCCESS", "NON_SUCCESS", "INTEGRITY_FAILURE"}
    /\ inventory \subseteq Entries /\ scan \in Intents \cup {0}
    /\ Range(todo) \subseteq Intents /\ raised \in Exceptions \cup {NONE, "settled"}
    /\ abort[1] \in {NONE, "conflict", "late parent", "no inventory"}
    /\ crashes \in 0 .. MaxCrashes /\ mishaps \in 0 .. MaxMishaps

(* Whatever the point a crash fell on, the cursors tell what was bridged:  *)
(* every row at or before a cursor has its intent and its lineage or       *)
(* evidence, no row beyond the next one has any, and an exit without a     *)
(* position never became an intent.                                        *)
CursorsTellBridged ==
    /\ \A e \in Entries : /\ e <= cursor => e \in lineage
                          /\ e \in lineage => e <= cursor + 1 /\ Registered(e)
                          /\ Registered(e) => e <= cursor + 1
    /\ \A n \in DOMAIN exitRows :
          LET x == exitRows[n] IN
          /\ n <= exitCursor => evidence[x] # NONE
          /\ evidence[x] # NONE \/ Registered(x) => n <= exitCursor + 1
          /\ evidence[x] = "EXIT_INTENT" => Registered(x)
          /\ evidence[x] = "NO_POSITION" => ~Registered(x)

(* What the intent's answers, once journaled, must lead to.                *)
Verdict(i) ==
    LET a == answer[i] IN
    IF ParentUnsound(i) \/ "error" \in {a[q] : q \in Questions} \/ a.actor = "malformed"
    THEN "FAILED"
    ELSE IF \/ a.venue \in {"routeless", "unquotable"} \/ a.actor = "unplannable"
            \/ a.actor = "nobase" /\ i \in Exits    THEN "REJECTED"
    ELSE CASE a.sim = "success" -> "COMPLETED"
           [] a.sim = "expired" -> "EXPIRED"
           [] OTHER             -> "FAILED"

(* Failures that are an answer, or that of the parent of an exit.          *)
Regular    == {"rpc", "quote", "plan", "replay"}
Grounds(i) == {answer[i][q] : q \in Questions} \cup {"row", "intent"} \cup Regular

(* However often a crash made the pipeline start again, a finished intent  *)
(* reached the one verdict its journaled answers lead to, and every row of *)
(* its history and of its evidence rests on an answer that is still in the *)
(* journal: nothing survives of an answer the process lost.  It is marked  *)
(* as unsound only if it completed, or if it failed on a conflict of the   *)
(* replay and a crash then made the handler meet its own terminal state.   *)
VerdictFollowsJournal ==
    \A i \in Intents :
        work[i] \in {"done", "inventoried"} /\ failure[i] \in Regular \cup {NONE} =>
            /\ State(i) = Verdict(i)
            /\ \A h \in Range(hist[i]) \cup kept[i] : h[2] \in Grounds(i)
            /\ integrity[i] # NONE =>
                  State(i) = "COMPLETED" \/ (failure[i] = "replay" /\ crashes > 0)

(* An exit is executed only for what its entry would hold: its parent has  *)
(* completed with an inventory, no exit succeeds under a parent known to   *)
(* be unsound, and an exit is waived only when its parent failed.          *)
ExitsFollowParent ==
    /\ inventory \subseteq {e \in Entries : State(e) = "COMPLETED"}
    /\ \A x \in Exits :
          LET p == ParentEntry[x] IN
          /\ Registered(x) => p \in inventory
          /\ State(x) = "COMPLETED" => integrity[p] = NONE
          /\ evidence[x] = "NO_POSITION" => State(p) \in Negative

(* An exception leaves a cycle for three reasons only.  The parent of an   *)
(* exit row has not been bridged yet.  A completed parent has no           *)
(* inventory: it is unsound, or a crash left it finished in everything but *)
(* its work row, behind others that did await theirs.  Or the record of a  *)
(* failure disagrees with its replay, which takes a mishap and a crash.    *)
AbortsExplained ==
    LET i == abort[2] IN
    /\ abort[1] = "late parent"  => ParentEntry[i] > cursor
    /\ abort[1] = "no inventory" => \/ integrity[ParentEntry[i]] # NONE
                                    \/ work[ParentEntry[i]] = "open" /\ crashes > 0
    /\ abort[1] = "conflict"     => mishaps > 0 /\ crashes > 0

Arrived(i) == IF i \in Entries THEN i <= contexts ELSE i \in Range(exitRows)
Observed(i) ==
    \/ i \in Exits /\ evidence[i] = "NO_POSITION"
    \/ work[i] \in {"done", "inventoried"} /\ heads[i] = Classification(i)

(* Without mishaps the sidecar catches up again and again: every row the   *)
(* paper database has is executed or waived and its latest comparison      *)
(* tells how it ended, whatever the order exits arrive in, wherever a      *)
(* crash falls and however often an exception left a cycle.                *)
EverythingObserved == []<>(mishaps > 0 \/ \A i \in Intents : Arrived(i) => Observed(i))
=============================================================================
