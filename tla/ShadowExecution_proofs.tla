----------------------- MODULE ShadowExecution_proofs -----------------------
(***************************************************************************)
(* Proofs about ShadowExecution, for any rows, parents, answers, cycle     *)
(* limits, crashes and mishaps.  Two invariants:                           *)
(*                                                                         *)
(* IInv.  The cursors tell what was bridged, and an exit follows the fate  *)
(* of its entry.  The two need one invariant, since what the current stage *)
(* has read (Queue) ties the cursors, the work rows and the inventories    *)
(* together.                                                               *)
(*                                                                         *)
(* JInv.  An intent has taken the first steps of its pipeline and no other *)
(* (Trail), although the pipeline itself grows with every answer; what a   *)
(* process that did not crash leaves open is what it executes (Course);    *)
(* and an exception left a cycle for a reason (Aborts).                    *)
(*                                                                         *)
(* From JInv, with what is known of an unsound intent (Marked), no step    *)
(* takes back what the shadow database holds (OnlyForward).  With who can  *)
(* be found fallen and open (FellNow), and so who is marked as unsound     *)
(* though it did not complete (Unsound), verdicts follow the journal.      *)
(***************************************************************************)
EXTENDS ShadowExecution, LeastNumber, SequenceTheorems

IsSeq(h) == \E T : h \in Seq(T)

Distinct(q) == \A m, n \in DOMAIN q : q[m] = q[n] => m = n

Shape ==
    /\ contexts \in 0 .. NumEntries /\ cursor \in 0 .. contexts
    /\ exitRows \in Seq(Exits) /\ exitCursor \in 0 .. Len(exitRows) /\ Distinct(exitRows)
    /\ lineage \subseteq Entries /\ inventory \subseteq Entries
    /\ evidence \in [Exits -> {NONE, "EXIT_INTENT", "NO_POSITION"}]
    /\ work \in [Intents -> {NONE, "open", "done", "inventoried"}]
    /\ DOMAIN integrity = Intents /\ DOMAIN hist = Intents
    /\ \A i \in Intents : IsSeq(hist[i])
    /\ todo \in Seq(Intents)

(* What a stage has read and not handled is still there to be handled.     *)
Queue ==
    /\ pc = "entries" =>
          \A n \in DOMAIN todo : todo[n] = cursor + n /\ todo[n] <= contexts
    /\ pc \in {"execute entries", "inventories"} => Distinct(todo)
    /\ pc = "execute entries" =>
          \A n \in DOMAIN todo : /\ todo[n] \in Entries /\ Registered(todo[n])
                                 /\ work[todo[n]] \notin {"done", "inventoried"}
    /\ pc = "inventories" =>
          \A n \in DOMAIN todo : todo[n] \in Entries /\ work[todo[n]] = "done"
    /\ pc = "exits" =>
          /\ \A n \in DOMAIN todo : /\ exitCursor + n <= Len(exitRows)
                                    /\ todo[n] = exitRows[exitCursor + n]
          /\ todo # <<>> => Unclaimed = {}
    /\ pc = "execute exits" =>
          \A n \in DOMAIN todo : todo[n] \in Exits /\ Registered(todo[n])

(* The rows at and behind the cursors, and the rows not there yet.         *)
Bridged ==
    /\ CursorsTellBridged
    /\ \A x \in Exits : x \notin {exitRows[n] : n \in DOMAIN exitRows} =>
          evidence[x] = NONE /\ ~Registered(x)

(* An entry whose exit is known is over and done with.                     *)
Parents ==
    /\ ExitsFollowParent
    /\ \A x \in Exits : Registered(x) => work[ParentEntry[x]] = "inventoried"
    /\ \A e \in inventory : work[e] \in {"done", "inventoried"}

IInv == Shape /\ Queue /\ Bridged /\ Parents
-----------------------------------------------------------------------------
(* Entries and exits are numbers, and no entry is an exit.                 *)
LEMMA Numbers ==
    /\ Intents \subseteq Nat /\ Entries \subseteq Nat
    /\ Entries \subseteq Intents /\ Exits \subseteq Intents
    /\ \A i : ~(i \in Entries /\ i \in Exits)
    /\ IsFiniteSet(Intents)
    /\ \A x \in Exits : ParentEntry[x] \in Entries
<1>1. IsFiniteSet(Entries) /\ IsFiniteSet(Exits)
  BY CountAssumption, FS_Interval DEF Entries, Exits
<1>2. IsFiniteSet(Intents)
  BY <1>1, FS_Union DEF Intents
<1> QED BY <1>2, CountAssumption, ParentAssumption DEF Intents, Entries, Exits

LEMMA MinBelow ==
    ASSUME NEW a \in Nat, NEW b \in Nat
    PROVE  Min({a, b}) \in Nat /\ Min({a, b}) <= b
<1>1. \E x \in {a, b} : \A y \in {a, b} : x <= y
  <2>1. CASE a <= b
    BY <2>1
  <2>2. CASE ~(a <= b)
    BY <2>2
  <2> QED BY <2>1, <2>2
<1>2. Min({a, b}) \in {a, b} /\ \A y \in {a, b} : Min({a, b}) <= y
  BY <1>1 DEF Min
<1> QED BY <1>2

(* What a stage reads of a set are members of it, none of them twice.      *)
LEMMA SomeMembers ==
    ASSUME NEW S, S \subseteq Intents
    PROVE  /\ Some(S) \in Seq(S) /\ Some(S) \in Seq(Intents)
           /\ Distinct(Some(S))
<1> DEFINE m == Min({CycleLimit, Cardinality(S)})
           Rank(i) == Cardinality({j \in S : j < i})
<1>1. S \subseteq Nat /\ IsFiniteSet(S)
  BY Numbers, FS_Subset
<1>2. Cardinality(S) \in Nat
  BY <1>1, FS_CardinalityType
<1>3. m \in Nat /\ m <= Cardinality(S)
  BY <1>2, MinBelow, CountAssumption
<1>4. Some(S) = [n \in 1 .. m |-> CHOOSE i \in S : Rank(i) = n - 1]
  BY DEF Some
<1> HIDE DEF m
<1>5. ASSUME NEW n \in 1 .. m PROVE Some(S)[n] \in S /\ Rank(Some(S)[n]) = n - 1
  <2>1. n - 1 \in Nat /\ n - 1 < Cardinality(S)
    BY <1>2, <1>3
  <2>2. \E i \in S : Rank(i) = n - 1
    BY <1>1, <2>1, RankExists
  <2> HIDE DEF Rank
  <2> QED BY <1>4, <2>2
<1>6. DOMAIN Some(S) = 1 .. m
  BY <1>4
<1>7. Distinct(Some(S))
  <2> SUFFICES ASSUME NEW k \in 1 .. m, NEW n \in 1 .. m, Some(S)[k] = Some(S)[n]
               PROVE  k = n
    BY <1>6 DEF Distinct
  <2>1. k - 1 = n - 1
    BY <1>5
  <2> QED BY <1>3, <2>1
<1>8. Some(S) \in [1 .. m -> S]
  <2> HIDE DEF Rank
  <2> QED BY <1>4, <1>5
<1> QED BY <1>3, <1>7, <1>8

(* The first of a queue, and the others.                                   *)
LEMMA QueueHead ==
    ASSUME NEW S, NEW q \in Seq(S), q # <<>>
    PROVE  /\ 1 \in DOMAIN q /\ Head(q) = q[1] /\ Head(q) \in S
           /\ Tail(q) \in Seq(S)
           /\ \A n \in DOMAIN Tail(q) : n \in Nat /\ n >= 1
                                        /\ n + 1 \in DOMAIN q /\ Tail(q)[n] = q[n + 1]
<1>1. Len(q) \in Nat \ {0} /\ DOMAIN q = 1 .. Len(q)
  BY EmptySeq, LenProperties
<1>2. /\ Tail(q) \in Seq(S) /\ Len(Tail(q)) = Len(q) - 1 /\ Head(q) \in S
      /\ \A i \in 1 .. Len(Tail(q)) : Tail(q)[i] = q[i + 1]
  BY HeadTailProperties
<1>3. DOMAIN Tail(q) = 1 .. Len(Tail(q))
  BY <1>2
<1>4. Head(q) = q[1]
  OBVIOUS
<1> QED BY <1>1, <1>2, <1>3, <1>4

(* The history of one intent grows, or begins.                             *)
LEMMA AppendState ==
    ASSUME DOMAIN hist = Intents, \A j \in Intents : IsSeq(hist[j]),
           NEW i \in Intents, NEW w, NEW by,
           \/ hist' = [hist EXCEPT ![i] = Append(@, <<w, by>>)]
           \/ hist' = [hist EXCEPT ![i] = <<<<w, by>>>>]
    PROVE  /\ DOMAIN hist' = Intents /\ \A j \in Intents : IsSeq(hist'[j])
           /\ State(i)' = w /\ Registered(i)'
           /\ \A j \in Intents : j # i => State(j)' = State(j)
           /\ \A j \in Intents : j # i => (Registered(j)' <=> Registered(j))
<1> DEFINE h == hist'[i]
<1>1. /\ DOMAIN hist' = Intents
      /\ \A j \in Intents : j # i => hist'[j] = hist[j]
      /\ h = Append(hist[i], <<w, by>>) \/ h = <<<<w, by>>>>
  OBVIOUS
<1>2. h # <<>> /\ IsSeq(h) /\ Last(h) = <<w, by>>
  <2>1. CASE h = Append(hist[i], <<w, by>>)
    <3>1. PICK T : hist[i] \in Seq(T)
      BY DEF IsSeq
    <3> DEFINE U == T \cup {<<w, by>>}
    <3>2. hist[i] \in Seq(U) /\ <<w, by>> \in U
      BY <3>1
    <3>3. /\ h \in Seq(U) /\ h # <<>> /\ Len(h) = Len(hist[i]) + 1
          /\ h[Len(hist[i]) + 1] = <<w, by>>
      BY <2>1, <3>2, AppendProperties
    <3> QED BY <3>3 DEF IsSeq, Last
  <2>2. CASE h = <<<<w, by>>>>
    <3>1. h \in Seq({<<w, by>>}) /\ Len(h) = 1 /\ h[1] = <<w, by>> /\ h # <<>>
      BY <2>2
    <3> QED BY <3>1 DEF IsSeq, Last
  <2> QED BY <1>1, <2>1, <2>2
<1>3. State(i)' = w /\ Registered(i)'
  BY <1>2 DEF State, Registered
<1> HIDE DEF h
<1>4. \A j \in Intents : IsSeq(hist'[j])
  BY <1>1, <1>2 DEF h
<1> QED BY <1>1, <1>3, <1>4 DEF State, Registered
-----------------------------------------------------------------------------
(* Steps that leave rows, histories, work, evidence and inventories alone. *)
Store == <<paper, bridge, hist, integrity, work, inventory>>

LEMMA StoreKeeps ==
    ASSUME IInv, UNCHANGED Store, todo' \in Seq(Intents), Queue' PROVE IInv'
<1>1. /\ UNCHANGED <<contexts, exitRows, lineage, cursor, evidence, exitCursor, hist,
                     integrity, work, inventory>>
  BY DEF Store, paper, bridge
<1>2. Shape'
  BY <1>1 DEF IInv, Shape
<1>3. Bridged'
  BY <1>1 DEF IInv, Bridged, CursorsTellBridged, Registered
<1>4. Parents'
  BY <1>1 DEF IInv, Parents, ExitsFollowParent, Registered, State
<1> QED BY <1>2, <1>3, <1>4 DEF IInv

(* The stage goes on as it was.                                            *)
LEMMA SameQueue ==
    ASSUME IInv, UNCHANGED <<Store, pc, todo>> PROVE IInv'
<1>1. UNCHANGED <<contexts, exitRows, cursor, exitCursor, hist, work, pc, todo>>
  BY DEF Store, paper, bridge
<1>2. Queue'
  BY <1>1 DEF IInv, Queue, Registered, Unclaimed
<1> QED BY <1>2, StoreKeeps DEF IInv, Shape

(* There is nothing left in the queue, or nothing depends on it.           *)
LEMMA EmptyQueue ==
    ASSUME IInv, UNCHANGED Store,
           \/ todo' = <<>>
           \/ todo' \in Seq(Intents) /\ pc' \in {"compare", "rest", "down", "opened"}
    PROVE  IInv'
<1>1. todo' \in Seq(Intents)
  BY EmptySeq
<1>2. Queue'
  <2>1. CASE todo' = <<>>
    <3>1. DOMAIN todo' = {} /\ Distinct(todo')
      BY <2>1 DEF Distinct
    <3> QED BY <2>1, <3>1 DEF Queue, Distinct
  <2>2. CASE pc' \in {"compare", "rest", "down", "opened"}
    BY <2>2 DEF Queue
  <2> QED BY <2>1, <2>2
<1> QED BY <1>1, <1>2, StoreKeeps

LEMMA ProcessStep ==
    ASSUME IInv,
           \/ Open \/ Close \/ Crash \/ LateParent \/ WaitForEntry \/ MissingInventory
           \/ FailureConflict \/ AdvanceScan
    PROVE  IInv'
<1>1. UNCHANGED Store
  BY DEF Open, Close, Crash, LateParent, WaitForEntry, MissingInventory, FailureConflict,
         AdvanceScan, Store, records, journal, book
<1>2. CASE Open
  BY <1>1, <1>2, EmptyQueue DEF Open, IInv, Shape
<1>3. CASE Close \/ Crash \/ LateParent \/ WaitForEntry \/ MissingInventory \/ FailureConflict
  BY <1>1, <1>3, EmptyQueue DEF Close, Crash, LateParent, WaitForEntry, MissingInventory,
     FailureConflict, Ended
<1>4. CASE AdvanceScan
  <2>1. pc' = "compare" /\ todo' = Tail(todo) /\ todo # <<>>
    BY <1>4 DEF AdvanceScan, At, NextTask
  <2>2. todo' \in Seq(Intents)
    BY <2>1, QueueHead DEF IInv, Shape
  <2> QED BY <1>1, <2>1, <2>2, EmptyQueue
<1> QED BY <1>2, <1>3, <1>4

LEMMA AnswerStep ==
    ASSUME IInv,
           \/ AskNetwork \/ JournaledError \/ RefuseEvidence \/ RefuseOrphan \/ KeepEvidence
           \/ Mishap \/ RecordFailure \/ Compare
    PROVE  IInv'
<1>1. UNCHANGED <<Store, pc, todo>>
  BY DEF AskNetwork, JournaledError, RefuseEvidence, RefuseOrphan, KeepEvidence, Mishap,
         RecordFailure, Compare, Raise, Store, records, journal, book, process
<1> QED BY <1>1, SameQueue

(* A stage reads what it will handle.                                      *)
LEMMA StageStep ==
    ASSUME IInv, BeginCycle \/ NextStage PROVE IInv'
<1>1. UNCHANGED Store
  BY DEF BeginCycle, NextStage, Store, records, journal, book
<1>2. \A i \in Scope : i \in Intents /\ Registered(i)
  <2>1. \A e \in lineage : e \in Intents /\ Registered(e)
    BY Numbers DEF IInv, Bridged, CursorsTellBridged, Shape
  <2>2. ASSUME NEW x \in Exits, evidence[x] = "EXIT_INTENT" PROVE Registered(x)
    <3>1. PICK n \in DOMAIN exitRows : exitRows[n] = x
      BY <2>2, NoneAssumption DEF IInv, Bridged
    <3> QED BY <2>2, <3>1 DEF IInv, Bridged, CursorsTellBridged
  <2> QED BY <2>1, <2>2, Numbers DEF Scope
<1> USE DEF Enter
<1>3. CASE BeginCycle
  <2> DEFINE m == Min({CycleLimit, contexts - cursor})
  <2>1. contexts \in Nat /\ cursor \in Nat /\ cursor <= contexts
    BY CountAssumption DEF IInv, Shape
  <2>2. contexts - cursor \in Nat
    BY <2>1
  <2>3. m \in Nat /\ m <= contexts - cursor
    BY <2>2, MinBelow, CountAssumption
  <2>4. pc' = "entries" /\ todo' = [n \in 1 .. m |-> cursor + n]
    BY <1>3 DEF BeginCycle, EntryRows
  <2> HIDE DEF m
  <2>5. ASSUME NEW n \in 1 .. m
        PROVE  todo'[n] = cursor + n /\ todo'[n] <= contexts /\ todo'[n] \in Intents
    <3>1. todo'[n] = cursor + n
      BY <2>4
    <3>2. cursor + n <= contexts /\ contexts <= NumEntries /\ NumEntries \in Nat
      BY <2>1, <2>2, <2>3, CountAssumption DEF IInv, Shape
    <3>3. cursor + n \in 1 .. NumEntries
      BY <2>1, <2>3, <3>2
    <3> QED BY <3>1, <3>2, <3>3, Numbers DEF Entries
  <2>6. todo' \in [1 .. m -> Intents]
    BY <2>4, <2>5
  <2>7. todo' \in Seq(Intents) /\ DOMAIN todo' = 1 .. m
    BY <2>3, <2>6
  <2>8. Queue'
    BY <1>1, <2>4, <2>5, <2>7 DEF Queue, Store, paper, bridge
  <2> QED BY <1>1, <2>7, <2>8, StoreKeeps
<1>4. CASE NextStage /\ pc = "entries"
  <2> DEFINE W == {i \in Entries \cap Scope : work[i] \notin {"done", "inventoried"}}
  <2>1. /\ pc' = "execute entries"
        /\ todo' = Some(W) \/ todo' = <<>>
    BY <1>4 DEF NextStage, Waiting
  <2>2. CASE todo' = Some(W)
    <3>1. W \subseteq Intents
      BY Numbers
    <3>2. Some(W) \in Seq(W) /\ Some(W) \in Seq(Intents) /\ Distinct(Some(W))
      BY <3>1, SomeMembers
    <3>3. \A n \in DOMAIN todo' : todo'[n] \in W
      BY <2>2, <3>2, ElementOfSeq, LenProperties
    <3>4. Distinct(todo)'
      BY <2>2, <3>2 DEF Distinct
    <3>5. Queue'
      BY <1>1, <1>2, <2>1, <3>3, <3>4 DEF Queue, Store, Registered
    <3> QED BY <1>1, <2>2, <3>2, <3>5, StoreKeeps
  <2> QED BY <1>1, <2>1, <2>2, EmptyQueue
<1>5. CASE NextStage /\ pc = "execute entries"
  <2>1. pc' = "inventories" /\ todo' = Some(Unclaimed)
    BY <1>5 DEF NextStage
  <2>2. Unclaimed \subseteq Intents
    BY Numbers DEF Unclaimed
  <2>3. Some(Unclaimed) \in Seq(Unclaimed) /\ Some(Unclaimed) \in Seq(Intents)
        /\ Distinct(Some(Unclaimed))
    BY <2>2, SomeMembers
  <2>4. \A n \in DOMAIN todo' : todo'[n] \in Unclaimed
    BY <2>1, <2>3, ElementOfSeq, LenProperties
  <2>5. Distinct(todo)'
    BY <2>1, <2>3 DEF Distinct
  <2>6. Queue'
    BY <1>1, <2>1, <2>4, <2>5 DEF Queue, Store, Unclaimed
  <2> QED BY <1>1, <2>1, <2>3, <2>6, StoreKeeps
<1>6. CASE NextStage /\ pc = "inventories"
  <2>1. pc' = "exits" /\ todo' = AwaitedExits
    BY <1>6 DEF NextStage
  <2>2. CASE Unclaimed # {}
    BY <1>1, <2>1, <2>2, EmptyQueue DEF AwaitedExits
  <2>3. CASE Unclaimed = {}
    <3> DEFINE b == Min({exitCursor + CycleLimit, Len(exitRows)})
    <3>1. Len(exitRows) \in Nat /\ exitCursor \in Nat /\ exitCursor <= Len(exitRows)
          /\ DOMAIN exitRows = 1 .. Len(exitRows)
      BY LenProperties DEF IInv, Shape
    <3>2. b \in Nat /\ b <= Len(exitRows)
      BY <3>1, MinBelow, CountAssumption
    <3>3. todo' = SubSeq(exitRows, exitCursor + 1, b)
      BY <2>1, <2>3 DEF AwaitedExits, ExitRows
    <3> HIDE DEF b
    <3>4. \A i \in exitCursor + 1 .. b : exitRows[i] \in Intents
      <4>1. \A i \in exitCursor + 1 .. b : i \in 1 .. Len(exitRows)
        BY <3>1, <3>2
      <4>2. \A i \in 1 .. Len(exitRows) : exitRows[i] \in Exits
        BY ElementOfSeq DEF IInv, Shape
      <4> QED BY <4>1, <4>2, Numbers
    <3>5. /\ todo' \in Seq(Intents)
          /\ Len(todo') = IF exitCursor + 1 <= b THEN b - (exitCursor + 1) + 1 ELSE 0
          /\ \A i \in 1 .. b - (exitCursor + 1) + 1 : todo'[i] = exitRows[exitCursor + 1 + i - 1]
      BY <3>1, <3>2, <3>3, <3>4, SubSeqProperties
    <3>6. DOMAIN todo' = 1 .. Len(todo')
      BY <3>5
    <3>7. \A n \in DOMAIN todo' : /\ exitCursor + n <= Len(exitRows)
                                  /\ todo'[n] = exitRows[exitCursor + n]
      <4> SUFFICES ASSUME NEW n \in DOMAIN todo'
                   PROVE  /\ exitCursor + n <= Len(exitRows)
                          /\ todo'[n] = exitRows[exitCursor + n]
        OBVIOUS
      <4>1. n \in 1 .. b - (exitCursor + 1) + 1 /\ exitCursor + 1 + n - 1 = exitCursor + n
        BY <3>1, <3>2, <3>5, <3>6
      <4> QED BY <3>1, <3>2, <3>5, <4>1, SMTT(30)
    <3>8. UNCHANGED <<exitCursor, exitRows, work>>
      BY <1>1 DEF Store, paper, bridge
    <3>9. Queue'
      BY <2>1, <2>3, <3>7, <3>8 DEF Queue, Unclaimed
    <3> QED BY <1>1, <3>5, <3>9, StoreKeeps
  <2> QED BY <2>2, <2>3
<1>7. CASE NextStage /\ pc = "exits"
  <2> DEFINE W == {i \in Exits \cap Scope : work[i] \notin {"done", "inventoried"}}
  <2>1. pc' = "execute exits" /\ todo' = Some(W)
    BY <1>7 DEF NextStage, Waiting
  <2>2. W \subseteq Intents
    BY Numbers
  <2>3. Some(W) \in Seq(W) /\ Some(W) \in Seq(Intents)
    BY <2>2, SomeMembers
  <2>4. \A n \in DOMAIN todo' : todo'[n] \in W
    <3> HIDE DEF W
    <3>1. DOMAIN Some(W) = 1 .. Len(Some(W))
      BY <2>3, LenProperties
    <3> QED BY <2>1, <2>3, <3>1, ElementOfSeq
  <2>5. Queue'
    BY <1>1, <1>2, <2>1, <2>4 DEF Queue, Store, Registered
  <2> QED BY <1>1, <2>1, <2>3, <2>5, StoreKeeps
<1>8. CASE NextStage /\ pc \in {"execute exits", "compare"}
  <2>1. /\ pc' \in {"compare", "rest"}
        /\ todo' = <<>> \/ (\E S : S \subseteq Intents /\ todo' = Some(S))
    <3>1. Scope \subseteq Intents /\ {i \in Scope : i > scan} \subseteq Intents
      BY <1>2
    <3> QED BY <1>8, <3>1 DEF NextStage, Compared
  <2>2. todo' \in Seq(Intents)
    BY <2>1, SomeMembers, EmptySeq
  <2> QED BY <1>1, <2>1, <2>2, EmptyQueue
<1> QED BY <1>3, <1>4, <1>5, <1>6, <1>7, <1>8 DEF NextStage
-----------------------------------------------------------------------------
(* The beginning: nothing read, nothing registered.                        *)
LEMMA InitGood == Init => IInv
<1> SUFFICES ASSUME Init PROVE IInv
  OBVIOUS
<1>1. /\ contexts = 0 /\ exitRows = <<>> /\ lineage = {} /\ cursor = 0 /\ exitCursor = 0
      /\ inventory = {} /\ todo = <<>> /\ pc = "down"
      /\ evidence = [x \in Exits |-> NONE] /\ hist = [i \in Intents |-> <<>>]
      /\ integrity = [i \in Intents |-> NONE] /\ work = [i \in Intents |-> NONE]
  BY DEF Init
<1>2. Len(exitRows) = 0 /\ DOMAIN exitRows = {}
  BY <1>1
<1>3. \A i \in Intents : IsSeq(hist[i]) /\ ~Registered(i) /\ State(i) = "UNREGISTERED"
  <2> SUFFICES ASSUME NEW i \in Intents
               PROVE  IsSeq(hist[i]) /\ ~Registered(i) /\ State(i) = "UNREGISTERED"
    OBVIOUS
  <2>1. hist[i] = <<>>
    BY <1>1
  <2>2. <<>> \in Seq({})
    BY EmptySeq
  <2> QED BY <2>1, <2>2 DEF IsSeq, Registered, State
<1>4. Shape
  <2>1. exitRows \in Seq(Exits) /\ todo \in Seq(Intents)
    BY <1>1, EmptySeq
  <2>2. contexts \in 0 .. NumEntries /\ cursor \in 0 .. contexts
        /\ exitCursor \in 0 .. Len(exitRows)
    BY <1>1, <1>2, CountAssumption
  <2>3. Distinct(exitRows)
    BY <1>2 DEF Distinct
  <2> QED BY <1>1, <1>3, <2>1, <2>2, <2>3 DEF Shape
<1>5. Queue
  BY <1>1 DEF Queue
<1>6. Bridged
  <2>1. \A e \in Entries : ~(e <= cursor) /\ ~Registered(e)
    <3>1. \A e \in Entries : ~(e <= 0)
      BY CountAssumption DEF Entries
    <3> QED BY <1>1, <1>3, <3>1, Numbers
  <2>2. \A x \in Exits : evidence[x] = NONE /\ ~Registered(x)
    BY <1>1, <1>3, Numbers
  <2> QED BY <1>1, <1>2, <2>1, <2>2 DEF Bridged, CursorsTellBridged
<1>7. Parents
  BY <1>1, <1>3, Numbers, NoneAssumption DEF Parents, ExitsFollowParent
<1> QED BY <1>4, <1>5, <1>6, <1>7 DEF IInv
-----------------------------------------------------------------------------
(* The history of an intent grows: one that is registered and not over, or *)
(* the intent of the row behind a cursor.                                  *)
Known(i) ==
    \/ Registered(i)
    \/ i \in Entries /\ i = cursor + 1
    \/ /\ i \in Exits /\ exitCursor + 1 \in DOMAIN exitRows /\ i = exitRows[exitCursor + 1]
       /\ ParentEntry[i] \in inventory /\ work[ParentEntry[i]] = "inventoried"

LEMMA HistoryStep ==
    ASSUME IInv, NEW i \in Intents, NEW w, NEW by, Known(i), State(i) \notin Terminal,
           \/ hist' = [hist EXCEPT ![i] = Append(@, <<w, by>>)]
           \/ hist' = [hist EXCEPT ![i] = <<<<w, by>>>>],
           i \in Exits /\ w = "COMPLETED" => integrity[ParentEntry[i]] = NONE,
           UNCHANGED <<paper, bridge, integrity, work, inventory, pc, todo>>
    PROVE  IInv'
<1>1. UNCHANGED <<contexts, exitRows, lineage, cursor, evidence, exitCursor, integrity, work,
                  inventory, pc, todo>>
  BY DEF paper, bridge
<1>2. /\ DOMAIN hist' = Intents /\ \A j \in Intents : IsSeq(hist'[j])
      /\ State(i)' = w /\ Registered(i)'
      /\ \A j \in Intents : j # i => State(j)' = State(j)
      /\ \A j \in Intents : j # i => (Registered(j)' <=> Registered(j))
  BY AppendState DEF IInv, Shape
<1>3. Shape'
  BY <1>1, <1>2 DEF IInv, Shape
<1>4. \A j \in Intents : Registered(j) => Registered(j)'
  BY <1>2
<1>5. Queue'
  <2>1. Unclaimed' = Unclaimed /\ (Distinct(todo)' <=> Distinct(todo))
    BY <1>1 DEF Unclaimed, Distinct
  <2>2. \A n \in DOMAIN todo : /\ todo[n] \in Entries /\ Registered(todo[n])
                                  => todo[n] \in Entries /\ Registered(todo[n])'
                               /\ todo[n] \in Exits /\ Registered(todo[n])
                                  => todo[n] \in Exits /\ Registered(todo[n])'
    BY <1>1, <1>4, Numbers
  <2> HIDE DEF Registered
  <2> QED BY <1>1, <2>1, <2>2 DEF IInv, Queue
<1>6. State(i) \notin {"COMPLETED"} \cup Negative
  BY DEF Terminal
<1>7. i \in Exits => evidence[i] # "NO_POSITION"
  <2> SUFFICES ASSUME i \in Exits, evidence[i] = "NO_POSITION" PROVE FALSE
    OBVIOUS
  <2>1. State(ParentEntry[i]) \in Negative
    BY DEF IInv, Parents, ExitsFollowParent
  <2>2. ParentEntry[i] \notin inventory
    BY <2>1 DEF IInv, Parents, ExitsFollowParent, Negative
  <2>3. ~Registered(i)
    BY <2>2 DEF IInv, Parents, ExitsFollowParent
  <2> QED BY <2>2, <2>3, Numbers DEF Known
<1>8. Bridged'
  <2>1. ASSUME NEW e \in Entries
        PROVE  /\ e <= cursor' => e \in lineage'
               /\ e \in lineage' => e <= cursor' + 1 /\ Registered(e)'
               /\ Registered(e)' => e <= cursor' + 1
    <3>1. /\ e <= cursor => e \in lineage
          /\ e \in lineage => e <= cursor + 1 /\ Registered(e)
          /\ Registered(e) => e <= cursor + 1
      BY DEF IInv, Bridged, CursorsTellBridged
    <3>2. CASE e # i
      BY <1>1, <1>2, <3>1, <3>2, Numbers
    <3>3. CASE e = i
      <4>1. e <= cursor + 1
        <5>1. e \in Nat /\ cursor \in Nat
          BY Numbers, CountAssumption DEF IInv, Shape
        <5> QED BY <3>1, <3>3, <5>1, Numbers DEF Known
      <4> QED BY <1>1, <1>2, <3>1, <3>3, <4>1
    <3> QED BY <3>2, <3>3
  <2>2. ASSUME NEW n \in DOMAIN exitRows, NEW x, x = exitRows[n]
        PROVE  /\ n <= exitCursor => evidence[x] # NONE
               /\ evidence[x] # NONE \/ Registered(x)' => n <= exitCursor + 1
               /\ evidence[x] = "EXIT_INTENT" => Registered(x)'
               /\ evidence[x] = "NO_POSITION" => ~Registered(x)'
    <3>1. /\ n <= exitCursor => evidence[x] # NONE
          /\ evidence[x] # NONE \/ Registered(x) => n <= exitCursor + 1
          /\ evidence[x] = "EXIT_INTENT" => Registered(x)
          /\ evidence[x] = "NO_POSITION" => ~Registered(x)
      BY <2>2 DEF IInv, Bridged, CursorsTellBridged
    <3>2. n \in 1 .. Len(exitRows) /\ x \in Exits /\ exitCursor \in Nat
      BY <2>2, LenProperties, ElementOfSeq DEF IInv, Shape
    <3>3. x \in Intents
      BY <3>2, Numbers
    <3>4. CASE x # i
      BY <1>2, <3>1, <3>3, <3>4
    <3>5. CASE x = i
      <4>1. n <= exitCursor + 1
        <5>1. CASE Registered(i)
          BY <3>1, <3>5, <5>1
        <5>2. CASE exitCursor + 1 \in DOMAIN exitRows /\ i = exitRows[exitCursor + 1]
          <6>1. n = exitCursor + 1
            BY <2>2, <3>5, <5>2 DEF IInv, Shape, Distinct
          <6> QED BY <3>2, <6>1
        <5> QED BY <3>2, <3>5, <5>1, <5>2, Numbers DEF Known
      <4>2. Registered(x)'
        BY <1>2, <3>5
      <4>3. evidence[x] # "NO_POSITION"
        BY <1>7, <3>2, <3>5
      <4> QED BY <3>1, <4>1, <4>2, <4>3
    <3> QED BY <3>4, <3>5
  <2>3. ASSUME NEW x \in Exits, x \notin {exitRows[n] : n \in DOMAIN exitRows}
        PROVE  evidence[x] = NONE /\ ~Registered(x)'
    <3>1. evidence[x] = NONE /\ ~Registered(x)
      BY <2>3 DEF IInv, Bridged
    <3>2. x # i
      BY <2>3, <3>1, Numbers DEF Known
    <3> QED BY <1>2, <3>1, <3>2, Numbers
  <2> QED BY <1>1, <2>1, <2>2, <2>3 DEF Bridged, CursorsTellBridged
<1>9. Parents'
  <2>1. ASSUME NEW e \in inventory PROVE State(e)' = "COMPLETED" /\ e # i
    <3>1. State(e) = "COMPLETED" /\ e \in Intents
      BY Numbers DEF IInv, Parents, ExitsFollowParent, Shape
    <3> QED BY <1>2, <1>6, <3>1
  <2>2. ASSUME NEW x \in Exits, Registered(x)'
        PROVE  ParentEntry[x] \in inventory /\ work[ParentEntry[x]] = "inventoried"
    <3>1. CASE Registered(x)
      BY <3>1 DEF IInv, Parents, ExitsFollowParent
    <3>2. CASE ~Registered(x)
      <4>1. x = i
        BY <1>2, <2>2, <3>2, Numbers
      <4> QED BY <3>2, <4>1, Numbers DEF Known
    <3> QED BY <3>1, <3>2
  <2>3. ASSUME NEW x \in Exits, State(x)' = "COMPLETED" PROVE integrity[ParentEntry[x]] = NONE
    <3>1. CASE x = i
      BY <1>2, <2>3, <3>1
    <3>2. CASE x # i
      BY <1>2, <2>3, <3>2, Numbers DEF IInv, Parents, ExitsFollowParent
    <3> QED BY <3>1, <3>2
  <2>4. ASSUME NEW x \in Exits, evidence[x] = "NO_POSITION"
        PROVE  State(ParentEntry[x])' \in Negative
    <3>1. State(ParentEntry[x]) \in Negative /\ ParentEntry[x] \in Intents
      BY <2>4, Numbers DEF IInv, Parents, ExitsFollowParent
    <3> QED BY <1>2, <1>6, <3>1
  <2>5. \A e \in inventory : work[e] \in {"done", "inventoried"}
    BY DEF IInv, Parents
  <2>6. inventory \subseteq Entries
    BY DEF IInv, Shape
  <2> QED BY <1>1, <2>1, <2>2, <2>3, <2>4, <2>5, <2>6 DEF Parents, ExitsFollowParent
<1> QED BY <1>3, <1>5, <1>8, <1>9 DEF IInv

(* A work row moves on.                                                    *)
LEMMA WorkStep ==
    ASSUME IInv, NEW i \in Intents, NEW w \in {"open", "done", "inventoried"},
           work' = [work EXCEPT ![i] = w], i \in Exits \/ work[i] # "inventoried",
           w = "open" => work[i] = NONE,
           UNCHANGED <<paper, bridge, hist, integrity, inventory>>,
           todo' \in Seq(Intents), Queue'
    PROVE  IInv'
<1>1. UNCHANGED <<contexts, exitRows, lineage, cursor, evidence, exitCursor, hist, integrity,
                  inventory>>
  BY DEF paper, bridge
<1>2. /\ work' \in [Intents -> {NONE, "open", "done", "inventoried"}]
      /\ \A j \in Intents : j # i => work'[j] = work[j]
      /\ work'[i] = w
  BY DEF IInv, Shape
<1>3. Shape'
  BY <1>1, <1>2 DEF IInv, Shape
<1>4. Bridged'
  BY <1>1 DEF IInv, Bridged, CursorsTellBridged, Registered
<1>5. ExitsFollowParent'
  BY <1>1 DEF IInv, Parents, ExitsFollowParent, Registered, State
<1>6. \A x \in Exits : Registered(x)' => work'[ParentEntry[x]] = "inventoried"
  <2> SUFFICES ASSUME NEW x \in Exits, Registered(x)
               PROVE  work'[ParentEntry[x]] = "inventoried"
    BY <1>1 DEF Registered
  <2>1. work[ParentEntry[x]] = "inventoried" /\ ParentEntry[x] \in Intents
    BY Numbers DEF IInv, Parents
  <2>2. ParentEntry[x] # i
    BY <2>1, Numbers
  <2> QED BY <1>2, <2>1, <2>2
<1>7. \A e \in inventory' : work'[e] \in {"done", "inventoried"}
  <2> SUFFICES ASSUME NEW e \in inventory PROVE work'[e] \in {"done", "inventoried"}
    BY <1>1
  <2>1. work[e] \in {"done", "inventoried"} /\ e \in Intents
    BY Numbers DEF IInv, Parents, Shape
  <2>2. e = i => w # "open"
    BY <2>1, NoneAssumption
  <2> QED BY <1>2, <2>1, <2>2
<1> QED BY <1>3, <1>4, <1>5, <1>6, <1>7 DEF IInv, Parents

(* An intent turns out unsound: an exit, or an entry before its inventory. *)
LEMMA IntegrityStep ==
    ASSUME IInv, NEW i \in Intents, NEW r, integrity' = [integrity EXCEPT ![i] = r],
           i \in Exits \/ work[i] # "inventoried",
           UNCHANGED <<paper, bridge, hist, work, inventory, pc, todo>>
    PROVE  IInv'
<1>1. UNCHANGED <<contexts, exitRows, lineage, cursor, evidence, exitCursor, hist, work,
                  inventory, pc, todo>>
  BY DEF paper, bridge
<1>2. DOMAIN integrity' = Intents /\ \A j \in Intents : j # i => integrity'[j] = integrity[j]
  BY DEF IInv, Shape
<1>3. Shape'
  BY <1>1, <1>2 DEF IInv, Shape
<1>4. Queue'
  BY <1>1 DEF IInv, Queue, Registered, Unclaimed
<1>5. Bridged'
  BY <1>1 DEF IInv, Bridged, CursorsTellBridged, Registered
<1>6. \A x \in Exits : State(x)' = "COMPLETED" => integrity'[ParentEntry[x]] = NONE
  <2> SUFFICES ASSUME NEW x \in Exits, State(x) = "COMPLETED"
               PROVE  integrity'[ParentEntry[x]] = NONE
    BY <1>1 DEF State, Registered
  <2>1. integrity[ParentEntry[x]] = NONE
    BY DEF IInv, Parents, ExitsFollowParent
  <2>2. Registered(x)
    BY DEF State
  <2>3. work[ParentEntry[x]] = "inventoried"
    BY <2>2 DEF IInv, Parents
  <2> QED BY <1>2, <2>1, <2>3, Numbers
<1>7. Parents'
  BY <1>1, <1>6 DEF IInv, Parents, ExitsFollowParent, Registered, State
<1> QED BY <1>3, <1>4, <1>5, <1>7 DEF IInv
-----------------------------------------------------------------------------
(* The paper database grows.                                               *)
LEMMA PaperStep ==
    ASSUME IInv, Paper PROVE IInv'
<1>1. CASE AppendContext
  <2>1. /\ contexts' = contexts + 1 /\ contexts < NumEntries
        /\ UNCHANGED <<exitRows, lineage, cursor, evidence, exitCursor, hist, integrity, work,
                       inventory, pc, todo>>
    BY <1>1 DEF AppendContext, bridge, records, journal, book, process
  <2>2. contexts \in Nat /\ contexts + 1 \in 0 .. NumEntries
    BY <2>1, CountAssumption DEF IInv, Shape
  <2>3. Shape'
    <3>1. contexts' \in 0 .. NumEntries /\ cursor' \in 0 .. contexts'
      BY <2>1, <2>2 DEF IInv, Shape
    <3> QED BY <2>1, <3>1 DEF IInv, Shape, Distinct
  <2>4. Queue'
    <3>1. Unclaimed' = Unclaimed /\ (Distinct(todo)' <=> Distinct(todo))
      BY <2>1 DEF Unclaimed, Distinct
    <3>2. pc = "entries" => \A n \in DOMAIN todo : todo[n] = cursor + n /\ todo[n] <= contexts + 1
      <4> SUFFICES ASSUME pc = "entries", NEW n \in DOMAIN todo
                   PROVE  todo[n] = cursor + n /\ todo[n] <= contexts + 1
        OBVIOUS
      <4>1. todo[n] = cursor + n /\ todo[n] <= contexts
        BY DEF IInv, Queue
      <4>2. n \in Nat /\ cursor \in Nat
        BY LenProperties DEF IInv, Shape
      <4> QED BY <2>2, <4>1, <4>2
    <3> QED BY <2>1, <3>1, <3>2 DEF IInv, Queue, Registered
  <2>5. Bridged'
    BY <2>1 DEF IInv, Bridged, CursorsTellBridged, Registered
  <2>6. Parents'
    BY <2>1 DEF IInv, Parents, ExitsFollowParent, Registered, State
  <2> QED BY <2>3, <2>4, <2>5, <2>6 DEF IInv
<1>2. ASSUME NEW x \in Exits, AppendExit(x) PROVE IInv'
  <2>1. /\ x \notin Range(exitRows) /\ exitRows' = Append(exitRows, x)
        /\ UNCHANGED <<contexts, lineage, cursor, evidence, exitCursor, hist, integrity, work,
                       inventory, pc, todo>>
    BY <1>2 DEF AppendExit, bridge, records, journal, book, process
  <2>2. /\ exitRows \in Seq(Exits) /\ Len(exitRows) \in Nat /\ exitCursor \in 0 .. Len(exitRows)
        /\ DOMAIN exitRows = 1 .. Len(exitRows)
    BY LenProperties DEF IInv, Shape
  <2>3. /\ exitRows' \in Seq(Exits) /\ Len(exitRows') = Len(exitRows) + 1
        /\ DOMAIN exitRows' = 1 .. Len(exitRows) + 1
        /\ \A n \in DOMAIN exitRows : n \in DOMAIN exitRows' /\ exitRows'[n] = exitRows[n]
        /\ exitRows'[Len(exitRows) + 1] = x
    BY <2>1, <2>2, AppendProperties
  <2>4. \A n \in DOMAIN exitRows : exitRows[n] # x
    BY <2>1 DEF Range
  <2>5. \A n \in DOMAIN exitRows' : n \in DOMAIN exitRows \/ n = Len(exitRows) + 1
    BY <2>2, <2>3
  <2>6. Shape'
    <3>1. Distinct(exitRows)'
      <4>1. \A m, n \in DOMAIN exitRows : exitRows[m] = exitRows[n] => m = n
        BY DEF IInv, Shape, Distinct
      <4> QED BY <2>3, <2>4, <2>5, <4>1 DEF Distinct
    <3>2. exitCursor \in 0 .. Len(exitRows')
      BY <2>2, <2>3
    <3> QED BY <2>1, <2>3, <3>1, <3>2 DEF IInv, Shape
  <2>7. Queue'
    <3>1. Unclaimed' = Unclaimed /\ (Distinct(todo)' <=> Distinct(todo))
      BY <2>1 DEF Unclaimed, Distinct
    <3>2. pc = "exits" => \A n \in DOMAIN todo : /\ exitCursor + n <= Len(exitRows')
                                                 /\ todo[n] = exitRows'[exitCursor + n]
      <4> SUFFICES ASSUME pc = "exits", NEW n \in DOMAIN todo
                   PROVE  /\ exitCursor + n <= Len(exitRows')
                          /\ todo[n] = exitRows'[exitCursor + n]
        OBVIOUS
      <4>1. exitCursor + n <= Len(exitRows) /\ todo[n] = exitRows[exitCursor + n]
        BY DEF IInv, Queue
      <4>2. n \in Nat /\ n >= 1 /\ exitCursor \in Nat
        BY <2>2, LenProperties DEF IInv, Shape
      <4>3. exitCursor + n \in DOMAIN exitRows
        BY <2>2, <4>1, <4>2
      <4> QED BY <2>2, <2>3, <4>1, <4>2, <4>3
    <3> QED BY <2>1, <3>1, <3>2 DEF IInv, Queue, Registered
  <2>8. Bridged'
    <3>1. evidence[x] = NONE /\ ~Registered(x)
      BY <2>4 DEF IInv, Bridged
    <3>2. \A e \in Entries : /\ e <= cursor => e \in lineage
                             /\ e \in lineage => e <= cursor + 1 /\ Registered(e)
                             /\ Registered(e) => e <= cursor + 1
      BY DEF IInv, Bridged, CursorsTellBridged
    <3>3. ASSUME NEW n \in DOMAIN exitRows', NEW y, y = exitRows'[n]
          PROVE  /\ n <= exitCursor => evidence[y] # NONE
                 /\ evidence[y] # NONE \/ Registered(y) => n <= exitCursor + 1
                 /\ evidence[y] = "EXIT_INTENT" => Registered(y)
                 /\ evidence[y] = "NO_POSITION" => ~Registered(y)
      <4>1. CASE n \in DOMAIN exitRows
        BY <2>3, <3>3, <4>1 DEF IInv, Bridged, CursorsTellBridged
      <4>2. CASE n = Len(exitRows) + 1
        <5>1. ~(n <= exitCursor) /\ y = x
          BY <2>2, <2>3, <3>3, <4>2
        <5> QED BY <3>1, <5>1, NoneAssumption
      <4> QED BY <2>5, <4>1, <4>2
    <3>4. \A y \in Exits : y \notin {exitRows'[n] : n \in DOMAIN exitRows'}
              => evidence[y] = NONE /\ ~Registered(y)
      <4>1. \A y : y \notin {exitRows'[n] : n \in DOMAIN exitRows'}
                => y \notin {exitRows[n] : n \in DOMAIN exitRows}
        BY <2>3
      <4> QED BY <4>1 DEF IInv, Bridged
    <3>5. \A y : Registered(y)' <=> Registered(y)
      BY <2>1 DEF Registered
    <3>6. CursorsTellBridged'
      BY <2>1, <3>2, <3>3, <3>5 DEF CursorsTellBridged
    <3> QED BY <2>1, <3>4, <3>5, <3>6 DEF Bridged
  <2>9. Parents'
    BY <2>1 DEF IInv, Parents, ExitsFollowParent, Registered, State
  <2> QED BY <2>6, <2>7, <2>8, <2>9 DEF IInv
<1> QED BY <1>1, <1>2 DEF Paper
-----------------------------------------------------------------------------
(* The bridge of the entry rows.                                           *)
LEMMA EntryRow ==
    ASSUME IInv, At("entries")
    PROVE  /\ Head(todo) \in Entries /\ Head(todo) = cursor + 1 /\ cursor + 1 <= contexts
           /\ cursor \in Nat
<1>1. /\ 1 \in DOMAIN todo /\ Head(todo) = todo[1] /\ Head(todo) \in Intents
  BY QueueHead DEF IInv, Shape, At
<1>2. Head(todo) = cursor + 1 /\ cursor + 1 <= contexts
  BY <1>1 DEF IInv, Queue, At
<1>3. contexts \in 0 .. NumEntries /\ cursor \in Nat
  BY DEF IInv, Shape
<1>4. cursor + 1 \in 1 .. NumEntries
  BY <1>2, <1>3, CountAssumption
<1> QED BY <1>2, <1>3, <1>4 DEF Entries

LEMMA EntryBridgeStep ==
    ASSUME IInv, RegisterEntry \/ PersistLineage \/ AdvanceCursor PROVE IInv'
<1> DEFINE e == Head(todo)
<1>0. e \in Entries /\ e = cursor + 1 /\ cursor + 1 <= contexts /\ cursor \in Nat
  BY EntryRow DEF RegisterEntry, PersistLineage, AdvanceCursor, At
<1> HIDE DEF e
<1>1. CASE RegisterEntry
  <2>1. /\ ~Registered(e) /\ hist' = [hist EXCEPT ![e] = <<<<"CREATED", "row">>>>]
        /\ UNCHANGED <<paper, bridge, integrity, work, inventory, pc, todo>>
    BY <1>1 DEF RegisterEntry, Create, journal, book, process, e
  <2>2. e \in Intents /\ e \notin Exits /\ Known(e)
    BY <1>0, Numbers DEF Known
  <2>3. State(e) \notin Terminal
    BY <2>1 DEF State, Terminal, Negative
  <2> QED BY <2>1, <2>2, <2>3, HistoryStep
<1>2. CASE PersistLineage
  <2>1. /\ Registered(e) /\ lineage' = lineage \cup {e} /\ pc = "entries"
        /\ UNCHANGED <<contexts, exitRows, cursor, evidence, exitCursor, hist, integrity, work,
                       inventory, pc, todo>>
    BY <1>2 DEF PersistLineage, At, paper, records, journal, book, process, e
  <2>2. Shape'
    BY <1>0, <2>1 DEF IInv, Shape, Distinct
  <2>3. Queue'
    BY <2>1 DEF IInv, Queue
  <2>4. Bridged'
    <3>1. \A i : Registered(i)' <=> Registered(i)
      BY <2>1 DEF Registered
    <3>2. \A i \in Entries : /\ i <= cursor => i \in lineage'
                             /\ i \in lineage' => i <= cursor + 1 /\ Registered(i)
                             /\ Registered(i) => i <= cursor + 1
      BY <1>0, <2>1 DEF IInv, Bridged, CursorsTellBridged
    <3> QED BY <2>1, <3>1, <3>2 DEF IInv, Bridged, CursorsTellBridged
  <2>5. Parents'
    BY <2>1 DEF IInv, Parents, ExitsFollowParent, Registered, State
  <2> QED BY <2>2, <2>3, <2>4, <2>5 DEF IInv
<1>3. CASE AdvanceCursor
  <2>1. /\ e \in lineage /\ cursor' = cursor + 1 /\ pc = "entries"
        /\ todo' = Tail(todo) /\ todo # <<>> /\ todo \in Seq(Intents)
        /\ UNCHANGED <<contexts, exitRows, lineage, evidence, exitCursor, hist, integrity, work,
                       inventory, pc>>
    BY <1>0, <1>3 DEF AdvanceCursor, At, Recorded, NextTask, paper, records, journal, book, e,
       IInv, Shape
  <2>2. /\ todo' \in Seq(Intents)
        /\ \A n \in DOMAIN todo' : n \in Nat /\ n + 1 \in DOMAIN todo /\ todo'[n] = todo[n + 1]
    BY <2>1, QueueHead
  <2>3. Shape'
    <3>1. cursor' \in 0 .. contexts'
      BY <1>0, <2>1 DEF IInv, Shape
    <3> QED BY <2>1, <2>2, <3>1 DEF IInv, Shape, Distinct
  <2>4. Queue'
    <3>1. \A n \in DOMAIN todo' : todo'[n] = cursor + 1 + n /\ todo'[n] <= contexts
      <4> SUFFICES ASSUME NEW n \in DOMAIN todo'
                   PROVE  todo'[n] = cursor + 1 + n /\ todo'[n] <= contexts
        OBVIOUS
      <4>1. n \in Nat /\ n + 1 \in DOMAIN todo /\ todo'[n] = todo[n + 1]
        BY <2>2
      <4>2. todo[n + 1] = cursor + (n + 1) /\ todo[n + 1] <= contexts
        BY <2>1, <4>1 DEF IInv, Queue
      <4> QED BY <1>0, <4>1, <4>2
    <3> QED BY <2>1, <3>1 DEF Queue
  <2>5. Bridged'
    <3>1. \A i : Registered(i)' <=> Registered(i)
      BY <2>1 DEF Registered
    <3>2. ASSUME NEW i \in Entries
          PROVE  /\ i <= cursor + 1 => i \in lineage
                 /\ i \in lineage => i <= cursor + 1 + 1 /\ Registered(i)
                 /\ Registered(i) => i <= cursor + 1 + 1
      <4>1. i \in Nat
        BY Numbers
      <4>2. /\ i <= cursor => i \in lineage
            /\ i \in lineage => i <= cursor + 1 /\ Registered(i)
            /\ Registered(i) => i <= cursor + 1
        BY DEF IInv, Bridged, CursorsTellBridged
      <4> QED BY <1>0, <2>1, <4>1, <4>2
    <3> QED BY <2>1, <3>1, <3>2 DEF IInv, Bridged, CursorsTellBridged
  <2>6. Parents'
    BY <2>1 DEF IInv, Parents, ExitsFollowParent, Registered, State
  <2> QED BY <2>3, <2>4, <2>5, <2>6 DEF IInv
<1> QED BY <1>1, <1>2, <1>3
-----------------------------------------------------------------------------
(* The bridge of the exit rows: the row behind the cursor, of an exit not  *)
(* bridged before it.                                                      *)
LEMMA ExitRow ==
    ASSUME IInv, At("exits"), NEW x, x = Head(todo)
    PROVE  /\ x \in Exits /\ x \in Intents /\ ParentEntry[x] \in Entries
           /\ exitCursor \in Nat /\ exitCursor + 1 <= Len(exitRows) /\ Len(exitRows) \in Nat
           /\ exitCursor + 1 \in DOMAIN exitRows /\ x = exitRows[exitCursor + 1]
           /\ \A n \in DOMAIN exitRows : exitRows[n] = x => n = exitCursor + 1
           /\ Unclaimed = {}
<1>1. 1 \in DOMAIN todo /\ Head(todo) = todo[1]
  BY QueueHead DEF IInv, Shape, At
<1>2. exitCursor + 1 <= Len(exitRows) /\ x = exitRows[exitCursor + 1] /\ Unclaimed = {}
  BY <1>1 DEF IInv, Queue, At
<1>3. /\ exitRows \in Seq(Exits) /\ Len(exitRows) \in Nat /\ exitCursor \in Nat
      /\ DOMAIN exitRows = 1 .. Len(exitRows)
  BY LenProperties DEF IInv, Shape
<1>4. exitCursor + 1 \in DOMAIN exitRows
  BY <1>2, <1>3
<1>5. x \in Exits
  BY <1>2, <1>3, <1>4, ElementOfSeq
<1>6. \A n \in DOMAIN exitRows : exitRows[n] = x => n = exitCursor + 1
  BY <1>2, <1>4 DEF IInv, Shape, Distinct
<1> QED BY <1>2, <1>3, <1>4, <1>5, <1>6, Numbers

(* Evidence of the row behind the cursor.                                  *)
LEMMA EvidenceStep ==
    ASSUME IInv, At("exits"), NEW x, x = Head(todo), evidence[x] = NONE,
           NEW v \in {"EXIT_INTENT", "NO_POSITION"}, evidence' = [evidence EXCEPT ![x] = v],
           v = "EXIT_INTENT" => Registered(x),
           v = "NO_POSITION" => ~Registered(x) /\ State(ParentEntry[x]) \in Negative,
           UNCHANGED <<paper, lineage, cursor, exitCursor, records, book, process>>
    PROVE  IInv'
<1>1. UNCHANGED <<contexts, exitRows, lineage, cursor, exitCursor, hist, integrity, work,
                  inventory, pc, todo>>
  BY DEF paper, records, journal, book, process
<1>2. /\ x \in Exits /\ exitCursor \in Nat
      /\ exitCursor + 1 \in DOMAIN exitRows /\ x = exitRows[exitCursor + 1]
      /\ \A n \in DOMAIN exitRows : exitRows[n] = x => n = exitCursor + 1
  BY ExitRow
<1>3. /\ evidence' \in [Exits -> {NONE, "EXIT_INTENT", "NO_POSITION"}]
      /\ evidence'[x] = v /\ \A y \in Exits : y # x => evidence'[y] = evidence[y]
  BY <1>2 DEF IInv, Shape
<1>4. Shape'
  BY <1>1, <1>3 DEF IInv, Shape, Distinct
<1>5. Queue'
  BY <1>1 DEF IInv, Queue, Registered, Unclaimed, Distinct
<1>6. \A i : Registered(i)' <=> Registered(i)
  BY <1>1 DEF Registered
<1>7. Bridged'
  <2>1. ASSUME NEW n \in DOMAIN exitRows, NEW y, y = exitRows[n]
        PROVE  /\ n <= exitCursor => evidence'[y] # NONE
               /\ evidence'[y] # NONE \/ Registered(y) => n <= exitCursor + 1
               /\ evidence'[y] = "EXIT_INTENT" => Registered(y)
               /\ evidence'[y] = "NO_POSITION" => ~Registered(y)
    <3>1. n \in Nat /\ y \in Exits
      BY <2>1, LenProperties, ElementOfSeq DEF IInv, Shape
    <3>2. CASE y = x
      <4>1. n = exitCursor + 1
        BY <1>2, <2>1, <3>2
      <4>2. v # NONE
        BY NoneAssumption
      <4> QED BY <1>2, <1>3, <3>2, <4>1, <4>2
    <3>3. CASE y # x
      <4>1. /\ n <= exitCursor => evidence[y] # NONE
            /\ evidence[y] # NONE \/ Registered(y) => n <= exitCursor + 1
            /\ evidence[y] = "EXIT_INTENT" => Registered(y)
            /\ evidence[y] = "NO_POSITION" => ~Registered(y)
        BY <2>1 DEF IInv, Bridged, CursorsTellBridged
      <4> QED BY <1>3, <3>1, <3>3, <4>1
    <3> QED BY <3>2, <3>3
  <2>2. \A y \in Exits : y \notin {exitRows[n] : n \in DOMAIN exitRows}
            => evidence'[y] = NONE /\ ~Registered(y)
    BY <1>2, <1>3 DEF IInv, Bridged
  <2>3. CursorsTellBridged'
    BY <1>1, <1>6, <2>1 DEF IInv, Bridged, CursorsTellBridged
  <2> QED BY <1>1, <1>6, <2>2, <2>3 DEF Bridged
<1>8. Parents'
  <2>1. \A y \in Exits : evidence'[y] = "NO_POSITION" => State(ParentEntry[y]) \in Negative
    BY <1>3 DEF IInv, Parents, ExitsFollowParent
  <2> QED BY <1>1, <2>1 DEF IInv, Parents, ExitsFollowParent, Registered, State
<1> QED BY <1>4, <1>5, <1>7, <1>8 DEF IInv

LEMMA ExitBridgeStep ==
    ASSUME IInv, NoPosition \/ RegisterExit \/ PersistExitEvidence \/ AdvanceExitCursor
    PROVE  IInv'
<1>0. PICK x : x = Head(todo)
  OBVIOUS
<1>1. At("exits") /\ todo \in Seq(Intents)
  BY DEF NoPosition, RegisterExit, PersistExitEvidence, AdvanceExitCursor, Polling, IInv, Shape
<1>2. /\ x \in Exits /\ x \in Intents /\ ParentEntry[x] \in Entries
      /\ exitCursor \in Nat /\ exitCursor + 1 <= Len(exitRows) /\ Len(exitRows) \in Nat
      /\ exitCursor + 1 \in DOMAIN exitRows /\ x = exitRows[exitCursor + 1]
      /\ \A n \in DOMAIN exitRows : exitRows[n] = x => n = exitCursor + 1
      /\ Unclaimed = {}
  BY <1>0, <1>1, ExitRow
<1>3. Registered(x) => State(ParentEntry[x]) = "COMPLETED"
  BY <1>2 DEF IInv, Parents, ExitsFollowParent
<1>4. CASE NoPosition
  <2>1. /\ State(ParentEntry[x]) \in Negative /\ evidence[x] = NONE
        /\ evidence' = [evidence EXCEPT ![x] = "NO_POSITION"]
        /\ UNCHANGED <<paper, lineage, cursor, exitCursor, records, book, process>>
    BY <1>0, <1>4 DEF NoPosition, Polling, Parent
  <2>2. ~Registered(x)
    BY <1>3, <2>1 DEF Negative
  <2> QED BY <1>0, <1>1, <2>1, <2>2, EvidenceStep
<1>5. CASE PersistExitEvidence
  <2>1. /\ Registered(x) /\ evidence[x] = NONE
        /\ evidence' = [evidence EXCEPT ![x] = "EXIT_INTENT"]
        /\ UNCHANGED <<paper, lineage, cursor, exitCursor, records, book, process>>
    BY <1>0, <1>5 DEF PersistExitEvidence
  <2> QED BY <1>0, <1>1, <2>1, EvidenceStep
<1>6. CASE RegisterExit
  <2>1. /\ ParentEntry[x] \in inventory /\ ~Registered(x)
        /\ hist' = [hist EXCEPT ![x] = <<<<"CREATED", "row">>>>]
        /\ UNCHANGED <<paper, bridge, integrity, work, inventory, pc, todo>>
    BY <1>0, <1>6 DEF RegisterExit, Create, Parent, journal, book, process
  <2>2. work[ParentEntry[x]] = "inventoried"
    BY <1>2, <2>1 DEF IInv, Parents, Unclaimed
  <2>3. Known(x)
    BY <1>2, <2>1, <2>2 DEF Known
  <2>4. State(x) \notin Terminal
    BY <2>1 DEF State, Terminal, Negative
  <2>5. x \in Exits /\ "CREATED" = "COMPLETED" => integrity[ParentEntry[x]] = NONE
    OBVIOUS
  <2> QED BY <1>2, <2>1, <2>3, <2>4, <2>5, HistoryStep
<1>7. CASE AdvanceExitCursor
  <2>1. /\ evidence[x] # NONE /\ exitCursor' = exitCursor + 1 /\ pc = "exits"
        /\ todo' = Tail(todo) /\ todo # <<>>
        /\ UNCHANGED <<contexts, exitRows, lineage, cursor, evidence, hist, integrity, work,
                       inventory, pc>>
    BY <1>0, <1>7 DEF AdvanceExitCursor, At, NextTask, paper, records, journal, book
  <2>2. /\ todo' \in Seq(Intents)
        /\ \A n \in DOMAIN todo' : n \in Nat /\ n + 1 \in DOMAIN todo /\ todo'[n] = todo[n + 1]
    BY <1>1, <2>1, QueueHead
  <2>3. Shape'
    <3>1. exitCursor' \in 0 .. Len(exitRows')
      BY <1>2, <2>1
    <3> QED BY <2>1, <2>2, <3>1 DEF IInv, Shape, Distinct
  <2>4. Queue'
    <3>1. ASSUME NEW n \in DOMAIN todo'
          PROVE  /\ exitCursor + 1 + n <= Len(exitRows)
                 /\ todo'[n] = exitRows[exitCursor + 1 + n]
      <4>1. n \in Nat /\ n + 1 \in DOMAIN todo /\ todo'[n] = todo[n + 1]
        BY <2>2
      <4>2. /\ exitCursor + (n + 1) <= Len(exitRows)
            /\ todo[n + 1] = exitRows[exitCursor + (n + 1)]
        BY <2>1, <4>1 DEF IInv, Queue
      <4>3. exitCursor + 1 + n = exitCursor + (n + 1)
        BY <1>2, <4>1
      <4> QED BY <4>1, <4>2, <4>3
    <3>2. Unclaimed' = {}
      BY <1>2, <2>1 DEF Unclaimed
    <3> QED BY <2>1, <3>1, <3>2 DEF Queue
  <2>5. Bridged'
    <3>1. \A i : Registered(i)' <=> Registered(i)
      BY <2>1 DEF Registered
    <3>2. ASSUME NEW n \in DOMAIN exitRows, NEW y, y = exitRows[n]
          PROVE  /\ n <= exitCursor + 1 => evidence[y] # NONE
                 /\ evidence[y] # NONE \/ Registered(y) => n <= exitCursor + 1 + 1
                 /\ evidence[y] = "EXIT_INTENT" => Registered(y)
                 /\ evidence[y] = "NO_POSITION" => ~Registered(y)
      <4>1. n \in Nat
        BY LenProperties DEF IInv, Shape
      <4>2. /\ n <= exitCursor => evidence[y] # NONE
            /\ evidence[y] # NONE \/ Registered(y) => n <= exitCursor + 1
            /\ evidence[y] = "EXIT_INTENT" => Registered(y)
            /\ evidence[y] = "NO_POSITION" => ~Registered(y)
        BY <3>2 DEF IInv, Bridged, CursorsTellBridged
      <4>3. n = exitCursor + 1 => y = x
        BY <1>2, <3>2
      <4>4. n <= exitCursor + 1 => n <= exitCursor \/ n = exitCursor + 1
        BY <1>2, <4>1
      <4>5. n <= exitCursor + 1 => n <= exitCursor + 1 + 1
        BY <1>2, <4>1
      <4> QED BY <2>1, <4>2, <4>3, <4>4, <4>5
    <3>3. CursorsTellBridged'
      BY <2>1, <3>1, <3>2 DEF IInv, Bridged, CursorsTellBridged
    <3> QED BY <2>1, <3>1, <3>3 DEF IInv, Bridged
  <2>6. Parents'
    BY <2>1 DEF IInv, Parents, ExitsFollowParent, Registered, State
  <2> QED BY <2>3, <2>4, <2>5, <2>6 DEF IInv
<1> QED BY <1>4, <1>5, <1>6, <1>7
-----------------------------------------------------------------------------
(* The intent being executed: an exit, or an entry whose inventory nobody  *)
(* awaits yet.                                                             *)
LEMMA CurrentIntent ==
    ASSUME IInv, Executing, NEW i, i = Current
    PROVE  /\ i \in Intents /\ Registered(i)
           /\ i \in Exits \/ work[i] \notin {"done", "inventoried"}
           /\ 1 \in DOMAIN todo /\ i = todo[1]
<1>1. 1 \in DOMAIN todo /\ i = todo[1] /\ i \in Intents
  BY QueueHead DEF IInv, Shape, Executing, Current
<1> QED BY <1>1 DEF IInv, Queue, Executing

(* An intent is claimed, or done and no longer in the queue.               *)
LEMMA ClaimStep ==
    ASSUME IInv, Claim PROVE IInv'
<1>0. PICK i : i = Current
  OBVIOUS
<1>1. /\ work[i] = NONE /\ work' = [work EXCEPT ![i] = "open"] /\ Executing
      /\ UNCHANGED <<paper, bridge, hist, integrity, inventory>>
      /\ UNCHANGED <<pc, todo>>
  BY <1>0 DEF Claim, records, journal, process
<1>2. i \in Intents /\ todo \in Seq(Intents)
  BY <1>0, <1>1, CurrentIntent DEF IInv, Shape
<1>3. \A j \in Intents : work'[j] = work[j] \/ work'[j] = "open"
  BY <1>1, <1>2 DEF IInv, Shape
<1>4. Queue'
  <2>1. pc \in {"execute entries", "execute exits"}
    BY <1>1 DEF Executing
  <2>2. \A j : Registered(j)' <=> Registered(j)
    BY <1>1 DEF Registered
  <2>3. \A n \in DOMAIN todo : todo[n] \in Intents
    BY <1>2, LenProperties, ElementOfSeq
  <2> QED BY <1>1, <1>3, <2>1, <2>2, <2>3 DEF IInv, Queue, Distinct
<1>5. work[i] # "inventoried"
  BY <1>1, NoneAssumption
<1> QED BY <1>1, <1>2, <1>4, <1>5, WorkStep

LEMMA FinishStep ==
    ASSUME IInv, Finish PROVE IInv'
<1>0. PICK i : i = Current
  OBVIOUS
<1>1. /\ work' = [work EXCEPT ![i] = "done"] /\ Executing /\ todo' = Tail(todo)
      /\ UNCHANGED <<paper, bridge, hist, integrity, inventory>>
      /\ pc' = pc
  BY <1>0 DEF Finish, records, journal
<1>2. /\ i \in Intents /\ 1 \in DOMAIN todo /\ i = todo[1]
      /\ i \in Exits \/ work[i] \notin {"done", "inventoried"}
  BY <1>0, <1>1, CurrentIntent
<1>3. pc \in {"execute entries", "execute exits"} /\ todo # <<>> /\ todo \in Seq(Intents)
  BY <1>1 DEF Executing, IInv, Shape
<1>4. /\ todo' \in Seq(Intents)
      /\ \A n \in DOMAIN todo' : /\ n \in Nat /\ n >= 1 /\ n + 1 \in DOMAIN todo
                                 /\ todo'[n] = todo[n + 1]
  BY <1>1, <1>3, QueueHead
<1>5. \A j \in Intents : j # i => work'[j] = work[j]
  BY <1>1 DEF IInv, Shape
<1>6. \A j : Registered(j)' <=> Registered(j)
  BY <1>1 DEF Registered
<1>7. Queue'
  <2>1. CASE pc = "execute entries"
    <3>1. Distinct(todo) /\ \A n \in DOMAIN todo : /\ todo[n] \in Entries /\ Registered(todo[n])
                                                   /\ work[todo[n]] \notin {"done", "inventoried"}
      BY <2>1 DEF IInv, Queue
    <3>2. ASSUME NEW n \in DOMAIN todo'
          PROVE  /\ todo'[n] \in Entries /\ Registered(todo'[n])
                 /\ work'[todo'[n]] \notin {"done", "inventoried"}
      <4>1. n \in Nat /\ n >= 1 /\ n + 1 \in DOMAIN todo /\ todo'[n] = todo[n + 1]
        BY <1>4
      <4>2. n + 1 # 1
        BY <4>1
      <4>3. todo'[n] # i /\ todo'[n] \in Intents
        BY <1>2, <3>1, <4>1, <4>2, Numbers DEF Distinct
      <4> QED BY <1>5, <3>1, <4>1, <4>3
    <3>3. Distinct(todo)'
      <4> SUFFICES ASSUME NEW m \in DOMAIN todo', NEW n \in DOMAIN todo', todo'[m] = todo'[n]
                   PROVE  m = n
        BY DEF Distinct
      <4>1. /\ m \in Nat /\ m + 1 \in DOMAIN todo /\ todo'[m] = todo[m + 1]
            /\ n \in Nat /\ n + 1 \in DOMAIN todo /\ todo'[n] = todo[n + 1]
        BY <1>4
      <4>2. m + 1 = n + 1
        BY <3>1, <4>1 DEF Distinct
      <4> QED BY <4>1, <4>2
    <3> QED BY <1>1, <1>6, <2>1, <3>2, <3>3 DEF Queue
  <2>2. CASE pc = "execute exits"
    <3>1. \A n \in DOMAIN todo' : todo'[n] \in Exits /\ Registered(todo'[n])
      BY <1>4, <2>2 DEF IInv, Queue
    <3> QED BY <1>1, <1>6, <2>2, <3>1 DEF Queue
  <2> QED BY <1>3, <2>1, <2>2
<1> QED BY <1>1, <1>2, <1>4, <1>7, WorkStep

(* The state of an intent moves on, by its pipeline or by its failure.     *)
LEMMA TransitStep ==
    ASSUME IInv, Transit \/ FailIntent PROVE IInv'
<1>0. PICK i : i = Current
  OBVIOUS
<1>1. Executing
  BY DEF Transit, NextIs, Running, FailIntent, Handled, Handling
<1>2. i \in Intents /\ Registered(i)
  BY <1>0, <1>1, CurrentIntent
<1>3. Known(i)
  BY <1>2 DEF Known
<1>4. CASE Transit
  <2>1. PICK s : s = Step
    OBVIOUS
  <2>2. CASE s.what \in Allowed[State(i)]
    <3>1. /\ hist' = [hist EXCEPT ![i] = Append(@, <<s.what, s.by>>)]
          /\ UNCHANGED <<paper, bridge, integrity, work, inventory, pc, todo>>
          /\ ~ParentUnsound(i)
      BY <1>0, <1>4, <2>1, <2>2 DEF Transit, NextIs, journal, book, process
    <3>2. State(i) \notin Terminal
      BY <2>2 DEF Terminal, Negative, Allowed
    <3>3. i \in Exits => integrity[ParentEntry[i]] = NONE
      BY <3>1 DEF ParentUnsound
    <3> QED BY <1>2, <1>3, <3>1, <3>2, <3>3, HistoryStep
  <2>3. CASE s.what \notin Allowed[State(i)]
    <3>1. UNCHANGED <<Store, pc, todo>>
      BY <1>0, <1>4, <2>1, <2>3 DEF Transit, Raise, Store, journal, book
    <3> QED BY <3>1, SameQueue
  <2> QED BY <2>2, <2>3
<1>5. CASE FailIntent
  <2>1. PICK w, by : w = FailureTarget(i) /\ by = raised
    OBVIOUS
  <2>2. /\ State(i) \notin Terminal /\ hist' = [hist EXCEPT ![i] = Append(@, <<w, by>>)]
        /\ UNCHANGED <<paper, bridge, integrity, work, inventory, pc, todo>>
    BY <1>0, <1>5, <2>1 DEF FailIntent, Settled, journal, book
  <2>3. w # "COMPLETED"
    BY <2>1 DEF FailureTarget
  <2> QED BY <1>2, <1>3, <2>2, <2>3, HistoryStep
<1> QED BY <1>4, <1>5

LEMMA UnsoundStep ==
    ASSUME IInv, MarkUnsound PROVE IInv'
<1>0. PICK i, r : i = Current /\ r = raised
  OBVIOUS
<1>1. /\ Executing /\ integrity' = [integrity EXCEPT ![i] = r]
      /\ UNCHANGED <<paper, bridge, hist, work, inventory, pc, todo>>
  BY <1>0 DEF MarkUnsound, Handled, Handling, Settled, book
<1>2. i \in Intents /\ (i \in Exits \/ work[i] # "inventoried")
  BY <1>0, <1>1, CurrentIntent
<1> QED BY <1>1, <1>2, IntegrityStep
-----------------------------------------------------------------------------
(* The inventory of a completed entry.                                     *)
LEMMA InventoryStep ==
    ASSUME IInv, Materialize \/ MaterializeFails \/ InventoryDone PROVE IInv'
<1>0. PICK i : i = Current
  OBVIOUS
<1>1. At("inventories") /\ todo \in Seq(Intents) /\ pc = "inventories" /\ todo # <<>>
  BY DEF Materialize, MaterializeFails, InventoryDone, At, IInv, Shape
<1>2. /\ 1 \in DOMAIN todo /\ i = todo[1] /\ i \in Intents /\ i \in Entries /\ work[i] = "done"
      /\ Distinct(todo)
  BY <1>0, <1>1, QueueHead, Numbers DEF IInv, Queue, Current
<1>3. ASSUME NEW r, integrity' = [integrity EXCEPT ![i] = r],
             UNCHANGED <<paper, bridge, hist, work, inventory, pc, todo>>
      PROVE  IInv'
  BY <1>2, <1>3, IntegrityStep
<1>4. CASE MaterializeFails
  <2>1. /\ integrity' = [integrity EXCEPT ![i] = "mishap"]
        /\ UNCHANGED <<paper, bridge, hist, work, inventory, pc, todo>>
    BY <1>0, <1>4 DEF MaterializeFails, book, process
  <2> QED BY <1>3, <2>1
<1>5. CASE Materialize
  <2>1. CASE inventory' = inventory
    <3>1. /\ integrity' = integrity \/ integrity' = [integrity EXCEPT ![i] = "replay"]
          /\ UNCHANGED <<paper, bridge, hist, work, inventory, pc, todo>>
      BY <1>0, <1>5, <2>1 DEF Materialize, process
    <3>2. CASE integrity' = integrity
      BY <3>1, <3>2, SameQueue DEF Store
    <3> QED BY <1>3, <3>1, <3>2
  <2>2. CASE inventory' = inventory \cup {i} /\ integrity' = integrity
    <3>1. UNCHANGED <<contexts, exitRows, lineage, cursor, evidence, exitCursor, hist,
                      integrity, work, pc, todo>>
      BY <1>5, <2>2 DEF Materialize, paper, bridge, process
    <3>2. State(i) = "COMPLETED"
      BY <1>0, <1>5 DEF Materialize, Sound
    <3>3. Shape'
      BY <1>2, <2>2, <3>1 DEF IInv, Shape, Distinct
    <3>4. Queue'
      BY <3>1 DEF IInv, Queue, Registered, Unclaimed, Distinct
    <3>5. Bridged'
      BY <3>1 DEF IInv, Bridged, CursorsTellBridged, Registered
    <3>6. \A j : (Registered(j)' <=> Registered(j)) /\ State(j)' = State(j)
      BY <3>1 DEF Registered, State
    <3>7. inventory' \subseteq {e \in Entries : State(e) = "COMPLETED"}
      BY <1>2, <2>2, <3>2 DEF IInv, Parents, ExitsFollowParent
    <3>8. \A e \in inventory' : work[e] \in {"done", "inventoried"}
      BY <1>2, <2>2 DEF IInv, Parents
    <3>9. \A x \in Exits : Registered(x) => ParentEntry[x] \in inventory'
      BY <2>2 DEF IInv, Parents, ExitsFollowParent
    <3>10. Parents'
      BY <3>1, <3>6, <3>7, <3>8, <3>9 DEF IInv, Parents, ExitsFollowParent
    <3> QED BY <3>3, <3>4, <3>5, <3>10 DEF IInv
  <2> QED BY <1>0, <1>5, <2>1, <2>2 DEF Materialize
<1>6. CASE InventoryDone
  <2>1. /\ work' = [work EXCEPT ![i] = "inventoried"] /\ pc' = "inventories"
        /\ todo' = Tail(todo)
        /\ UNCHANGED <<paper, bridge, hist, integrity, inventory>>
    BY <1>0, <1>1, <1>6 DEF InventoryDone, NextTask, records, journal
  <2>2. /\ todo' \in Seq(Intents)
        /\ \A n \in DOMAIN todo' : /\ n \in Nat /\ n >= 1 /\ n + 1 \in DOMAIN todo
                                   /\ todo'[n] = todo[n + 1]
    BY <1>1, <2>1, QueueHead
  <2>3. \A j \in Intents : j # i => work'[j] = work[j]
    BY <2>1 DEF IInv, Shape
  <2>4. Queue'
    <3>1. ASSUME NEW n \in DOMAIN todo' PROVE todo'[n] \in Entries /\ work'[todo'[n]] = "done"
      <4>1. n \in Nat /\ n >= 1 /\ n + 1 \in DOMAIN todo /\ todo'[n] = todo[n + 1]
        BY <2>2
      <4>2. n + 1 # 1
        BY <4>1
      <4>3. todo[n + 1] \in Entries /\ work[todo[n + 1]] = "done"
        BY <1>1, <4>1 DEF IInv, Queue
      <4>4. todo[n + 1] # i /\ todo[n + 1] \in Intents
        BY <1>2, <4>1, <4>2, <4>3, Numbers DEF Distinct
      <4> QED BY <2>3, <4>1, <4>3, <4>4
    <3>2. Distinct(todo)'
      <4> SUFFICES ASSUME NEW m \in DOMAIN todo', NEW n \in DOMAIN todo', todo'[m] = todo'[n]
                   PROVE  m = n
        BY DEF Distinct
      <4>1. /\ m \in Nat /\ m + 1 \in DOMAIN todo /\ todo'[m] = todo[m + 1]
            /\ n \in Nat /\ n + 1 \in DOMAIN todo /\ todo'[n] = todo[n + 1]
        BY <2>2
      <4>2. m + 1 = n + 1
        BY <1>2, <4>1 DEF Distinct
      <4> QED BY <4>1, <4>2
    <3> QED BY <2>1, <3>1, <3>2 DEF Queue
  <2>5. work[i] # "inventoried"
    BY <1>2
  <2> QED BY <1>2, <2>1, <2>2, <2>4, <2>5, WorkStep
<1> QED BY <1>4, <1>5, <1>6
-----------------------------------------------------------------------------
LEMMA StepGood == IInv /\ [Next]_vars => IInv'
<1> SUFFICES ASSUME IInv, [Next]_vars PROVE IInv'
  OBVIOUS
<1>1. CASE UNCHANGED vars
  <2>1. UNCHANGED <<Store, pc, todo>>
    BY <1>1 DEF vars, Store, records, journal, book, process
  <2> QED BY <2>1, SameQueue
<1>2. CASE Paper
  BY <1>2, PaperStep
<1>3. CASE Bridge
  BY <1>3, EntryBridgeStep, ExitBridgeStep, ProcessStep DEF Bridge
<1>4. CASE Execute
  BY <1>4, ClaimStep, FinishStep, TransitStep, AnswerStep DEF Execute
<1>5. CASE Handle
  BY <1>5, AnswerStep, ProcessStep, TransitStep, UnsoundStep DEF Handle
<1>6. CASE Gather
  BY <1>6, InventoryStep, AnswerStep, ProcessStep DEF Gather
<1>7. CASE Open \/ BeginCycle \/ NextStage \/ Close
  BY <1>7, ProcessStep, StageStep
<1>8. CASE Fault
  BY <1>8, ProcessStep, AnswerStep, InventoryStep DEF Fault
<1> QED BY <1>1, <1>2, <1>3, <1>4, <1>5, <1>6, <1>7, <1>8 DEF Next, Sidecar

(* The cursors of the two bridges tell which paper rows were bridged,      *)
(* wherever the process dies: intent, lineage or evidence, and cursor of a *)
(* row are separate commits of poll_once and poll_exit_once, and at most   *)
(* the row next to a cursor has some of them and not the others.           *)
THEOREM CursorsTellBridgedAlways == Spec => []CursorsTellBridged
<1>1. IInv => CursorsTellBridged
  BY DEF IInv, Bridged
<1> QED BY <1>1, InitGood, StepGood, PTL DEF Spec

(* An exit follows its entry, whatever the network answers and whatever    *)
(* fails: poll_exit_once makes an intent of it only when _inventories has  *)
(* materialised what the entry holds, waives it only when the entry failed,*)
(* and _execute completes it only under an entry that is not known to be   *)
(* unsound, also not later on.                                             *)
THEOREM ExitsFollowParentAlways == Spec => []ExitsFollowParent
<1>1. IInv => ExitsFollowParent
  BY DEF IInv, Parents
<1> QED BY <1>1, InitGood, StepGood, PTL DEF Spec
-----------------------------------------------------------------------------
(* What the pipeline is made of: a step has its place, whatever the        *)
(* answers, and the answers decide how many steps there are.  x: the       *)
(* intent is an exit; a: its answers; Short: no plan follows from them.    *)
Short(x, a) == a.actor \in {"malformed", "unplannable"} \/ (a.actor = "nobase" /\ x)

Size(x, a) ==
    IF a.venue \in Unusable THEN 2
    ELSE IF a.venue = "routeless" THEN 5
    ELSE IF a.venue = "unquotable" THEN 6
    ELSE IF a.actor \in Unusable THEN 8
    ELSE IF Short(x, a) THEN 9
    ELSE IF a.sim \in Unusable THEN 11
    ELSE IF a.sim \in {"success", "program"} THEN 14 ELSE 13

Turn(x, a) == CASE a.actor = "malformed"       -> Refuse("replay")
                [] a.actor = "nobase" /\ x     -> To("REJECTED", a.actor)
                [] a.actor = "unplannable"     -> Refuse("plan")
                [] OTHER                       -> Keep("plan", a.actor)
Way(a)     == To(IF a.venue = "routeless" THEN "REJECTED" ELSE "ROUTE_BOUND", a.venue)
Bind(a)    == IF a.venue = "unquotable" THEN Refuse("quote") ELSE To("QUOTE_BOUND", a.venue)
Landing(a) == To(CASE a.sim \in {"success", "program"} -> "SIMULATED"
                   [] a.sim = "expired"                -> "EXPIRED"
                   [] OTHER                            -> "FAILED", a.sim)
End(a)     == To(IF a.sim = "success" THEN "COMPLETED" ELSE "FAILED", a.sim)

Word(x, a, n) ==
    CASE n = 1  -> To("ELIGIBILITY_CHECKED", "intent")
      [] n = 2  -> Ask("venue")
      [] n = 3  -> Keep("state", a.venue)
      [] n = 4  -> Way(a)
      [] n = 5  -> Keep("route", a.venue)
      [] n = 6  -> Bind(a)
      [] n = 7  -> Keep("quote", a.venue)
      [] n = 8  -> Ask("actor")
      [] n = 9  -> Turn(x, a)
      [] n = 10 -> To("PLAN_BUILT", a.actor)
      [] n = 11 -> Ask("sim")
      [] n = 12 -> Keep("run", a.sim)
      [] n = 13 -> Landing(a)
      [] n = 14 -> End(a)

(* The state of an intent that has taken the first k steps.                *)
After(x, a, k) ==
    CASE k = 0          -> "CREATED"
      [] k \in 1 .. 3   -> "ELIGIBILITY_CHECKED"
      [] k \in 4 .. 5   -> Way(a).what
      [] k \in 6 .. 8   -> "QUOTE_BOUND"
      [] k = 9          -> IF a.actor = "nobase" /\ x THEN "REJECTED" ELSE "QUOTE_BOUND"
      [] k \in 10 .. 12 -> "PLAN_BUILT"
      [] k = 13         -> Landing(a).what
      [] k = 14         -> End(a).what

Place(q) == CASE q = "venue" -> 2 [] q = "actor" -> 8 [] q = "sim" -> 11

SizeOf(i)     == Size(i \in Exits, answer[i])
StepOf(i, n)  == Word(i \in Exits, answer[i], n)
Fact(i, n)    == <<StepOf(i, n).what, StepOf(i, n).by>>
AfterOf(i, k) == After(i \in Exits, answer[i], k)

(* The exceptions the journal brings about, and how they end an intent.    *)
Endings == {<<"FAILED", "rpc">>, <<"REJECTED", "quote">>, <<"REJECTED", "plan">>,
            <<"FAILED", "replay">>}

Fallen(i) == <<State(i), failure[i]>> \in Endings

Cause(i, k, e) ==
    \/ e = "rpc" /\ ~ParentUnsound(i) /\ \E q \in Questions : answer[i][q] = "error"
    \/ e = "quote" /\ ~ParentUnsound(i) /\ answer[i].venue = "unquotable" /\ k = 5
    \/ e = "plan" /\ ~ParentUnsound(i) /\ answer[i].actor = "unplannable" /\ k = 8
    \/ e = "replay" /\ ~ParentUnsound(i) /\ answer[i].actor = "malformed" /\ k = 8
    \/ e = "replay" /\ ParentUnsound(i)

RaisedBy(i) == IF raised # NONE /\ i = Current THEN raised ELSE NONE

(* The intent has taken the first k steps of its pipeline and no other;    *)
(* apart from them there is at most the end its failure brought about.     *)
Answered(i, k) ==
    \A q \in Questions : /\ answer[i][q] \notin Unusable <=> Place(q) <= k
                         /\ answer[i][q] # NONE => Place(q) <= k + 1

Traced(i, k) ==
    /\ \A n \in 1 .. k : /\ StepOf(i, n).do # "refuse"
                         /\ StepOf(i, n).do = "to" => Fact(i, n) \in Range(hist[i])
                         /\ StepOf(i, n).do = "keep" => Fact(i, n) \in kept[i]
    /\ \A h \in Range(hist[i]) :
          \/ h = <<"CREATED", "row">>
          \/ \E n \in 1 .. k : StepOf(i, n).do = "to" /\ h = Fact(i, n)
          \/ Fallen(i) /\ h = <<State(i), failure[i]>>
    /\ \A c \in kept[i] : \E n \in 1 .. k : StepOf(i, n).do = "keep" /\ c = Fact(i, n)

Justified(i, k) ==
    /\ State(i) = AfterOf(i, k) \/ Fallen(i)
    /\ failure[i] # NONE => Cause(i, k, failure[i])
    /\ ParentUnsound(i) => k = 0
    /\ RaisedBy(i) \notin {NONE, "settled", "mishap"} => Cause(i, k, RaisedBy(i))
    /\ RaisedBy(i) = "settled" => Fallen(i)
    /\ work[i] \in {"done", "inventoried"} =>
          \/ failure[i] = NONE /\ k = SizeOf(i) /\ ~ParentUnsound(i)
          \/ Fallen(i)

Reached(i, k) == Answered(i, k) /\ Traced(i, k) /\ Justified(i, k)

Trail ==
    \A i \in Intents : Registered(i) /\ failure[i] # "mishap" =>
        \E k \in 0 .. 14 : k <= SizeOf(i) /\ Reached(i, k)

(* What the process is about, and what it leaves behind.                   *)
Kinds ==
    /\ DOMAIN kept = Intents /\ DOMAIN answer = Intents
    /\ \A i \in Intents : DOMAIN answer[i] = Questions
    /\ failure \in [Intents -> Regular \cup {NONE, "mishap"}]
    /\ crashes \in 0 .. MaxCrashes /\ mishaps \in 0 .. MaxMishaps
    /\ raised \in Exceptions \cup {NONE, "settled"}

Raising ==
    /\ raised # NONE => Executing /\ work[Current] = "open"
    /\ raised = "settled" => failure[Current] # NONE
    /\ raised = "mishap" => mishaps > 0

Fresh ==
    \A i \in Intents :
        /\ failure[i] = "mishap" => mishaps > 0
        /\ work[i] = NONE => /\ hist[i] = <<>> \/ hist[i] = <<<<"CREATED", "row">>>>
                             /\ failure[i] = NONE /\ kept[i] = {}
                             /\ \A q \in Questions : answer[i][q] = NONE
        /\ hist[i] = <<>> => work[i] = NONE

Alone ==
    \A i \in Intents : work[i] = "open" /\ crashes = 0 =>
        /\ Executing /\ i = Current
        /\ failure[i] # NONE => raised \in {failure[i], "settled"}

ExitQueue ==
    pc = "execute exits" =>
        /\ Distinct(todo)
        /\ \A n \in DOMAIN todo : work[todo[n]] \notin {"done", "inventoried"}

Inventoried ==
    \A e \in Entries : work[e] = "inventoried" /\ Sound(e) => e \in inventory

Course == Raising /\ Fresh /\ Alone /\ ExitQueue /\ Inventoried

Aborts ==
    /\ abort[1] # NONE => pc = "down"
    /\ AbortsExplained

JInv == IInv /\ Kinds /\ Course /\ Trail /\ Aborts
-----------------------------------------------------------------------------
(* The table of steps and the pipeline say the same.                       *)
LEMMA NoneIsNoAnswer ==
    NONE \notin {"error", "routeless", "unquotable", "nobase", "malformed", "unplannable",
                 "success", "program", "expired"}
BY NoneAssumption

Part(x, a, s, m, n) ==
    /\ s \in Seq({Word(x, a, j) : j \in 1 .. 14}) /\ Len(s) = n - m + 1
    /\ \A j \in 1 .. n - m + 1 : s[j] = Word(x, a, m + j - 1)

LEMMA Words ==
    ASSUME NEW x, NEW a
    PROVE  /\ Word(x, a, 1) = To("ELIGIBILITY_CHECKED", "intent")
           /\ Word(x, a, 2) = Ask("venue")
           /\ Word(x, a, 3) = Keep("state", a.venue)
           /\ Word(x, a, 4) = Way(a)
           /\ Word(x, a, 5) = Keep("route", a.venue)
           /\ Word(x, a, 6) = Bind(a)
           /\ Word(x, a, 7) = Keep("quote", a.venue)
           /\ Word(x, a, 8) = Ask("actor")
           /\ Word(x, a, 9) = Turn(x, a)
           /\ Word(x, a, 10) = To("PLAN_BUILT", a.actor)
           /\ Word(x, a, 11) = Ask("sim")
           /\ Word(x, a, 12) = Keep("run", a.sim)
           /\ Word(x, a, 13) = Landing(a)
           /\ Word(x, a, 14) = End(a)
BY DEF Word

LEMMA JoinParts ==
    ASSUME NEW x, NEW a, NEW s, NEW t, NEW m \in 1 .. 14, NEW n \in 0 .. 14, NEW l \in 0 .. 14,
           m <= n + 1, n <= l, Part(x, a, s, m, n), Part(x, a, t, n + 1, l)
    PROVE  Part(x, a, s \o t, m, l)
<1> DEFINE T == {Word(x, a, j) : j \in 1 .. 14}
<1>1. s \in Seq(T) /\ t \in Seq(T) /\ Len(s) = n - m + 1 /\ Len(t) = l - n
  BY DEF Part
<1>2. /\ s \o t \in Seq(T) /\ Len(s \o t) = l - m + 1
      /\ \A j \in 1 .. l - m + 1 : (s \o t)[j] = IF j <= n - m + 1 THEN s[j]
                                                 ELSE t[j - (n - m + 1)]
  BY <1>1, ConcatProperties
<1>3. ASSUME NEW j \in 1 .. l - m + 1 PROVE (s \o t)[j] = Word(x, a, m + j - 1)
  <2>1. CASE j <= n - m + 1
    <3>1. j \in 1 .. n - m + 1
      BY <2>1
    <3> QED BY <1>2, <2>1, <3>1 DEF Part
  <2>2. CASE ~(j <= n - m + 1)
    <3>1. /\ j - (n - m + 1) \in 1 .. l - (n + 1) + 1
          /\ (n + 1) + (j - (n - m + 1)) - 1 = m + j - 1
      BY <2>2
    <3>2. t[j - (n - m + 1)] = Word(x, a, (n + 1) + (j - (n - m + 1)) - 1)
      BY <3>1 DEF Part
    <3> QED BY <1>2, <2>2, <3>1, <3>2
  <2> QED BY <2>1, <2>2
<1> QED BY <1>2, <1>3 DEF Part

LEMMA NoPart ==
    ASSUME NEW x, NEW a, NEW m, NEW n \in 1 .. 14, n = m + 1, m \in Nat
    PROVE  Part(x, a, <<>>, n, m)
BY DEF Part

LEMMA SimulatedTable ==
    ASSUME NEW x, NEW a
    PROVE  Part(x, a, Simulated(a.sim), 12,
                IF a.sim \in Unusable THEN 11
                ELSE IF a.sim \in {"success", "program"} THEN 14 ELSE 13)
<1>1. CASE a.sim \in Unusable
  <2>1. Simulated(a.sim) = <<>>
    BY <1>1, NoneIsNoAnswer DEF Simulated, Unusable
  <2> QED BY <1>1, <2>1, NoPart
<1>2. CASE a.sim \in {"success", "program"}
  <2>1. a.sim \notin Unusable
    BY <1>2, NoneIsNoAnswer DEF Unusable
  <2>2. Simulated(a.sim) = <<Word(x, a, 12), Word(x, a, 13), Word(x, a, 14)>>
    BY <1>2, <2>1, Words DEF Simulated, Landing, End
  <2>3. Part(x, a, <<Word(x, a, 12), Word(x, a, 13), Word(x, a, 14)>>, 12, 14)
    BY DEF Part
  <2> QED BY <1>2, <2>1, <2>2, <2>3
<1>3. CASE a.sim \notin Unusable /\ a.sim \notin {"success", "program"}
  <2>1. Simulated(a.sim) = <<Word(x, a, 12), Word(x, a, 13)>>
    BY <1>3, Words DEF Simulated, Landing
  <2>2. Part(x, a, <<Word(x, a, 12), Word(x, a, 13)>>, 12, 13)
    BY DEF Part
  <2> QED BY <1>3, <2>1, <2>2
<1> QED BY <1>1, <1>2, <1>3

LEMMA PlannedTable ==
    ASSUME NEW i, NEW x, x = (i \in Exits), NEW a
    PROVE  Part(x, a, Planned(i, a.actor, a.sim), 9,
                IF a.actor \in Unusable THEN 8
                ELSE IF Short(x, a) THEN 9
                ELSE IF a.sim \in Unusable THEN 11
                ELSE IF a.sim \in {"success", "program"} THEN 14 ELSE 13)
<1>1. CASE a.actor \in Unusable
  <2>1. Planned(i, a.actor, a.sim) = <<>>
    BY <1>1, NoneIsNoAnswer DEF Planned, Unusable
  <2> QED BY <1>1, <2>1, NoPart
<1>2. CASE a.actor \notin Unusable /\ Short(x, a)
  <2>1. Planned(i, a.actor, a.sim) = <<Word(x, a, 9)>>
    BY <1>2, Words DEF Planned, Turn, Short
  <2>2. Part(x, a, <<Word(x, a, 9)>>, 9, 9)
    BY DEF Part
  <2> QED BY <1>2, <2>1, <2>2
<1>3. CASE a.actor \notin Unusable /\ ~Short(x, a)
  <2> DEFINE s == <<Word(x, a, 9), Word(x, a, 10), Word(x, a, 11)>>
             l == IF a.sim \in Unusable THEN 11
                  ELSE IF a.sim \in {"success", "program"} THEN 14 ELSE 13
  <2>1. Planned(i, a.actor, a.sim) = s \o Simulated(a.sim)
    BY <1>3, Words DEF Planned, Turn, Short
  <2>2. Part(x, a, s, 9, 11)
    BY DEF Part
  <2>3. Part(x, a, Simulated(a.sim), 11 + 1, l) /\ l \in 11 .. 14
    BY SimulatedTable
  <2> HIDE DEF s, l
  <2>4. Part(x, a, s \o Simulated(a.sim), 9, l)
    BY <2>2, <2>3, JoinParts
  <2> QED BY <1>3, <2>1, <2>4 DEF l
<1> QED BY <1>1, <1>2, <1>3

LEMMA RoutedTable ==
    ASSUME NEW i, NEW x, x = (i \in Exits), NEW a,
           a.venue \notin Unusable, a.venue # "routeless"
    PROVE  Part(x, a, Routed(i, a.venue, a.actor, a.sim), 3, Size(x, a))
<1> DEFINE s == <<Word(x, a, 3), Word(x, a, 4), Word(x, a, 5)>>
<1>1. Part(x, a, s, 3, 5)
  BY DEF Part
<1>2. CASE a.venue = "unquotable"
  <2>1. Routed(i, a.venue, a.actor, a.sim) = s \o <<Word(x, a, 6)>>
    BY <1>2, Words DEF Routed, Way, Bind
  <2>2. Part(x, a, <<Word(x, a, 6)>>, 5 + 1, 6)
    BY DEF Part
  <2> HIDE DEF s
  <2>3. Part(x, a, s \o <<Word(x, a, 6)>>, 3, 6)
    BY <1>1, <2>2, JoinParts
  <2> QED BY <1>2, <2>1, <2>3 DEF Size
<1>3. CASE a.venue # "unquotable"
  <2> DEFINE t == <<Word(x, a, 6), Word(x, a, 7), Word(x, a, 8)>>
             p == Planned(i, a.actor, a.sim)
             l == Size(x, a)
  <2>1. Routed(i, a.venue, a.actor, a.sim) = s \o (t \o p)
    BY <1>3, Words DEF Routed, Way, Bind
  <2>2. Part(x, a, t, 5 + 1, 8)
    BY DEF Part
  <2>3. Part(x, a, p, 8 + 1, l) /\ l \in 8 .. 14
    <3>1. l = IF a.actor \in Unusable THEN 8
              ELSE IF Short(x, a) THEN 9
              ELSE IF a.sim \in Unusable THEN 11
              ELSE IF a.sim \in {"success", "program"} THEN 14 ELSE 13
      BY <1>3 DEF Size
    <3> QED BY <3>1, PlannedTable
  <2> HIDE DEF s, t, p, l
  <2>4. Part(x, a, t \o p, 5 + 1, l)
    BY <2>2, <2>3, JoinParts
  <2>5. Part(x, a, s \o (t \o p), 3, l)
    BY <1>1, <2>3, <2>4, JoinParts
  <2> QED BY <2>1, <2>5 DEF l
<1> QED BY <1>2, <1>3

LEMMA PipelineTable ==
    ASSUME NEW i
    PROVE  /\ SizeOf(i) \in 2 .. 14 /\ DOMAIN Pipeline(i) = 1 .. SizeOf(i)
           /\ \A n \in 1 .. SizeOf(i) : Pipeline(i)[n] = StepOf(i, n)
<1>1. PICK a, x : a = answer[i] /\ x = (i \in Exits)
  OBVIOUS
<1> DEFINE s == <<Word(x, a, 1), Word(x, a, 2)>>
           l == Size(x, a)
<1>2. Part(x, a, s, 1, 2)
  BY DEF Part
<1>3. l \in 2 .. 14
  BY DEF Size
<1>4. \E t : Pipeline(i) = s \o t /\ Part(x, a, t, 2 + 1, l)
  <2>1. CASE a.venue \in Unusable
    <3>1. Pipeline(i) = s \o <<>>
      BY <1>1, <2>1, Words, NoneIsNoAnswer DEF Pipeline, Unusable
    <3>2. Part(x, a, <<>>, 2 + 1, 2)
      BY NoPart
    <3> QED BY <2>1, <3>1, <3>2 DEF Size
  <2>2. CASE a.venue \notin Unusable /\ a.venue = "routeless"
    <3> DEFINE t == <<Word(x, a, 3), Word(x, a, 4), Word(x, a, 5)>>
    <3>1. Pipeline(i) = s \o t
      BY <1>1, <2>2, Words DEF Pipeline, Way
    <3>2. Part(x, a, t, 2 + 1, 5)
      BY DEF Part
    <3> QED BY <2>2, <3>1, <3>2 DEF Size
  <2>3. CASE a.venue \notin Unusable /\ a.venue # "routeless"
    <3>1. Pipeline(i) = s \o Routed(i, a.venue, a.actor, a.sim)
      BY <1>1, <2>3, Words DEF Pipeline
    <3>2. Part(x, a, Routed(i, a.venue, a.actor, a.sim), 2 + 1, l)
      BY <1>1, <2>3, RoutedTable
    <3> QED BY <3>1, <3>2
  <2> QED BY <2>1, <2>2, <2>3
<1> HIDE DEF s, l
<1>5. PICK t : Pipeline(i) = s \o t /\ Part(x, a, t, 2 + 1, l)
  BY <1>4
<1>6. Part(x, a, Pipeline(i), 1, l)
  BY <1>2, <1>3, <1>5, JoinParts
<1>7. /\ Len(Pipeline(i)) = l /\ Pipeline(i) \in Seq({Word(x, a, j) : j \in 1 .. 14})
      /\ \A j \in 1 .. l : Pipeline(i)[j] = Word(x, a, j)
  BY <1>3, <1>6 DEF Part
<1>8. DOMAIN Pipeline(i) = 1 .. l
  BY <1>7, LenProperties
<1>9. SizeOf(i) = l /\ \A n : StepOf(i, n) = Word(x, a, n)
  BY <1>1 DEF SizeOf, StepOf, l
<1> QED BY <1>3, <1>7, <1>8, <1>9
-----------------------------------------------------------------------------
(* What a step of the table asks of the steps before it.                   *)
Spot(x, a, do, what) ==
    CASE do = "ask"  -> Place(what)
      [] do = "keep" -> (CASE what = "state" -> 3 [] what = "route" -> 5 [] what = "quote" -> 7
                           [] what = "plan" -> 9 [] what = "run" -> 12)
      [] do = "to"   -> (CASE what = "ELIGIBILITY_CHECKED" -> 1 [] what = "ROUTE_BOUND" -> 4
                           [] what = "QUOTE_BOUND" -> 6 [] what = "PLAN_BUILT" -> 10
                           [] what = "REJECTED"  -> IF a.venue = "routeless" THEN 4 ELSE 9
                           [] what = "FAILED"    -> IF a.sim = "program" THEN 14 ELSE 13
                           [] what = "COMPLETED" -> 14
                           [] OTHER              -> 13)

(* Every step is of its kind, and no two do the same.                      *)
LEMMA Spots ==
    ASSUME NEW x, NEW a, NEW n \in 1 .. Size(x, a)
    PROVE  /\ n \in 1 .. 14
           /\ Word(x, a, n).do \in {"to", "ask", "keep", "refuse"}
           /\ Word(x, a, n).do # "refuse" => n = Spot(x, a, Word(x, a, n).do, Word(x, a, n).what)
<1>0. /\ n \in 1 .. 14
      /\ n > 9 => ~Short(x, a)
      /\ n > 6 => a.venue # "unquotable"
      /\ n > 5 => a.venue # "routeless"
      /\ n = 14 => a.sim \in {"success", "program"}
  BY NoneIsNoAnswer DEF Size, Unusable
<1> HIDE DEF Size
<1>1. CASE n \in 1 .. 3
  BY <1>1, Words DEF To, Ask, Keep, Spot, Place
<1>2. CASE n \in 4 .. 6
  BY <1>0, <1>2, Words DEF To, Keep, Refuse, Way, Bind, Spot
<1>3. CASE n \in 7 .. 9
  BY <1>0, <1>3, Words DEF To, Keep, Ask, Refuse, Turn, Spot, Place
<1>4. CASE n \in 10 .. 12
  BY <1>0, <1>4, Words DEF To, Keep, Ask, Spot, Place
<1>5. CASE n = 13
  BY <1>0, <1>5, Words DEF To, Landing, Spot
<1>6. CASE n = 14
  BY <1>0, <1>6, Words DEF To, End, Spot
<1> QED BY <1>0, <1>1, <1>2, <1>3, <1>4, <1>5, <1>6

(* A transition is allowed where it stands.                                *)
LEMMA ToStep ==
    ASSUME NEW x, NEW a, NEW k \in Nat, k < Size(x, a), Word(x, a, k + 1).do = "to"
    PROVE  /\ Word(x, a, k + 1).what \in Allowed[After(x, a, k)]
           /\ Word(x, a, k + 1).what = After(x, a, k + 1)
           /\ Word(x, a, k + 1).what # "CREATED"
           /\ After(x, a, k) \notin Terminal
           /\ k + 1 = 9 => a.actor = "nobase" /\ x
<1>0. /\ k \in 0 .. 13
      /\ k + 1 > 6 => a.venue # "unquotable"
      /\ k + 1 > 5 => a.venue # "routeless"
      /\ k + 1 = 14 => a.sim \in {"success", "program"}
      /\ k + 1 > 9 => ~Short(x, a)
  BY NoneIsNoAnswer DEF Size, Unusable
<1>1. CASE k = 0
  BY <1>1, Words DEF To, After, Allowed, Terminal, Negative
<1>2. CASE k \in {1, 2, 4, 6, 7, 10, 11}
  BY <1>2, Words DEF Ask, Keep
<1>3. CASE k = 3
  BY <1>3, Words DEF To, Way, After, Allowed, Terminal, Negative
<1>4. CASE k = 5
  BY <1>0, <1>4, Words DEF To, Way, Bind, Refuse, After, Allowed, Terminal, Negative
<1>5. CASE k = 8
  BY <1>5, Words DEF To, Turn, Keep, Refuse, After, Allowed, Terminal, Negative
<1>6. CASE k = 9
  BY <1>0, <1>6, Words DEF To, Short, After, Allowed, Terminal, Negative
<1>7. CASE k = 12
  BY <1>7, Words DEF To, Landing, After, Allowed, Terminal, Negative
<1>8. CASE k = 13
  BY <1>0, <1>8, Words DEF To, End, Landing, After, Allowed, Terminal, Negative
<1> QED BY <1>0, <1>1, <1>2, <1>3, <1>4, <1>5, <1>6, <1>7, <1>8

(* The other steps leave the state alone, and evidence is kept where it    *)
(* belongs.                                                                *)
LEMMA OtherStep ==
    ASSUME NEW x, NEW a, NEW k \in Nat, k < Size(x, a),
           Word(x, a, k + 1).do \in {"ask", "keep"}
    PROVE  After(x, a, k + 1) = After(x, a, k)
<1>0. /\ k \in 0 .. 13
      /\ k + 1 = 10 => ~Short(x, a)
  BY NoneIsNoAnswer DEF Size, Unusable
<1>1. CASE k \in {0, 3, 9, 12, 13}
  BY <1>1, Words DEF To, Way, Landing, End
<1>2. CASE k \in {1, 2, 4, 6, 7, 10, 11}
  BY <1>2 DEF After
<1>3. CASE k = 5
  BY <1>3, Words DEF To, Bind, Refuse
<1>4. CASE k = 8
  BY <1>4, Words DEF To, Turn, Keep, Refuse, After
<1> QED BY <1>0, <1>1, <1>2, <1>3, <1>4

LEMMA KeepStep ==
    ASSUME NEW x, NEW a, NEW k \in Nat, k < Size(x, a), Word(x, a, k + 1).do = "keep"
    PROVE  LET w == Word(x, a, k + 1).what IN
           /\ w \in {"state", "route", "quote", "plan", "run"}
           /\ w = "state" => After(x, a, k) = "ELIGIBILITY_CHECKED"
           /\ w = "route" => /\ Word(x, a, k + 1).by = a.venue
                             /\ After(x, a, k) = IF a.venue = "routeless" THEN "REJECTED"
                                                                         ELSE "ROUTE_BOUND"
           /\ w \in {"quote", "plan"} => After(x, a, k) = "QUOTE_BOUND"
           /\ w = "run" => After(x, a, k) = "PLAN_BUILT"
<1>0. k \in 0 .. 13
  BY DEF Size
<1>1. CASE k \in {0, 1, 3, 5, 7, 9, 10, 12, 13}
  BY <1>1, Words DEF To, Ask, Way, Bind, Refuse, Landing, End
<1>2. CASE k = 2
  BY <1>2, Words DEF Keep, After
<1>3. CASE k = 4
  BY <1>3, Words DEF Keep, To, Way, After
<1>4. CASE k \in {6, 8}
  BY <1>4, Words DEF Keep, Turn, To, Refuse, After
<1>5. CASE k = 11
  BY <1>5, Words DEF Keep, After
<1> QED BY <1>0, <1>1, <1>2, <1>3, <1>4, <1>5

(* The questions stand at their places, and the last one without a usable  *)
(* answer ends the pipeline.                                               *)
LEMMA AskStep ==
    ASSUME NEW x, NEW a, NEW n \in 1 .. Size(x, a)
    PROVE  /\ Word(x, a, n).do = "ask" =>
                /\ Word(x, a, n).what \in Questions /\ Place(Word(x, a, n).what) = n
                /\ After(x, a, n - 1) \notin Terminal
                /\ a[Word(x, a, n).what] \in Unusable => n = Size(x, a)
           /\ \A q \in Questions : Place(q) = n => Word(x, a, n) = Ask(q)
<1>0. /\ n \in 1 .. 14
      /\ n = 2 => (a.venue \in Unusable => n = Size(x, a))
      /\ n = 8 => (a.actor \in Unusable => n = Size(x, a))
      /\ n = 11 => (a.sim \in Unusable => n = Size(x, a))
  BY NoneIsNoAnswer DEF Size, Unusable
<1>1. CASE n \notin {2, 8, 11}
  <2>1. Word(x, a, n).do # "ask"
    BY <1>0, <1>1, Words DEF To, Keep, Way, Bind, Refuse, Turn, Landing, End
  <2> QED BY <1>1, <2>1 DEF Place, Questions
<1>2. CASE n = 2
  BY <1>0, <1>2, Words DEF Ask, Place, Questions, After, Terminal, Negative
<1>3. CASE n = 8
  BY <1>0, <1>3, Words DEF Ask, Place, Questions, After, Terminal, Negative
<1>4. CASE n = 11
  BY <1>0, <1>4, Words DEF Ask, Place, Questions, After, Terminal, Negative
<1> QED BY <1>1, <1>2, <1>3, <1>4

LEMMA RefuseStep ==
    ASSUME NEW x, NEW a, NEW n \in 1 .. Size(x, a)
    PROVE  /\ Word(x, a, n).do = "refuse" =>
                \/ n = 6 /\ a.venue = "unquotable" /\ Word(x, a, n).what = "quote"
                \/ n = 9 /\ a.actor = "unplannable" /\ Word(x, a, n).what = "plan"
                \/ n = 9 /\ a.actor = "malformed" /\ Word(x, a, n).what = "replay"
           /\ a.venue = "unquotable" => /\ Size(x, a) \in {2, 6} /\ Word(x, a, 6).do = "refuse"
                                        /\ After(x, a, 5) = "ROUTE_BOUND"
           /\ a.actor \in {"malformed", "unplannable"} => /\ Size(x, a) \in {2, 5, 6, 9}
                                                          /\ Word(x, a, 9).do = "refuse"
           /\ After(x, a, 8) = "QUOTE_BOUND"
<1>0. n \in 1 .. 14
  BY DEF Size
<1>1. a.venue = "unquotable" => Size(x, a) \in {2, 6}
  BY DEF Size
<1>2. a.actor \in {"malformed", "unplannable"} => Size(x, a) \in {2, 5, 6, 9}
  BY NoneIsNoAnswer DEF Size, Short, Unusable
<1>3. ASSUME Word(x, a, n).do = "refuse"
      PROVE  \/ n = 6 /\ a.venue = "unquotable" /\ Word(x, a, n).what = "quote"
             \/ n = 9 /\ a.actor = "unplannable" /\ Word(x, a, n).what = "plan"
             \/ n = 9 /\ a.actor = "malformed" /\ Word(x, a, n).what = "replay"
  <2>1. CASE n \notin {6, 9}
    BY <1>0, <1>3, <2>1, Words DEF To, Ask, Keep, Way, Landing, End
  <2>2. CASE n = 6
    BY <1>3, <2>2, Words DEF To, Bind, Refuse
  <2>3. CASE n = 9
    BY <1>3, <2>3, Words DEF To, Keep, Turn, Refuse
  <2> QED BY <2>1, <2>2, <2>3
<1>4. a.venue = "unquotable" => Word(x, a, 6).do = "refuse" /\ After(x, a, 5) = "ROUTE_BOUND"
  BY Words DEF Bind, Refuse, After, Way, To
<1>5. a.actor \in {"malformed", "unplannable"} => Word(x, a, 9).do = "refuse"
  BY Words DEF Turn, Refuse
<1>6. After(x, a, 8) = "QUOTE_BOUND"
  BY DEF After
<1> QED BY <1>1, <1>2, <1>3, <1>4, <1>5, <1>6

(* An answer makes the pipeline longer and changes no step before it.      *)
LEMMA Longer ==
    ASSUME NEW x, NEW a, NEW b, NEW k \in Nat, k < Size(x, a), NEW q \in Questions,
           Place(q) = k + 1, \A p \in Questions \ {q} : b[p] = a[p]
    PROVE  /\ k + 1 <= Size(x, b)
           /\ \A n \in 1 .. k + 1 : Word(x, b, n) = Word(x, a, n)
           /\ \A n \in 0 .. k + 1 : After(x, b, n) = After(x, a, n)
<1>1. CASE q = "venue"
  <2>1. k = 1
    BY <1>1 DEF Place
  <2>2. \A n \in 1 .. 2 : n = 1 \/ n = 2
    OBVIOUS
  <2>3. \A n \in 0 .. 2 : n = 0 \/ n \in 1 .. 3
    OBVIOUS
  <2> QED BY <2>1, <2>2, <2>3, Words DEF Size, After
<1>2. CASE q = "actor"
  <2>1. k = 7 /\ b.venue = a.venue
    BY <1>2 DEF Place, Questions
  <2>2. a.venue \notin Unusable \cup {"routeless", "unquotable"}
    BY <2>1 DEF Size
  <2>3. 8 <= Size(x, b)
    BY <2>1, <2>2 DEF Size
  <2>4. ASSUME NEW n \in 1 .. 8 PROVE Word(x, b, n) = Word(x, a, n)
    <3>1. n \in {1, 2, 3, 4, 5, 6, 7, 8}
      OBVIOUS
    <3> QED BY <2>1, <3>1, Words DEF Way, Bind
  <2>5. ASSUME NEW n \in 0 .. 8 PROVE After(x, b, n) = After(x, a, n)
    BY <2>1 DEF After, Way
  <2> QED BY <2>1, <2>3, <2>4, <2>5
<1>3. CASE q = "sim"
  <2>1. k = 10 /\ b.venue = a.venue /\ b.actor = a.actor
    BY <1>3 DEF Place, Questions
  <2>2. /\ a.venue \notin Unusable \cup {"routeless", "unquotable"}
        /\ a.actor \notin Unusable /\ ~Short(x, a)
    BY <2>1 DEF Size
  <2>3. 11 <= Size(x, b)
    BY <2>1, <2>2 DEF Size, Short
  <2>4. ASSUME NEW n \in 1 .. 11 PROVE Word(x, b, n) = Word(x, a, n)
    <3>1. n \in {1, 2, 3, 4, 5, 6, 7, 8, 9, 10, 11}
      OBVIOUS
    <3> QED BY <2>1, <3>1, Words DEF Way, Bind, Turn
  <2>5. ASSUME NEW n \in 0 .. 11 PROVE After(x, b, n) = After(x, a, n)
    BY <2>1 DEF After, Way
  <2> QED BY <2>1, <2>3, <2>4, <2>5
<1> QED BY <1>1, <1>2, <1>3 DEF Questions
-----------------------------------------------------------------------------
(* The step an intent stands before is the first one that is not done.     *)
LEMMA MinOf ==
    ASSUME NEW S, NEW m \in S, S \subseteq Nat, \A n \in S : m <= n
    PROVE  Min(S) = m
<1>1. Min(S) \in S /\ \A n \in S : Min(S) <= n
  BY DEF Min
<1>2. Min(S) \in Nat /\ m \in Nat /\ m <= Min(S) /\ Min(S) <= m
  BY <1>1
<1> QED BY <1>2

LEMMA NotFallen == \A i : failure[i] = NONE => ~Fallen(i)
<1>1. NONE \notin Regular
  BY NoneAssumption DEF Regular
<1> QED BY <1>1 DEF Fallen, Endings, Regular

LEMMA NotFallenNext == \A i : Fallen(i)' => failure'[i] # NONE
<1>1. NONE \notin Regular
  BY NoneAssumption DEF Regular
<1> QED BY <1>1 DEF Fallen, Endings, Regular

LEMMA ErrorPlace ==
    ASSUME NEW i, NEW k \in Nat, Reached(i, k), NEW q \in Questions, answer[i][q] = "error"
    PROVE  Place(q) = k + 1 /\ answer[i][q] \in Unusable
<1>1. answer[i][q] # NONE /\ answer[i][q] \in Unusable
  BY NoneIsNoAnswer DEF Unusable
<1>2. Place(q) <= k + 1 /\ ~(Place(q) <= k)
  BY <1>1 DEF Reached, Answered
<1>3. Place(q) \in Nat
  BY DEF Place, Questions
<1> QED BY <1>1, <1>2, <1>3

(* A step that is next finds neither its row nor its answer there.         *)
LEMMA NotDone ==
    ASSUME NEW i, NEW k \in Nat, k < SizeOf(i), Reached(i, k), ~ParentUnsound(i)
    PROVE  /\ StepOf(i, k + 1).do \in {"to", "keep"} => failure[i] = NONE
           /\ StepOf(i, k + 1).do = "to" => Fact(i, k + 1) \notin Range(hist[i])
           /\ StepOf(i, k + 1).do = "keep" =>
                 StepOf(i, k + 1).what \notin {c[1] : c \in kept[i]}
           /\ StepOf(i, k + 1).do = "keep" => Fact(i, k + 1) \notin kept[i]
           /\ StepOf(i, k + 1).do = "ask" => answer[i][StepOf(i, k + 1).what] \in Unusable
<1> PICK x, a : x = (i \in Exits) /\ a = answer[i]
  OBVIOUS
<1>1. /\ SizeOf(i) = Size(x, a) /\ \A n : StepOf(i, n) = Word(x, a, n)
      /\ \A n : AfterOf(i, n) = After(x, a, n)
      /\ k + 1 \in 1 .. Size(x, a) /\ 1 .. k \subseteq 1 .. Size(x, a) /\ SizeOf(i) \in Nat
  BY PipelineTable DEF SizeOf, StepOf, AfterOf
<1>2. ASSUME NEW n \in 1 .. k, Word(x, a, n).do # "refuse",
             Word(x, a, n).do = Word(x, a, k + 1).do,
             Word(x, a, n).what = Word(x, a, k + 1).what
      PROVE  FALSE
  <2>1. n = k + 1
    BY <1>1, <1>2, Spots
  <2> QED BY <2>1
<1>3. ASSUME Word(x, a, k + 1).do \in {"to", "keep"} PROVE failure[i] = NONE
  <2>1. SUFFICES ASSUME failure[i] # NONE PROVE FALSE
    OBVIOUS
  <2>2. Cause(i, k, failure[i])
    BY <2>1 DEF Reached, Justified
  <2>3. CASE \E q \in Questions : answer[i][q] = "error"
    <3>1. PICK q \in Questions : answer[i][q] = "error"
      BY <2>3
    <3>2. Place(q) = k + 1
      BY <3>1, ErrorPlace
    <3>3. Word(x, a, k + 1) = Ask(q)
      BY <1>1, <3>2, AskStep
    <3> QED BY <1>3, <3>3 DEF Ask
  <2>4. CASE \/ a.venue = "unquotable" /\ k = 5
             \/ a.actor \in {"malformed", "unplannable"} /\ k = 8
    <3>1. Word(x, a, k + 1).do = "refuse"
      BY <1>1, <2>4, RefuseStep
    <3> QED BY <1>3, <3>1
  <2> QED BY <2>2, <2>3, <2>4 DEF Cause
<1>4. ASSUME Word(x, a, k + 1).do = "to" PROVE Fact(i, k + 1) \notin Range(hist[i])
  <2>1. SUFFICES ASSUME Fact(i, k + 1) \in Range(hist[i]) PROVE FALSE
    OBVIOUS
  <2>2. Word(x, a, k + 1).what # "CREATED"
    BY <1>1, <1>4, ToStep
  <2>3. ~Fallen(i)
    BY <1>3, <1>4, NotFallen
  <2>4. PICK n \in 1 .. k : Word(x, a, n).do = "to" /\ Fact(i, k + 1) = Fact(i, n)
    BY <1>1, <2>1, <2>2, <2>3 DEF Reached, Traced, Fact
  <2> QED BY <1>1, <1>2, <1>4, <2>4 DEF Fact
<1>5. ASSUME Word(x, a, k + 1).do = "keep", NEW c \in kept[i], c[1] = Word(x, a, k + 1).what
      PROVE  FALSE
  <2>1. PICK n \in 1 .. k : Word(x, a, n).do = "keep" /\ c = Fact(i, n)
    BY <1>1, <1>5 DEF Reached, Traced
  <2> QED BY <1>1, <1>2, <1>5, <2>1 DEF Fact
<1>6. ASSUME Word(x, a, k + 1).do = "ask" PROVE a[Word(x, a, k + 1).what] \in Unusable
  <2>1. Word(x, a, k + 1).what \in Questions /\ Place(Word(x, a, k + 1).what) = k + 1
    BY <1>1, <1>6, AskStep
  <2> QED BY <2>1 DEF Reached, Answered
<1> QED BY <1>1, <1>3, <1>4, <1>5, <1>6 DEF Fact

LEMMA PendingPlaces ==
    ASSUME NEW i
    PROVE  Pending(i) = {n \in DOMAIN Pipeline(i) : ~Done(i, Pipeline(i)[n])}
BY DEF Pending

LEMMA Frontier ==
    ASSUME NEW i, NEW k \in Nat, k <= SizeOf(i), Reached(i, k), ~ParentUnsound(i)
    PROVE  /\ k < SizeOf(i) => /\ Pending(i) # {}
                               /\ Pipeline(i)[Min(Pending(i))] = StepOf(i, k + 1)
           /\ k = SizeOf(i) => Pending(i) = {}
<1>1. /\ SizeOf(i) \in 2 .. 14 /\ DOMAIN Pipeline(i) = 1 .. SizeOf(i)
      /\ \A n \in 1 .. SizeOf(i) : Pipeline(i)[n] = StepOf(i, n)
  BY PipelineTable
<1>2. \A n \in 1 .. SizeOf(i) : StepOf(i, n).do \in {"to", "ask", "keep", "refuse"}
  BY Spots DEF SizeOf, StepOf
<1>3. ASSUME NEW n \in 1 .. k PROVE n \notin Pending(i)
  <2>1. /\ StepOf(i, n).do # "refuse"
        /\ StepOf(i, n).do = "to" => Fact(i, n) \in Range(hist[i])
        /\ StepOf(i, n).do = "keep" => Fact(i, n) \in kept[i]
    BY DEF Reached, Traced
  <2>2. n \in 1 .. SizeOf(i)
    BY <1>1
  <2>3. ASSUME StepOf(i, n).do = "ask" PROVE answer[i][StepOf(i, n).what] \notin Unusable
    <3>1. StepOf(i, n).what \in Questions /\ Place(StepOf(i, n).what) = n
      BY <2>2, <2>3, AskStep DEF StepOf, SizeOf
    <3> QED BY <3>1 DEF Reached, Answered
  <2>4. Done(i, StepOf(i, n))
    BY <1>2, <2>1, <2>2, <2>3 DEF Done, Fact
  <2> QED BY <1>1, <2>2, <2>4, PendingPlaces
<1>4. ASSUME k < SizeOf(i) PROVE k + 1 \in Pending(i)
  <2>1. k + 1 \in 1 .. SizeOf(i)
    BY <1>1, <1>4
  <2>2. ~Done(i, StepOf(i, k + 1))
    BY <1>2, <1>4, <2>1, NotDone DEF Done, Fact
  <2> QED BY <1>1, <2>1, <2>2, PendingPlaces
<1>5. Pending(i) \subseteq 1 .. SizeOf(i)
  BY <1>1, PendingPlaces
<1>6. \A n \in Pending(i) : n \in Nat /\ k + 1 <= n
  BY <1>1, <1>3, <1>5
<1>7. CASE k < SizeOf(i)
  <2>1. Min(Pending(i)) = k + 1
    BY <1>4, <1>6, <1>7, MinOf
  <2> QED BY <1>1, <1>4, <1>7, <2>1
<1>8. CASE k = SizeOf(i)
  BY <1>1, <1>5, <1>6, <1>8
<1> QED BY <1>1, <1>7, <1>8

(* What ends the pipeline is the verdict.                                  *)
LEMMA VerdictReached ==
    ASSUME NEW i, Reached(i, SizeOf(i)), ~ParentUnsound(i)
    PROVE  AfterOf(i, SizeOf(i)) = Verdict(i) /\ AfterOf(i, SizeOf(i)) \in Terminal
<1> PICK x, a, k : x = (i \in Exits) /\ a = answer[i] /\ k = SizeOf(i)
  OBVIOUS
<1>1. /\ k = Size(x, a) /\ \A n : StepOf(i, n) = Word(x, a, n)
      /\ \A n : AfterOf(i, n) = After(x, a, n)
      /\ k \in 2 .. 14
  BY PipelineTable DEF SizeOf, StepOf, AfterOf
<1>2. /\ a.venue \notin Unusable <=> 2 <= k
      /\ a.actor \notin Unusable <=> 8 <= k
      /\ a.sim \notin Unusable <=> 11 <= k
      /\ a.actor # NONE => 8 <= k + 1
      /\ a.sim # NONE => 11 <= k + 1
  BY DEF Reached, Answered, Place, Questions
<1>3. \A n \in 1 .. k : Word(x, a, n).do # "refuse"
  BY <1>1 DEF Reached, Traced
<1>4. a.venue \notin Unusable
  BY <1>1, <1>2
<1>5. a.venue # "unquotable"
  <2>1. ASSUME a.venue = "unquotable" PROVE FALSE
    <3>1. k \in {2, 6} /\ Word(x, a, 6).do = "refuse"
      BY <1>1, <2>1, RefuseStep
    <3>2. k = 6
      BY <1>1, <1>4, <2>1, <3>1 DEF Size
    <3>3. 6 \in 1 .. k
      BY <3>2
    <3> QED BY <1>3, <3>1, <3>3
  <2> QED BY <2>1
<1>6. NONE \notin {"error", "nobase", "malformed", "unplannable"}
  BY NoneIsNoAnswer
<1>7. CASE a.venue = "routeless"
  <2>1. k = 5 /\ a.actor = NONE /\ a.sim = NONE
    BY <1>1, <1>2, <1>4, <1>7 DEF Size
  <2>2. After(x, a, 5) = "REJECTED"
    BY <1>7 DEF After, Way, To
  <2> QED BY <1>1, <1>4, <1>6, <1>7, <2>1, <2>2
        DEF Verdict, Questions, Unusable, Terminal, Negative
<1>8. CASE a.venue # "routeless"
  <2>1. a.actor \notin Unusable
    BY <1>1, <1>2, <1>4, <1>5, <1>8 DEF Size
  <2>0. a.actor \notin {"malformed", "unplannable"}
    <3>1. ASSUME a.actor \in {"malformed", "unplannable"} PROVE FALSE
      <4>1. k = 9 /\ Word(x, a, 9).do = "refuse"
        BY <1>1, <1>4, <1>5, <1>8, <2>1, <3>1, RefuseStep DEF Size, Short
      <4>2. 9 \in 1 .. k
        BY <4>1
      <4> QED BY <1>3, <4>1, <4>2
    <3> QED BY <3>1
  <2>2. CASE a.actor = "nobase" /\ x
    <3>1. k = 9 /\ a.sim = NONE
      BY <1>1, <1>2, <1>4, <1>5, <1>8, <2>1, <2>2 DEF Size, Short
    <3>2. After(x, a, 9) = "REJECTED"
      BY <2>2 DEF After
    <3> QED BY <1>1, <1>4, <1>5, <1>6, <1>8, <2>0, <2>1, <2>2, <3>1, <3>2
          DEF Verdict, Questions, Unusable, Terminal, Negative
  <2>3. CASE ~(a.actor = "nobase" /\ x)
    <3>1. a.sim \notin Unusable
      BY <1>1, <1>2, <1>4, <1>5, <1>8, <2>0, <2>1, <2>3 DEF Size, Short
    <3>2. k = IF a.sim \in {"success", "program"} THEN 14 ELSE 13
      BY <1>1, <1>4, <1>5, <1>8, <2>0, <2>1, <2>3, <3>1 DEF Size, Short
    <3>3. After(x, a, k) = CASE a.sim = "success" -> "COMPLETED"
                             [] a.sim = "expired" -> "EXPIRED"
                             [] OTHER             -> "FAILED"
      BY <3>2 DEF After, Landing, End, To
    <3>4. Verdict(i) = CASE a.sim = "success" -> "COMPLETED"
                         [] a.sim = "expired" -> "EXPIRED"
                         [] OTHER             -> "FAILED"
      BY <1>1, <1>4, <1>5, <1>8, <2>0, <2>1, <2>3, <3>1 DEF Verdict, Questions, Unusable
    <3> QED BY <1>1, <3>3, <3>4 DEF Terminal, Negative
  <2> QED BY <2>2, <2>3
<1> QED BY <1>7, <1>8
-----------------------------------------------------------------------------
(* Intents a step does not touch.                                          *)
LEMMA KeepReached ==
    ASSUME NEW i, NEW k, Reached(i, k),
           hist'[i] = hist[i], kept'[i] = kept[i], answer'[i] = answer[i],
           failure'[i] = failure[i], work'[i] = work[i],
           ParentUnsound(i)' <=> ParentUnsound(i), RaisedBy(i)' \in {NONE, RaisedBy(i)}
    PROVE  Reached(i, k)' /\ SizeOf(i)' = SizeOf(i)
<1>1. /\ \A n : StepOf(i, n)' = StepOf(i, n) /\ Fact(i, n)' = Fact(i, n)
      /\ SizeOf(i)' = SizeOf(i) /\ AfterOf(i, k)' = AfterOf(i, k)
  BY DEF StepOf, Fact, SizeOf, AfterOf
<1>2. State(i)' = State(i) /\ (Fallen(i)' <=> Fallen(i))
  BY DEF State, Registered, Fallen
<1>3. Answered(i, k)'
  BY DEF Reached, Answered
<1>4. Traced(i, k)'
  BY <1>1, <1>2 DEF Reached, Traced
<1>5. Justified(i, k)'
  <2>1. /\ RaisedBy(i)' = NONE \/ RaisedBy(i)' = RaisedBy(i)
        /\ NONE # "settled"
    BY NoneAssumption
  <2>2. \A e : Cause(i, k, e)' <=> Cause(i, k, e)
    BY DEF Cause
  <2> QED BY <1>1, <1>2, <2>1, <2>2 DEF Reached, Justified
<1> QED BY <1>1, <1>3, <1>4, <1>5 DEF Reached

LEMMA TrailBut ==
    ASSUME JInv, NEW i,
           \A j \in Intents : j # i =>
               /\ hist'[j] = hist[j] /\ kept'[j] = kept[j] /\ answer'[j] = answer[j]
               /\ failure'[j] = failure[j] /\ work'[j] = work[j]
               /\ Registered(j) => (ParentUnsound(j)' <=> ParentUnsound(j))
               /\ RaisedBy(j)' \in {NONE, RaisedBy(j)},
           i \in Intents /\ Registered(i)' /\ failure'[i] # "mishap" =>
               \E k \in 0 .. 14 : k <= SizeOf(i)' /\ Reached(i, k)'
    PROVE  Trail'
<1> SUFFICES ASSUME NEW j \in Intents, Registered(j)', failure'[j] # "mishap"
             PROVE  \E k \in 0 .. 14 : k <= SizeOf(j)' /\ Reached(j, k)'
  BY DEF Trail
<1>1. CASE j = i
  BY <1>1
<1>2. CASE j # i
  <2>1. Registered(j) /\ failure[j] # "mishap"
    BY <1>2 DEF Registered
  <2>2. PICK k \in 0 .. 14 : k <= SizeOf(j) /\ Reached(j, k)
    BY <2>1 DEF JInv, Trail
  <2>3. Reached(j, k)' /\ SizeOf(j)' = SizeOf(j)
    BY <1>2, <2>1, <2>2, KeepReached
  <2> QED BY <2>2, <2>3
<1> QED BY <1>1, <1>2

(* A step that only ends the handling of an exception, if one was handled. *)
LEMMA QuietTrail ==
    ASSUME JInv, UNCHANGED <<hist, kept, answer, failure, work, integrity>>, raised' = NONE
    PROVE  Trail'
<1>1. PICK i : i \notin Intents
  BY CountAssumption DEF Intents, Entries, Exits
<1>2. \A j : RaisedBy(j)' = NONE
  BY DEF RaisedBy
<1>3. \A j : ParentUnsound(j)' <=> ParentUnsound(j)
  BY DEF ParentUnsound
<1> QED BY <1>1, <1>2, <1>3, TrailBut

(* What an exit rests on is over and done with, and no longer changes.     *)
LEMMA ParentKept ==
    ASSUME IInv, NEW i, i \in Exits \/ work[i] # "inventoried",
           \A j \in Intents : j # i => integrity'[j] = integrity[j],
           NEW j \in Intents, Registered(j)
    PROVE  ParentUnsound(j)' <=> ParentUnsound(j)
<1>1. CASE j \in Exits
  <2>1. PICK p : p = ParentEntry[j]
    OBVIOUS
  <2>2. p \in Entries /\ p \in Intents /\ p \notin Exits /\ work[p] = "inventoried"
    BY <1>1, <2>1, Numbers DEF IInv, Parents
  <2>3. p # i
    BY <2>2
  <2>4. integrity'[p] = integrity[p]
    BY <2>2, <2>3
  <2> QED BY <2>1, <2>4 DEF ParentUnsound
<1>2. CASE j \notin Exits
  BY <1>2 DEF ParentUnsound
<1> QED BY <1>1, <1>2

LEMMA RangeAppend ==
    ASSUME NEW h, IsSeq(h), NEW e
    PROVE  Range(Append(h, e)) = Range(h) \cup {e}
<1>1. PICK T : h \in Seq(T)
  BY DEF IsSeq
<1> DEFINE U == T \cup {e}
           g == Append(h, e)
<1>2. h \in Seq(U) /\ e \in U
  BY <1>1
<1>3. /\ g \in Seq(U) /\ Len(g) = Len(h) + 1
      /\ \A n \in 1 .. Len(h) : g[n] = h[n]
      /\ g[Len(h) + 1] = e
  BY <1>2, AppendProperties
<1>4. /\ DOMAIN g = 1 .. Len(h) + 1 /\ DOMAIN h = 1 .. Len(h) /\ Len(h) \in Nat
  BY <1>2, <1>3, LenProperties
<1> HIDE DEF g
<1>5. ASSUME NEW y \in Range(g) PROVE y \in Range(h) \cup {e}
  <2>1. PICK n \in 1 .. Len(h) + 1 : y = g[n]
    BY <1>4 DEF Range
  <2>2. n \in 1 .. Len(h) \/ n = Len(h) + 1
    BY <1>4
  <2> QED BY <1>3, <1>4, <2>1, <2>2 DEF Range
<1>6. ASSUME NEW y \in Range(h) PROVE y \in Range(g)
  <2>1. PICK n \in 1 .. Len(h) : y = h[n]
    BY <1>4 DEF Range
  <2>2. n \in 1 .. Len(h) + 1 /\ y = g[n]
    BY <1>3, <1>4, <2>1
  <2> QED BY <1>4, <2>2 DEF Range
<1>7. e \in Range(g)
  <2>1. Len(h) + 1 \in 1 .. Len(h) + 1
    BY <1>4
  <2> QED BY <1>3, <1>4, <2>1 DEF Range
<1>8. Range(g) = Range(h) \cup {e}
  BY <1>5, <1>6, <1>7
<1> QED BY <1>8 DEF g

(* The intent being executed, and the step it stands before.               *)
LEMMA RunningIntent ==
    ASSUME JInv, Running, NEW i, i = Current
    PROVE  /\ i \in Intents /\ Registered(i) /\ raised = NONE /\ Executing
           /\ work[i] = "open" /\ \A j : RaisedBy(j) = NONE
           /\ failure[i] # "mishap" => \E k \in 0 .. 14 : k <= SizeOf(i) /\ Reached(i, k)
<1>1. Executing /\ raised = NONE /\ work[i] = "open"
  BY DEF Running
<1>2. i \in Intents /\ Registered(i)
  BY <1>1, CurrentIntent DEF JInv
<1> QED BY <1>1, <1>2 DEF RaisedBy, JInv, Trail

LEMMA NextStep ==
    ASSUME JInv, NEW w, NextIs(w), NEW i, i = Current, failure[i] # "mishap"
    PROVE  \E k \in 0 .. 13 : /\ k < SizeOf(i) /\ Reached(i, k)
                              /\ Step = StepOf(i, k + 1) /\ StepOf(i, k + 1).do = w
<1>1. /\ Running /\ ~ParentUnsound(i) /\ Pending(i) # {} /\ Step.do = w
      /\ Step = Pipeline(i)[Min(Pending(i))]
  BY DEF NextIs, Step
<1>2. PICK k \in 0 .. 14 : k <= SizeOf(i) /\ Reached(i, k)
  BY <1>1, RunningIntent
<1>3. SizeOf(i) \in 2 .. 14
  BY PipelineTable
<1>4. k # SizeOf(i)
  BY <1>1, <1>2, Frontier
<1>5. k < SizeOf(i) /\ k \in 0 .. 13
  BY <1>2, <1>3, <1>4
<1>6. Step = StepOf(i, k + 1)
  BY <1>1, <1>2, <1>5, Frontier
<1> QED BY <1>1, <1>2, <1>5, <1>6

(* What refuses an intent is one of three errors.                          *)
LEMMA RefusedWhat ==
    ASSUME NextIs("refuse") PROVE Step.what \in {"quote", "plan", "replay"}
<1>0. PICK i : i = Current
  OBVIOUS
<1>1. /\ SizeOf(i) \in 2 .. 14 /\ DOMAIN Pipeline(i) = 1 .. SizeOf(i)
      /\ \A n \in 1 .. SizeOf(i) : Pipeline(i)[n] = StepOf(i, n)
  BY PipelineTable
<1>2. Pending(i) # {} /\ Pending(i) \subseteq 1 .. SizeOf(i)
  BY <1>0, <1>1, PendingPlaces DEF NextIs
<1>3. \E m \in Pending(i) : \A n \in Pending(i) : m <= n
  BY <1>1, <1>2, LeastExists
<1>4. Min(Pending(i)) \in Pending(i)
  BY <1>3 DEF Min
<1>5. PICK n \in 1 .. SizeOf(i) : n = Min(Pending(i))
  BY <1>2, <1>4
<1>6. Step = StepOf(i, n) /\ Step.do = "refuse"
  BY <1>0, <1>1, <1>5 DEF NextIs, Step
<1> QED BY <1>6, RefuseStep DEF StepOf, SizeOf

(* An exception is raised.                                                 *)
LEMMA RaiseStep ==
    ASSUME JInv, Running, NEW i, i = Current, NEW e, raised' = e,
           e \notin {NONE, "settled"},
           UNCHANGED <<hist, kept, answer, failure, work, integrity, todo>>,
           failure[i] # "mishap" =>
               e = "mishap" \/ (\A k \in Nat : k <= SizeOf(i) /\ Reached(i, k) => Cause(i, k, e))
    PROVE  Trail'
<1>1. /\ i \in Intents /\ Registered(i) /\ work[i] = "open" /\ \A j : RaisedBy(j) = NONE
      /\ failure[i] # "mishap" => \E k \in 0 .. 14 : k <= SizeOf(i) /\ Reached(i, k)
  BY RunningIntent
<1>2. Current' = Current
  BY DEF Current
<1>3. \A j : /\ j # i => RaisedBy(j)' = NONE
             /\ RaisedBy(i)' = e
  BY <1>2 DEF RaisedBy
<1>4. \A j : ParentUnsound(j)' <=> ParentUnsound(j)
  BY DEF ParentUnsound
<1>5. ASSUME failure[i] # "mishap"
      PROVE  \E k \in 0 .. 14 : k <= SizeOf(i)' /\ Reached(i, k)'
  <2>1. PICK k \in 0 .. 14 : k <= SizeOf(i) /\ Reached(i, k)
    BY <1>1, <1>5
  <2>2. e = "mishap" \/ Cause(i, k, e)
    BY <1>5, <2>1
  <2>3. /\ \A n : StepOf(i, n)' = StepOf(i, n) /\ Fact(i, n)' = Fact(i, n)
        /\ SizeOf(i)' = SizeOf(i) /\ AfterOf(i, k)' = AfterOf(i, k)
    BY DEF StepOf, Fact, SizeOf, AfterOf
  <2>4. State(i)' = State(i) /\ (Fallen(i)' <=> Fallen(i))
    BY DEF State, Registered, Fallen
  <2>5. Answered(i, k)'
    BY <2>1 DEF Reached, Answered
  <2>6. Traced(i, k)'
    BY <2>1, <2>3, <2>4 DEF Reached, Traced
  <2>7. Justified(i, k)'
    <3>1. \A f : Cause(i, k, f)' <=> Cause(i, k, f)
      BY <1>4 DEF Cause
    <3> QED BY <1>1, <1>3, <1>4, <2>1, <2>2, <2>3, <2>4, <3>1 DEF Reached, Justified
  <2> QED BY <2>1, <2>3, <2>5, <2>6, <2>7 DEF Reached
<1> QED BY <1>3, <1>4, <1>5, TrailBut
-----------------------------------------------------------------------------
(* The pipeline goes one step further.                                     *)
LEMMA TransitTrail ==
    ASSUME JInv, Transit PROVE Trail'
<1>0. PICK i, s : i = Current /\ s = Step
  OBVIOUS
<1>1. /\ NextIs("to") /\ Running /\ ~ParentUnsound(i)
      /\ UNCHANGED <<kept, answer, failure, integrity, work>>
  BY <1>0 DEF Transit, NextIs, journal, book
<1>2. /\ i \in Intents /\ Registered(i) /\ work[i] = "open" /\ raised = NONE
      /\ \A j : RaisedBy(j) = NONE
  BY <1>0, <1>1, RunningIntent
<1>3. CASE s.what \in Allowed[State(i)]
  <2>1. /\ hist' = [hist EXCEPT ![i] = Append(@, <<s.what, s.by>>)]
        /\ UNCHANGED <<todo, raised>>
    BY <1>0, <1>3 DEF Transit, process
  <2>2. DOMAIN hist = Intents /\ IsSeq(hist[i]) /\ \A j \in Intents : IsSeq(hist[j])
    BY <1>2 DEF JInv, IInv, Shape
  <2>3. /\ \A j \in Intents : j # i => hist'[j] = hist[j]
        /\ hist'[i] = Append(hist[i], <<s.what, s.by>>)
    BY <1>2, <2>1, <2>2
  <2>4. \A j : RaisedBy(j)' = NONE
    BY <1>2, <2>1 DEF RaisedBy
  <2>5. \A j : ParentUnsound(j)' <=> ParentUnsound(j)
    BY <1>1 DEF ParentUnsound
  <2>6. ASSUME failure'[i] # "mishap"
        PROVE  \E k \in 0 .. 14 : k <= SizeOf(i)' /\ Reached(i, k)'
    <3>1. PICK k \in 0 .. 13 : k < SizeOf(i) /\ Reached(i, k) /\ s = StepOf(i, k + 1)
                               /\ StepOf(i, k + 1).do = "to"
      BY <1>0, <1>1, <2>6, NextStep
    <3>2. /\ \A n : StepOf(i, n)' = StepOf(i, n) /\ Fact(i, n)' = Fact(i, n)
          /\ SizeOf(i)' = SizeOf(i) /\ \A n : AfterOf(i, n)' = AfterOf(i, n)
      BY <1>1 DEF StepOf, Fact, SizeOf, AfterOf
    <3>3. failure[i] = NONE /\ ~Fallen(i)
      BY <1>1, <3>1, NotDone, NotFallen
    <3>4. State(i)' = s.what
      BY <1>2, <2>1, <2>2, AppendState
    <3>5. s.what = AfterOf(i, k + 1)
      BY <3>1, ToStep DEF StepOf, SizeOf, AfterOf
    <3>6. ASSUME NEW q \in Questions PROVE Place(q) # k + 1
      <4>1. k + 1 \in 1 .. SizeOf(i)
        BY <3>1, PipelineTable
      <4>2. Place(q) = k + 1 => StepOf(i, k + 1) = Ask(q)
        BY <4>1, AskStep DEF StepOf, SizeOf
      <4> QED BY <3>1, <4>2 DEF Ask
    <3>7. Answered(i, k + 1)'
      <4>1. ASSUME NEW q \in Questions
            PROVE  /\ Place(q) <= k + 1 <=> Place(q) <= k
                   /\ Place(q) <= k + 1 => Place(q) <= k + 1 + 1
        <5>1. Place(q) \in Nat
          BY DEF Place, Questions
        <5> QED BY <3>6, <5>1
      <4> QED BY <1>1, <3>1, <4>1 DEF Reached, Answered
    <3>8. Range(hist'[i]) = Range(hist[i]) \cup {Fact(i, k + 1)}
      BY <2>2, <2>3, <3>1, RangeAppend DEF Fact
    <3>9. Traced(i, k + 1)'
      <4>1. \A n \in 1 .. k + 1 : n \in 1 .. k \/ n = k + 1
        OBVIOUS
      <4>2. \A n \in 1 .. k + 1 : /\ StepOf(i, n).do # "refuse"
                                  /\ StepOf(i, n).do = "to" => Fact(i, n) \in Range(hist'[i])
                                  /\ StepOf(i, n).do = "keep" => Fact(i, n) \in kept[i]
        BY <3>1, <3>8, <4>1 DEF Reached, Traced
      <4>3. \A h \in Range(hist'[i]) : \/ h = <<"CREATED", "row">>
                                       \/ \E n \in 1 .. k + 1 : StepOf(i, n).do = "to"
                                                                /\ h = Fact(i, n)
        <5>1. ASSUME NEW h \in Range(hist[i])
              PROVE  \/ h = <<"CREATED", "row">>
                     \/ \E n \in 1 .. k + 1 : StepOf(i, n).do = "to" /\ h = Fact(i, n)
          <6>1. 1 .. k \subseteq 1 .. k + 1
            OBVIOUS
          <6> QED BY <3>1, <3>3, <6>1 DEF Reached, Traced
        <5>2. k + 1 \in 1 .. k + 1
          OBVIOUS
        <5> QED BY <3>1, <3>8, <5>1, <5>2
      <4>4. \A c \in kept[i] : \E n \in 1 .. k + 1 : StepOf(i, n).do = "keep" /\ c = Fact(i, n)
        <5>1. 1 .. k \subseteq 1 .. k + 1
          OBVIOUS
        <5> QED BY <3>1, <5>1 DEF Reached, Traced
      <4> QED BY <1>1, <3>2, <4>2, <4>3, <4>4 DEF Traced
    <3>10. Justified(i, k + 1)'
      <4>1. "open" \notin {"done", "inventoried"}
        OBVIOUS
      <4> QED BY <1>1, <1>2, <2>4, <2>5, <3>2, <3>3, <3>4, <3>5, <4>1, NoneAssumption
            DEF Justified
    <3>11. k + 1 \in 0 .. 14 /\ k + 1 <= SizeOf(i)
      BY <3>1, PipelineTable
    <3> QED BY <3>2, <3>7, <3>9, <3>10, <3>11 DEF Reached
  <2> QED BY <1>1, <2>3, <2>4, <2>5, <2>6, TrailBut
<1>4. CASE s.what \notin Allowed[State(i)]
  <2>1. raised' = "invalid" /\ UNCHANGED <<hist, kept, answer, failure, work, integrity, todo>>
    BY <1>0, <1>1, <1>4 DEF Transit, Raise
  <2>2. ASSUME failure[i] # "mishap" PROVE FALSE
    <3>1. PICK k \in 0 .. 13 : k < SizeOf(i) /\ Reached(i, k) /\ s = StepOf(i, k + 1)
                               /\ StepOf(i, k + 1).do = "to"
      BY <1>0, <1>1, <2>2, NextStep
    <3>2. failure[i] = NONE /\ ~Fallen(i)
      BY <1>1, <3>1, NotDone, NotFallen
    <3>3. State(i) = AfterOf(i, k)
      BY <3>1, <3>2 DEF Reached, Justified
    <3>4. s.what \in Allowed[AfterOf(i, k)]
      BY <3>1, ToStep DEF StepOf, SizeOf, AfterOf
    <3> QED BY <1>4, <3>3, <3>4
  <2>3. "invalid" \notin {NONE, "settled"}
    BY NoneAssumption
  <2> QED BY <1>0, <1>1, <2>1, <2>2, <2>3, RaiseStep
<1> QED BY <1>3, <1>4

LEMMA KeepTrail ==
    ASSUME JInv, KeepEvidence PROVE Trail'
<1>0. PICK i, s : i = Current /\ s = Step
  OBVIOUS
<1>1. /\ NextIs("keep") /\ Running /\ ~ParentUnsound(i)
      /\ UNCHANGED <<hist, answer, failure, integrity, work>>
  BY <1>0 DEF KeepEvidence, NextIs, journal, book
<1>2. /\ i \in Intents /\ Registered(i) /\ work[i] = "open" /\ raised = NONE
      /\ \A j : RaisedBy(j) = NONE
  BY <1>0, <1>1, RunningIntent
<1>3. CASE Belongs(i, s) /\ s.what \notin {c[1] : c \in kept[i]}
  <2>1. /\ kept' = [kept EXCEPT ![i] = @ \cup {<<s.what, s.by>>}]
        /\ UNCHANGED <<todo, raised>>
    BY <1>0, <1>3 DEF KeepEvidence, process
  <2>2. DOMAIN kept = Intents
    BY DEF JInv, Kinds
  <2>3. /\ \A j \in Intents : j # i => kept'[j] = kept[j]
        /\ kept'[i] = kept[i] \cup {<<s.what, s.by>>}
    BY <1>2, <2>1, <2>2
  <2>4. \A j : RaisedBy(j)' = NONE
    BY <1>2, <2>1 DEF RaisedBy
  <2>5. \A j : ParentUnsound(j)' <=> ParentUnsound(j)
    BY <1>1 DEF ParentUnsound
  <2>6. ASSUME failure'[i] # "mishap"
        PROVE  \E k \in 0 .. 14 : k <= SizeOf(i)' /\ Reached(i, k)'
    <3>1. PICK k \in 0 .. 13 : k < SizeOf(i) /\ Reached(i, k) /\ s = StepOf(i, k + 1)
                               /\ StepOf(i, k + 1).do = "keep"
      BY <1>0, <1>1, <2>6, NextStep
    <3>2. /\ \A n : StepOf(i, n)' = StepOf(i, n) /\ Fact(i, n)' = Fact(i, n)
          /\ SizeOf(i)' = SizeOf(i) /\ \A n : AfterOf(i, n)' = AfterOf(i, n)
      BY <1>1 DEF StepOf, Fact, SizeOf, AfterOf
    <3>3. failure[i] = NONE /\ ~Fallen(i)
      BY <1>1, <3>1, NotDone, NotFallen
    <3>4. State(i)' = State(i) /\ State(i) = AfterOf(i, k)
      BY <1>1, <3>1, <3>3 DEF State, Registered, Reached, Justified
    <3>5. AfterOf(i, k + 1) = AfterOf(i, k)
      BY <3>1, OtherStep DEF StepOf, SizeOf, AfterOf
    <3>6. ASSUME NEW q \in Questions PROVE Place(q) # k + 1
      <4>1. k + 1 \in 1 .. SizeOf(i)
        BY <3>1, PipelineTable
      <4>2. Place(q) = k + 1 => StepOf(i, k + 1) = Ask(q)
        BY <4>1, AskStep DEF StepOf, SizeOf
      <4> QED BY <3>1, <4>2 DEF Ask
    <3>7. Answered(i, k + 1)'
      <4>1. ASSUME NEW q \in Questions
            PROVE  /\ Place(q) <= k + 1 <=> Place(q) <= k
                   /\ Place(q) <= k + 1 => Place(q) <= k + 1 + 1
        <5>1. Place(q) \in Nat
          BY DEF Place, Questions
        <5> QED BY <3>6, <5>1
      <4> QED BY <1>1, <3>1, <4>1 DEF Reached, Answered
    <3>8. kept'[i] = kept[i] \cup {Fact(i, k + 1)}
      BY <2>3, <3>1 DEF Fact
    <3>9. Traced(i, k + 1)'
      <4>1. \A n \in 1 .. k + 1 : n \in 1 .. k \/ n = k + 1
        OBVIOUS
      <4>2. \A n \in 1 .. k + 1 : /\ StepOf(i, n).do # "refuse"
                                  /\ StepOf(i, n).do = "to" => Fact(i, n) \in Range(hist[i])
                                  /\ StepOf(i, n).do = "keep" => Fact(i, n) \in kept'[i]
        BY <3>1, <3>8, <4>1 DEF Reached, Traced
      <4>3. 1 .. k \subseteq 1 .. k + 1 /\ k + 1 \in 1 .. k + 1
        OBVIOUS
      <4>4. \A h \in Range(hist[i]) : \/ h = <<"CREATED", "row">>
                                      \/ \E n \in 1 .. k + 1 : StepOf(i, n).do = "to"
                                                               /\ h = Fact(i, n)
        BY <3>1, <3>3, <4>3 DEF Reached, Traced
      <4>5. \A c \in kept'[i] : \E n \in 1 .. k + 1 : StepOf(i, n).do = "keep" /\ c = Fact(i, n)
        BY <3>1, <3>8, <4>3 DEF Reached, Traced
      <4> QED BY <1>1, <3>2, <4>2, <4>4, <4>5 DEF Traced
    <3>10. Justified(i, k + 1)'
      <4>1. "open" \notin {"done", "inventoried"}
        OBVIOUS
      <4> QED BY <1>1, <1>2, <2>4, <2>5, <3>2, <3>3, <3>4, <3>5, <4>1, NoneAssumption
            DEF Justified
    <3>11. k + 1 \in 0 .. 14 /\ k + 1 <= SizeOf(i)
      BY <3>1, PipelineTable
    <3> QED BY <3>2, <3>7, <3>9, <3>10, <3>11 DEF Reached
  <2> QED BY <1>1, <2>3, <2>4, <2>5, <2>6, TrailBut
<1>4. CASE ~(Belongs(i, s) /\ s.what \notin {c[1] : c \in kept[i]})
  <2>1. raised' = "determinism" /\ UNCHANGED <<hist, kept, answer, failure, work, integrity, todo>>
    BY <1>0, <1>1, <1>4 DEF KeepEvidence, Raise
  <2>2. ASSUME failure[i] # "mishap" PROVE FALSE
    <3>1. PICK k \in 0 .. 13 : k < SizeOf(i) /\ Reached(i, k) /\ s = StepOf(i, k + 1)
                               /\ StepOf(i, k + 1).do = "keep"
      BY <1>0, <1>1, <2>2, NextStep
    <3>2. /\ failure[i] = NONE /\ ~Fallen(i)
          /\ s.what \notin {c[1] : c \in kept[i]}
      BY <1>1, <3>1, NotDone, NotFallen
    <3>3. State(i) = AfterOf(i, k)
      BY <3>1, <3>2 DEF Reached, Justified
    <3>4. /\ s.what \in {"state", "route", "quote", "plan", "run"}
          /\ s.what = "state" => State(i) = "ELIGIBILITY_CHECKED"
          /\ s.what = "route" => State(i) = IF s.by = "routeless" THEN "REJECTED"
                                                                 ELSE "ROUTE_BOUND"
          /\ s.what \in {"quote", "plan"} => State(i) = "QUOTE_BOUND"
          /\ s.what = "run" => State(i) = "PLAN_BUILT"
      BY <3>1, <3>3, KeepStep DEF StepOf, SizeOf, AfterOf
    <3>5. Belongs(i, s)
      BY <3>4 DEF Belongs, Negative
    <3> QED BY <1>4, <3>2, <3>5
  <2>3. "determinism" \notin {NONE, "settled"}
    BY NoneAssumption
  <2> QED BY <1>0, <1>1, <2>1, <2>2, <2>3, RaiseStep
<1> QED BY <1>3, <1>4

LEMMA AskTrail ==
    ASSUME JInv, AskNetwork PROVE Trail'
<1>0. PICK i, q : i = Current /\ q = Step.what
  OBVIOUS
<1>1. /\ NextIs("ask") /\ Running /\ ~ParentUnsound(i) /\ answer[i][q] = NONE
      /\ UNCHANGED <<hist, kept, failure, integrity, work, todo, raised>>
      /\ \E v : answer' = [answer EXCEPT ![i][q] = v]
  BY <1>0 DEF AskNetwork, NextIs, book, process
<1>2. PICK v : answer' = [answer EXCEPT ![i][q] = v]
  BY <1>1
<1>3. /\ i \in Intents /\ Registered(i) /\ work[i] = "open" /\ raised = NONE
      /\ \A j : RaisedBy(j) = NONE
  BY <1>0, <1>1, RunningIntent
<1>4. DOMAIN answer = Intents /\ DOMAIN answer[i] = Questions
  BY <1>3 DEF JInv, Kinds
<1>5. /\ \A j \in Intents : j # i => answer'[j] = answer[j]
      /\ answer'[i] = [answer[i] EXCEPT ![q] = v]
  BY <1>2, <1>3, <1>4
<1>6. \A j : RaisedBy(j)' = NONE
  BY <1>1, <1>3 DEF RaisedBy
<1>7. \A j : ParentUnsound(j)' <=> ParentUnsound(j)
  BY <1>1 DEF ParentUnsound
<1>8. ASSUME failure'[i] # "mishap"
      PROVE  \E k \in 0 .. 14 : k <= SizeOf(i)' /\ Reached(i, k)'
  <2>1. PICK k \in 0 .. 13 : k < SizeOf(i) /\ Reached(i, k) /\ Step = StepOf(i, k + 1)
                             /\ StepOf(i, k + 1).do = "ask"
    BY <1>0, <1>1, <1>8, NextStep
  <2>2. k + 1 \in 1 .. SizeOf(i)
    BY <2>1, PipelineTable
  <2>3. q \in Questions /\ Place(q) = k + 1
    BY <1>0, <2>1, <2>2, AskStep DEF StepOf, SizeOf
  <2>4. /\ answer'[i][q] = v
        /\ \A p \in Questions \ {q} : answer'[i][p] = answer[i][p]
    BY <1>4, <1>5, <2>3
  <2>5. /\ k + 1 <= SizeOf(i)'
        /\ \A n \in 1 .. k + 1 : StepOf(i, n)' = StepOf(i, n)
        /\ \A n \in 0 .. k + 1 : AfterOf(i, n)' = AfterOf(i, n)
    BY <2>1, <2>3, <2>4, Longer DEF StepOf, SizeOf, AfterOf
  <2>6. /\ State(i)' = State(i) /\ (Fallen(i)' <=> Fallen(i))
        /\ SizeOf(i)' \in 2 .. 14
    <3>1. State(i)' = State(i) /\ (Fallen(i)' <=> Fallen(i))
      BY <1>1 DEF State, Registered, Fallen
    <3>2. \A a : Size(i \in Exits, a) \in 2 .. 14
      BY DEF Size
    <3> QED BY <3>1, <3>2 DEF SizeOf
  <2>7. \A n \in 1 .. k + 1 : Fact(i, n)' = Fact(i, n)
    BY <2>5 DEF Fact
  <2>8. \A n \in 1 .. k : n \in 1 .. k + 1
    OBVIOUS
  <2>9. failure[i] = NONE
    <3>1. SUFFICES ASSUME failure[i] # NONE PROVE FALSE
      OBVIOUS
    <3>2. Cause(i, k, failure[i])
      BY <2>1, <3>1 DEF Reached, Justified
    <3>3. CASE k = 5 /\ answer[i].venue = "unquotable"
      <4>1. q \in Questions /\ Place(q) = 6
        BY <2>3, <3>3
      <4> QED BY <4>1 DEF Place, Questions
    <3>5. CASE k = 8
      <4>1. q \in Questions /\ Place(q) = 9
        BY <2>3, <3>5
      <4> QED BY <4>1 DEF Place, Questions
    <3>4. CASE \E p \in Questions : answer[i][p] = "error"
      <4>1. PICK p \in Questions : answer[i][p] = "error"
        BY <3>4
      <4>2. Place(p) = k + 1
        BY <2>1, <4>1, ErrorPlace
      <4>3. p = q
        BY <2>3, <4>2 DEF Place, Questions
      <4> QED BY <1>1, <4>1, <4>3, NoneAssumption
    <3> QED BY <1>1, <3>2, <3>3, <3>4, <3>5 DEF Cause
  <2>10. ~Fallen(i) /\ State(i) = AfterOf(i, k)
    BY <2>1, <2>9, NotFallen DEF Reached, Justified
  <2>11. CASE v \in Unusable
    <3>1. Answered(i, k)'
      <4>1. ASSUME NEW p \in Questions
            PROVE  /\ answer'[i][p] \notin Unusable <=> Place(p) <= k
                   /\ answer'[i][p] # NONE => Place(p) <= k + 1
        <5>1. CASE p = q
          BY <2>3, <2>4, <2>11, <5>1
        <5>2. CASE p # q
          BY <2>1, <2>4, <5>2 DEF Reached, Answered
        <5> QED BY <5>1, <5>2
      <4> QED BY <4>1 DEF Answered
    <3>2. Traced(i, k)'
      BY <1>1, <2>1, <2>5, <2>6, <2>7, <2>8, <2>10 DEF Reached, Traced
    <3>3. Justified(i, k)'
      <4>1. "open" \notin {"done", "inventoried"} /\ k \in 0 .. k + 1
        OBVIOUS
      <4> QED BY <1>1, <1>3, <1>6, <1>7, <2>5, <2>6, <2>9, <2>10, <4>1, NoneAssumption
            DEF Justified
    <3>4. k <= SizeOf(i)' /\ k \in 0 .. 14
      BY <2>5, <2>6
    <3> QED BY <3>1, <3>2, <3>3, <3>4 DEF Reached
  <2>12. CASE v \notin Unusable
    <3>1. Answered(i, k + 1)'
      <4>1. ASSUME NEW p \in Questions
            PROVE  /\ answer'[i][p] \notin Unusable <=> Place(p) <= k + 1
                   /\ answer'[i][p] # NONE => Place(p) <= k + 1 + 1
        <5>1. CASE p = q
          BY <2>3, <2>4, <2>12, <5>1
        <5>2. CASE p # q
          <6>1. Place(p) # k + 1 /\ Place(p) \in Nat
            BY <2>3, <5>2 DEF Place, Questions
          <6>2. /\ answer[i][p] \notin Unusable <=> Place(p) <= k
                /\ answer[i][p] # NONE => Place(p) <= k + 1
            BY <2>1 DEF Reached, Answered
          <6>3. (Place(p) <= k + 1 <=> Place(p) <= k)
                /\ (Place(p) <= k + 1 => Place(p) <= k + 1 + 1)
            BY <6>1
          <6> QED BY <2>4, <5>2, <6>2, <6>3
        <5> QED BY <5>1, <5>2
      <4> QED BY <4>1 DEF Answered
    <3>2. Traced(i, k + 1)'
      <4>1. \A n \in 1 .. k + 1 : n \in 1 .. k \/ n = k + 1
        OBVIOUS
      <4>2. \A n \in 1 .. k + 1 : /\ StepOf(i, n).do # "refuse"
                                  /\ StepOf(i, n).do = "to" => Fact(i, n) \in Range(hist[i])
                                  /\ StepOf(i, n).do = "keep" => Fact(i, n) \in kept[i]
        BY <2>1, <4>1 DEF Reached, Traced
      <4>3. \A h \in Range(hist[i]) : \/ h = <<"CREATED", "row">>
                                      \/ \E n \in 1 .. k + 1 : StepOf(i, n).do = "to"
                                                               /\ h = Fact(i, n)
        BY <2>1, <2>8, <2>10 DEF Reached, Traced
      <4>4. \A c \in kept[i] : \E n \in 1 .. k + 1 : StepOf(i, n).do = "keep" /\ c = Fact(i, n)
        BY <2>1, <2>8 DEF Reached, Traced
      <4> QED BY <1>1, <2>5, <2>7, <4>2, <4>3, <4>4 DEF Traced
    <3>3. Justified(i, k + 1)'
      <4>1. "open" \notin {"done", "inventoried"} /\ k + 1 \in 0 .. k + 1
        OBVIOUS
      <4>2. AfterOf(i, k + 1) = AfterOf(i, k)
        BY <2>1, OtherStep DEF StepOf, SizeOf, AfterOf
      <4> QED BY <1>1, <1>3, <1>6, <1>7, <2>5, <2>6, <2>9, <2>10, <4>1, <4>2, NoneAssumption
            DEF Justified
    <3>4. k + 1 \in 0 .. 14
      OBVIOUS
    <3> QED BY <2>5, <3>1, <3>2, <3>3, <3>4 DEF Reached
  <2> QED BY <2>11, <2>12
<1> QED BY <1>1, <1>5, <1>6, <1>7, <1>8, TrailBut
-----------------------------------------------------------------------------
(* The handler of an exception.                                            *)
LEMMA HandlingIntent ==
    ASSUME JInv, Handling, NEW i, i = Current
    PROVE  /\ i \in Intents /\ Registered(i) /\ raised \notin {NONE, "settled"}
           /\ work[i] = "open" /\ RaisedBy(i) = raised /\ Executing
           /\ \A j : j # i => RaisedBy(j) = NONE
           /\ failure[i] # "mishap" => \E k \in 0 .. 14 : k <= SizeOf(i) /\ Reached(i, k)
<1>1. Executing /\ raised \notin {NONE, "settled"}
  BY DEF Handling
<1>2. i \in Intents /\ Registered(i) /\ work[i] = "open"
  BY <1>1, CurrentIntent DEF JInv, Course, Raising
<1> QED BY <1>1, <1>2 DEF RaisedBy, JInv, Trail

(* An exception of the journal leaves an intent before the end of its      *)
(* pipeline, where it is not over unless it fell.                          *)
LEMMA CauseOpen ==
    ASSUME NEW i, NEW k \in Nat, k <= SizeOf(i), Reached(i, k), NEW e, Cause(i, k, e)
    PROVE  /\ AfterOf(i, k) \notin Terminal
           /\ e = "quote" => AfterOf(i, k) = "ROUTE_BOUND"
           /\ e = "plan" => AfterOf(i, k) = "QUOTE_BOUND"
           /\ ~ParentUnsound(i) => k < SizeOf(i)
           /\ e \in Regular
<1> PICK x, a : x = (i \in Exits) /\ a = answer[i]
  OBVIOUS
<1>1. /\ SizeOf(i) = Size(x, a) /\ \A n : AfterOf(i, n) = After(x, a, n)
      /\ SizeOf(i) \in 2 .. 14
  BY PipelineTable DEF SizeOf, AfterOf
<1>2. CASE e = "rpc" /\ \E q \in Questions : answer[i][q] = "error"
  <2>1. PICK q \in Questions : answer[i][q] = "error"
    BY <1>2
  <2>2. Place(q) = k + 1 /\ a[q] \in Unusable
    BY <2>1, ErrorPlace
  <2>3. k < SizeOf(i)
    <3>1. k \in {1, 7, 10}
      BY <2>2 DEF Place, Questions
    <3>2. Size(x, a) \notin {1, 7, 10}
      BY DEF Size
    <3> QED BY <1>1, <3>1, <3>2
  <2>4. k + 1 \in 1 .. Size(x, a) /\ k + 1 - 1 = k
    BY <1>1, <2>3
  <2>5. Word(x, a, k + 1) = Ask(q)
    BY <2>2, <2>4, AskStep
  <2>6. Word(x, a, k + 1).do = "ask"
    BY <2>5 DEF Ask
  <2>7. After(x, a, k + 1 - 1) \notin Terminal
    BY <2>4, <2>6, AskStep
  <2> QED BY <1>1, <1>2, <2>3, <2>4, <2>7 DEF Regular
<1>3. CASE e = "quote" /\ answer[i].venue = "unquotable" /\ k = 5
  <2>1. 5 \in 1 .. Size(x, a)
    BY <1>1, <1>3
  <2>2. Size(x, a) \in {2, 6} /\ After(x, a, 5) = "ROUTE_BOUND"
    BY <1>3, <2>1, RefuseStep
  <2> QED BY <1>1, <1>3, <2>2 DEF Terminal, Negative, Regular
<1>5. CASE e \in {"plan", "replay"} /\ a.actor \in {"malformed", "unplannable"} /\ k = 8
  <2>1. 8 \in 1 .. Size(x, a)
    BY <1>1, <1>5
  <2>2. Size(x, a) \in {2, 5, 6, 9} /\ After(x, a, 8) = "QUOTE_BOUND"
    BY <1>5, <2>1, RefuseStep
  <2> QED BY <1>1, <1>5, <2>2 DEF Terminal, Negative, Regular
<1>4. CASE e = "replay" /\ ParentUnsound(i)
  <2>1. k = 0
    BY <1>4 DEF Reached, Justified
  <2>2. After(x, a, 0) = "CREATED"
    BY DEF After
  <2> QED BY <1>1, <1>4, <2>1, <2>2 DEF Terminal, Negative, Regular
<1> QED BY <1>2, <1>3, <1>4, <1>5 DEF Cause

(* Two exceptions of the journal are the same one.                         *)
LEMMA OneCause ==
    ASSUME NEW i, NEW k \in Nat, Reached(i, k), NEW e, NEW f, Cause(i, k, e), Cause(i, k, f)
    PROVE  e = f
<1>1. ASSUME NEW q \in Questions, answer[i][q] = "error" PROVE k \notin {5, 8}
  <2>1. Place(q) = k + 1
    BY <1>1, ErrorPlace
  <2> QED BY <2>1 DEF Place, Questions
<1> QED BY <1>1 DEF Cause

LEMMA HandledCause ==
    ASSUME JInv, Handling, NEW i, i = Current, failure[i] # "mishap", raised # "mishap"
    PROVE  \E k \in 0 .. 14 : k <= SizeOf(i) /\ Reached(i, k) /\ Cause(i, k, raised)
<1>1. PICK k \in 0 .. 14 : k <= SizeOf(i) /\ Reached(i, k)
  BY HandlingIntent
<1>2. RaisedBy(i) = raised /\ raised \notin {NONE, "settled", "mishap"}
  BY HandlingIntent
<1>3. Cause(i, k, raised)
  BY <1>1, <1>2 DEF Reached, Justified
<1> QED BY <1>1, <1>3

LEMMA RecordTrail ==
    ASSUME JInv, RecordFailure PROVE Trail' /\ Kinds'
<1>0. PICK i : i = Current
  OBVIOUS
<1>1. /\ Handling /\ failure[i] = NONE /\ failure' = [failure EXCEPT ![i] = raised]
      /\ UNCHANGED <<hist, kept, answer, integrity, work, todo, raised, crashes, mishaps>>
  BY <1>0 DEF RecordFailure, book, process, faults
<1>2. /\ i \in Intents /\ Registered(i) /\ raised \notin {NONE, "settled"}
      /\ work[i] = "open" /\ RaisedBy(i) = raised
      /\ \A j : j # i => RaisedBy(j) = NONE
  BY <1>0, <1>1, HandlingIntent
<1>3. /\ failure'[i] = raised /\ \A j \in Intents : j # i => failure'[j] = failure[j]
      /\ failure[i] # "mishap"
  BY <1>1, <1>2, NoneAssumption DEF JInv, Kinds
<1>4. /\ \A j : RaisedBy(j)' = RaisedBy(j)
      /\ \A j : ParentUnsound(j)' <=> ParentUnsound(j)
  BY <1>1 DEF RaisedBy, Current, ParentUnsound
<1>5. ASSUME raised # "mishap"
      PROVE  /\ \E k \in 0 .. 14 : k <= SizeOf(i)' /\ Reached(i, k)'
             /\ raised \in Regular
  <2>1. PICK k \in 0 .. 14 : k <= SizeOf(i) /\ Reached(i, k) /\ Cause(i, k, raised)
    BY <1>0, <1>1, <1>3, <1>5, HandledCause
  <2>2. /\ \A n : StepOf(i, n)' = StepOf(i, n) /\ Fact(i, n)' = Fact(i, n)
        /\ SizeOf(i)' = SizeOf(i) /\ AfterOf(i, k)' = AfterOf(i, k)
    BY <1>1 DEF StepOf, Fact, SizeOf, AfterOf
  <2>3. ~Fallen(i) /\ State(i)' = State(i)
    BY <1>1, NotFallen DEF State, Registered
  <2>4. Answered(i, k)'
    BY <1>1, <2>1 DEF Reached, Answered
  <2>5. Traced(i, k)'
    BY <1>1, <2>1, <2>2, <2>3 DEF Reached, Traced
  <2>6. Justified(i, k)'
    <3>1. \A f : Cause(i, k, f)' <=> Cause(i, k, f)
      BY <1>1, <1>4 DEF Cause
    <3>2. State(i)' = AfterOf(i, k)'
      BY <2>1, <2>2, <2>3 DEF Reached, Justified
    <3>3. work'[i] = "open"
      BY <1>1, <1>2
    <3> QED BY <1>2, <1>3, <1>4, <2>1, <3>1, <3>2, <3>3 DEF Reached, Justified
  <2> QED BY <2>1, <2>2, <2>4, <2>5, <2>6, CauseOpen DEF Reached
<1>6. Trail'
  BY <1>1, <1>3, <1>4, <1>5, TrailBut
<1>7. raised \in Regular \cup {"mishap"}
  BY <1>5
<1>8. Kinds'
  <2>1. failure' \in [Intents -> Regular \cup {NONE, "mishap"}]
    BY <1>1, <1>7 DEF JInv, Kinds
  <2> QED BY <1>1, <2>1 DEF JInv, Kinds
<1> QED BY <1>6, <1>8

LEMMA FailTrail ==
    ASSUME JInv, FailIntent PROVE Trail'
<1>0. PICK i, w : i = Current /\ w = FailureTarget(i)
  OBVIOUS
<1>1. /\ Handling /\ failure[i] = raised /\ State(i) \notin Terminal
      /\ hist' = [hist EXCEPT ![i] = Append(@, <<w, raised>>)]
      /\ raised' = "settled"
      /\ UNCHANGED <<kept, answer, failure, integrity, work, todo>>
  BY <1>0 DEF FailIntent, Handled, Settled, book, journal
<1>2. /\ i \in Intents /\ Registered(i) /\ raised \notin {NONE, "settled"}
      /\ work[i] = "open" /\ RaisedBy(i) = raised
      /\ \A j : j # i => RaisedBy(j) = NONE
  BY <1>0, <1>1, HandlingIntent
<1>3. DOMAIN hist = Intents /\ IsSeq(hist[i]) /\ \A j \in Intents : IsSeq(hist[j])
  BY <1>2 DEF JInv, IInv, Shape
<1>4. /\ \A j \in Intents : j # i => hist'[j] = hist[j]
      /\ hist'[i] = Append(hist[i], <<w, raised>>)
      /\ State(i)' = w
  BY <1>1, <1>2, <1>3, AppendState
<1>5. /\ \A j : j # i => RaisedBy(j)' = NONE
      /\ RaisedBy(i)' = "settled"
      /\ \A j : ParentUnsound(j)' <=> ParentUnsound(j)
  BY <1>0, <1>1, NoneAssumption DEF RaisedBy, Current, ParentUnsound
<1>6. ASSUME failure'[i] # "mishap"
      PROVE  \E k \in 0 .. 14 : k <= SizeOf(i)' /\ Reached(i, k)'
  <2>1. PICK k \in 0 .. 14 : k <= SizeOf(i) /\ Reached(i, k) /\ Cause(i, k, raised)
    BY <1>0, <1>1, <1>6, HandledCause
  <2>2. /\ \A n : StepOf(i, n)' = StepOf(i, n) /\ Fact(i, n)' = Fact(i, n)
        /\ SizeOf(i)' = SizeOf(i) /\ AfterOf(i, k)' = AfterOf(i, k)
    BY <1>1 DEF StepOf, Fact, SizeOf, AfterOf
  <2>3. /\ raised \in Regular
        /\ raised = "quote" => AfterOf(i, k) = "ROUTE_BOUND"
        /\ raised = "plan" => AfterOf(i, k) = "QUOTE_BOUND"
    BY <2>1, CauseOpen
  <2>4. ~Fallen(i)
    BY <1>1 DEF Fallen, Endings, Terminal, Negative
  <2>5. State(i) = AfterOf(i, k)
    BY <2>1, <2>4 DEF Reached, Justified
  <2>6. <<w, raised>> \in Endings
    BY <1>0, <2>3, <2>5 DEF FailureTarget, Endings, Regular
  <2>7. Fallen(i)' /\ <<State(i), failure[i]>>' = <<w, raised>>
    BY <1>1, <1>4, <2>6 DEF Fallen
  <2>8. Answered(i, k)'
    BY <1>1, <2>1 DEF Reached, Answered
  <2>9. Range(hist'[i]) = Range(hist[i]) \cup {<<w, raised>>}
    BY <1>3, <1>4, RangeAppend
  <2>10. Traced(i, k)'
    <3>1. \A n \in 1 .. k : /\ StepOf(i, n).do # "refuse"
                            /\ StepOf(i, n).do = "to" => Fact(i, n) \in Range(hist'[i])
                            /\ StepOf(i, n).do = "keep" => Fact(i, n) \in kept'[i]
      BY <1>1, <2>1, <2>9 DEF Reached, Traced
    <3>2. \A h \in Range(hist'[i]) : \/ h = <<"CREATED", "row">>
                                     \/ \E n \in 1 .. k : StepOf(i, n).do = "to" /\ h = Fact(i, n)
                                     \/ h = <<w, raised>>
      BY <2>1, <2>4, <2>9 DEF Reached, Traced
    <3>3. \A c \in kept'[i] : \E n \in 1 .. k : StepOf(i, n).do = "keep" /\ c = Fact(i, n)
      BY <1>1, <2>1 DEF Reached, Traced
    <3> QED BY <2>2, <2>7, <3>1, <3>2, <3>3 DEF Traced
  <2>11. Justified(i, k)'
    <3>1. Cause(i, k, failure[i])'
      BY <1>1, <1>5, <2>1 DEF Cause
    <3>2. ParentUnsound(i)' => k = 0
      BY <1>5, <2>1 DEF Reached, Justified
    <3> QED BY <1>5, <2>7, <3>1, <3>2 DEF Justified
  <2> QED BY <2>1, <2>2, <2>8, <2>10, <2>11 DEF Reached
<1> QED BY <1>1, <1>4, <1>5, <1>6, TrailBut

(* An intent that is over while an exception of its journal is handled     *)
(* fell by that exception before.                                          *)
LEMMA HandledFallen ==
    ASSUME JInv, Handled, NEW i, i = Current, State(i) \in Terminal, failure[i] # "mishap"
    PROVE  Fallen(i) /\ (Suspect(i) => raised = "replay")
<1>1. Handling /\ failure[i] = raised
  BY DEF Handled
<1>2. PICK k \in 0 .. 14 : k <= SizeOf(i) /\ Reached(i, k) /\ Cause(i, k, raised)
  BY <1>1, HandledCause
<1>3. AfterOf(i, k) \notin Terminal /\ raised \in Regular
  BY <1>2, CauseOpen
<1>4. Fallen(i)
  BY <1>2, <1>3 DEF Reached, Justified
<1> QED BY <1>3, <1>4 DEF Suspect, Fallen, Endings, Regular

LEMMA UnsoundTrail ==
    ASSUME JInv, MarkUnsound PROVE Trail'
<1>0. PICK i, r : i = Current /\ r = raised
  OBVIOUS
<1>1. /\ Handled /\ Handling /\ State(i) \in Terminal /\ Suspect(i) /\ raised' = "settled"
      /\ integrity' = [integrity EXCEPT ![i] = r]
      /\ UNCHANGED <<hist, kept, answer, failure, work, todo>>
  BY <1>0 DEF MarkUnsound, Handled, Settled, book
<1>2. /\ i \in Intents /\ Executing /\ work[i] = "open"
      /\ \A j : j # i => RaisedBy(j) = NONE
  BY <1>0, <1>1, HandlingIntent
<1>3. failure[i] # "mishap" => Fallen(i)
  BY <1>0, <1>1, HandledFallen
<1>4. \A j \in Intents : j # i => integrity'[j] = integrity[j]
  BY <1>1 DEF JInv, IInv, Shape
<1>5. ASSUME NEW j \in Intents, Registered(j)
      PROVE  ParentUnsound(j)' <=> ParentUnsound(j)
  <2>1. work[i] # "inventoried"
    BY <1>2
  <2> QED BY <1>4, <1>5, <2>1, ParentKept DEF JInv
<1>6. \A j : /\ j # i => RaisedBy(j)' = NONE
             /\ RaisedBy(i)' = "settled"
  BY <1>0, <1>1, NoneAssumption DEF RaisedBy, Current
<1>7. ASSUME Registered(i)', failure'[i] # "mishap"
      PROVE  \E k \in 0 .. 14 : k <= SizeOf(i)' /\ Reached(i, k)'
  <2>1. Registered(i) /\ failure[i] # "mishap"
    BY <1>1, <1>7 DEF Registered
  <2>2. PICK k \in 0 .. 14 : k <= SizeOf(i) /\ Reached(i, k)
    BY <1>2, <2>1 DEF JInv, Trail
  <2>3. /\ \A n : StepOf(i, n)' = StepOf(i, n) /\ Fact(i, n)' = Fact(i, n)
        /\ SizeOf(i)' = SizeOf(i) /\ AfterOf(i, k)' = AfterOf(i, k)
        /\ State(i)' = State(i) /\ (Fallen(i)' <=> Fallen(i))
    BY <1>1 DEF StepOf, Fact, SizeOf, AfterOf, State, Registered, Fallen
  <2>4. Answered(i, k)'
    BY <1>1, <2>2 DEF Reached, Answered
  <2>5. Traced(i, k)'
    BY <1>1, <2>2, <2>3 DEF Reached, Traced
  <2>6. Justified(i, k)'
    <3>1. ParentUnsound(i)' <=> ParentUnsound(i)
      BY <1>2, <1>5, <2>1
    <3>2. \A e : Cause(i, k, e)' <=> Cause(i, k, e)
      BY <1>1, <3>1 DEF Cause
    <3>3. Fallen(i)' /\ work'[i] = work[i] /\ failure'[i] = failure[i]
      BY <1>1, <1>3, <2>1, <2>3
    <3> QED BY <1>6, <2>2, <2>3, <3>1, <3>2, <3>3 DEF Reached, Justified
  <2> QED BY <2>2, <2>3, <2>4, <2>5, <2>6 DEF Reached
<1> QED BY <1>1, <1>4, <1>5, <1>6, <1>7, TrailBut

(* The exceptions the pipeline itself raises.                              *)
LEMMA RaiseTrail ==
    ASSUME JInv, RefuseOrphan \/ JournaledError \/ RefuseEvidence \/ Mishap PROVE Trail'
<1>0. PICK i : i = Current
  OBVIOUS
<1>1. /\ Running
      /\ UNCHANGED <<hist, kept, answer, failure, work, integrity, todo>>
  BY DEF RefuseOrphan, JournaledError, RefuseEvidence, Mishap, NextIs, Raise, records, journal,
         book
<1>2. {"replay", "rpc", "quote", "plan", "mishap"} \cap {NONE, "settled"} = {}
  BY NoneAssumption
<1>3. CASE RefuseOrphan
  <2>1. raised' = "replay" /\ ParentUnsound(i)
    BY <1>0, <1>3 DEF RefuseOrphan, Raise
  <2>2. \A k : Cause(i, k, "replay")
    BY <2>1 DEF Cause
  <2> QED BY <1>0, <1>1, <1>2, <2>1, <2>2, RaiseStep
<1>4. CASE JournaledError
  <2>1. /\ raised' = "rpc" /\ NextIs("ask") /\ ~ParentUnsound(i)
        /\ answer[i][Step.what] = "error"
    BY <1>0, <1>4 DEF JournaledError, Raise, NextIs
  <2>2. ASSUME failure[i] # "mishap" PROVE Step.what \in Questions
    <3>1. PICK k \in 0 .. 13 : k < SizeOf(i) /\ Step = StepOf(i, k + 1)
                               /\ StepOf(i, k + 1).do = "ask"
      BY <1>0, <2>1, <2>2, NextStep
    <3>2. k + 1 \in 1 .. SizeOf(i)
      BY <3>1, PipelineTable
    <3> QED BY <3>1, <3>2, AskStep DEF StepOf, SizeOf
  <2>3. failure[i] # "mishap" => \A k : Cause(i, k, "rpc")
    BY <2>1, <2>2 DEF Cause
  <2> QED BY <1>0, <1>1, <1>2, <2>1, <2>3, RaiseStep
<1>5. CASE RefuseEvidence
  <2>0. PICK s : s = Step
    OBVIOUS
  <2>1. raised' = s.what /\ NextIs("refuse") /\ ~ParentUnsound(i) /\ s.do = "refuse"
    BY <1>0, <1>5, <2>0 DEF RefuseEvidence, Raise, NextIs
  <2>2. ASSUME NEW k \in Nat, k <= SizeOf(i), Reached(i, k) PROVE Cause(i, k, s.what)
    <3>1. Pending(i) # {} /\ s = Pipeline(i)[Min(Pending(i))]
      BY <1>0, <2>0, <2>1 DEF NextIs, Step
    <3>2. k # SizeOf(i)
      BY <2>1, <2>2, <3>1, Frontier
    <3>3. k < SizeOf(i) /\ k + 1 \in 1 .. SizeOf(i)
      BY <2>2, <3>2, PipelineTable
    <3>4. s = StepOf(i, k + 1)
      BY <2>1, <2>2, <3>1, <3>3, Frontier
    <3>5. \/ k + 1 = 6 /\ answer[i].venue = "unquotable" /\ s.what = "quote"
          \/ k + 1 = 9 /\ answer[i].actor = "unplannable" /\ s.what = "plan"
          \/ k + 1 = 9 /\ answer[i].actor = "malformed" /\ s.what = "replay"
      BY <2>1, <3>3, <3>4, RefuseStep DEF StepOf, SizeOf
    <3> QED BY <2>1, <3>5 DEF Cause
  <2>3. s.what \notin {NONE, "settled"}
    BY <1>2, <2>0, <2>1, RefusedWhat
  <2> QED BY <1>0, <1>1, <2>1, <2>2, <2>3, RaiseStep
<1>6. CASE Mishap
  <2>1. raised' = "mishap"
    BY <1>6 DEF Mishap, Raise
  <2> QED BY <1>0, <1>1, <1>2, <2>1, RaiseStep
<1> QED BY <1>3, <1>4, <1>5, <1>6
-----------------------------------------------------------------------------
(* An intent is claimed, finished, or its inventory awaited no longer.     *)
LEMMA WorkTrail ==
    ASSUME JInv, NEW i \in Intents, NEW v, work' = [work EXCEPT ![i] = v],
           UNCHANGED <<hist, kept, answer, failure, integrity>>, raised' = NONE,
           v \in {"done", "inventoried"} /\ failure[i] # "mishap" =>
               \A k \in 0 .. 14 : k <= SizeOf(i) /\ Reached(i, k) =>
                   \/ failure[i] = NONE /\ k = SizeOf(i) /\ ~ParentUnsound(i)
                   \/ Fallen(i)
    PROVE  Trail'
<1>1. /\ \A j : RaisedBy(j)' = NONE
      /\ \A j : ParentUnsound(j)' <=> ParentUnsound(j)
  BY DEF RaisedBy, ParentUnsound
<1>2. /\ \A j \in Intents : j # i => work'[j] = work[j]
      /\ work'[i] = v
  BY DEF JInv, IInv, Shape
<1>3. ASSUME Registered(i)', failure'[i] # "mishap"
      PROVE  \E k \in 0 .. 14 : k <= SizeOf(i)' /\ Reached(i, k)'
  <2>1. Registered(i) /\ failure[i] # "mishap"
    BY <1>3 DEF Registered
  <2>2. PICK k \in 0 .. 14 : k <= SizeOf(i) /\ Reached(i, k)
    BY <2>1 DEF JInv, Trail
  <2>3. /\ \A n : StepOf(i, n)' = StepOf(i, n) /\ Fact(i, n)' = Fact(i, n)
        /\ SizeOf(i)' = SizeOf(i) /\ AfterOf(i, k)' = AfterOf(i, k)
        /\ State(i)' = State(i) /\ (Fallen(i)' <=> Fallen(i))
    BY DEF StepOf, Fact, SizeOf, AfterOf, State, Registered, Fallen
  <2>4. Answered(i, k)'
    BY <2>2 DEF Reached, Answered
  <2>5. Traced(i, k)'
    BY <2>2, <2>3 DEF Reached, Traced
  <2>6. Justified(i, k)'
    <3>1. \A e : Cause(i, k, e)' <=> Cause(i, k, e)
      BY <1>1 DEF Cause
    <3>2. NONE # "settled"
      BY NoneAssumption
    <3> QED BY <1>1, <1>2, <2>1, <2>2, <2>3, <3>1, <3>2 DEF Reached, Justified
  <2> QED BY <2>2, <2>3, <2>4, <2>5, <2>6 DEF Reached
<1> QED BY <1>1, <1>2, <1>3, TrailBut

LEMMA ClaimTrail ==
    ASSUME JInv, Claim PROVE Trail'
<1>0. PICK i : i = Current
  OBVIOUS
<1>1. /\ Executing /\ work' = [work EXCEPT ![i] = "open"]
      /\ UNCHANGED <<hist, kept, answer, failure, integrity>> /\ raised' = NONE
  BY <1>0 DEF Claim, records, journal, process
<1>2. i \in Intents
  BY <1>0, <1>1, CurrentIntent DEF JInv
<1> QED BY <1>1, <1>2, WorkTrail

LEMMA FinishTrail ==
    ASSUME JInv, Finish PROVE Trail'
<1>0. PICK i : i = Current
  OBVIOUS
<1>1. /\ Executing /\ work' = [work EXCEPT ![i] = "done"]
      /\ UNCHANGED <<hist, kept, answer, failure, integrity>> /\ raised' = NONE
  BY <1>0 DEF Finish, records, journal
<1>2. i \in Intents
  BY <1>0, <1>1, CurrentIntent DEF JInv
<1>3. ASSUME failure[i] # "mishap", NEW k \in 0 .. 14, k <= SizeOf(i), Reached(i, k)
      PROVE  (failure[i] = NONE /\ k = SizeOf(i) /\ ~ParentUnsound(i)) \/ Fallen(i)
  <2>1. CASE Running /\ ~ParentUnsound(i) /\ Pending(i) = {}
    <3>1. k = SizeOf(i)
      <4>1. SizeOf(i) \in Nat
        BY PipelineTable
      <4>2. ~(k < SizeOf(i))
        BY <1>3, <2>1, Frontier
      <4> QED BY <1>3, <4>1, <4>2
    <3>2. failure[i] = NONE
      <4>1. failure[i] # NONE => Cause(i, k, failure[i])
        BY <1>3 DEF Reached, Justified
      <4>2. ASSUME Cause(i, k, failure[i]) PROVE FALSE
        <5>1. k < SizeOf(i)
          BY <1>3, <2>1, <4>2, CauseOpen
        <5> QED BY <3>1, <5>1
      <4> QED BY <4>1, <4>2
    <3> QED BY <2>1, <3>1, <3>2
  <2>2. CASE Handled /\ State(i) \in Terminal /\ ~Suspect(i)
    BY <1>0, <1>3, <2>2, HandledFallen
  <2>3. CASE raised = "settled"
    <3>1. RaisedBy(i) = "settled"
      BY <1>0, <2>3, NoneAssumption DEF RaisedBy
    <3> QED BY <1>3, <3>1 DEF Reached, Justified
  <2> QED BY <1>0, <2>1, <2>2, <2>3 DEF Finish
<1> QED BY <1>1, <1>2, <1>3, WorkTrail

(* The stages between executions raise nothing.                            *)
LEMMA Resting ==
    ASSUME JInv, pc \notin {"execute entries", "execute exits"} \/ todo = <<>>
    PROVE  raised = NONE /\ ~Executing
BY DEF JInv, Course, Raising, Executing

LEMMA InventoryTrail ==
    ASSUME JInv, Materialize \/ MaterializeFails \/ InventoryDone PROVE Trail'
<1>0. PICK i : i = Current
  OBVIOUS
<1>1. At("inventories") /\ todo \in Seq(Intents) /\ pc = "inventories" /\ todo # <<>>
  BY DEF Materialize, MaterializeFails, InventoryDone, At, JInv, IInv, Shape
<1>2. /\ i \in Intents /\ i \in Entries /\ work[i] = "done"
  BY <1>0, <1>1, QueueHead, Numbers DEF JInv, IInv, Queue, Current
<1>3. raised = NONE
  BY <1>1, Resting
<1>4. CASE Materialize \/ MaterializeFails
  <2>1. /\ UNCHANGED <<hist, kept, answer, failure, work>> /\ raised' = NONE
        /\ \A j \in Intents : j # i => integrity'[j] = integrity[j]
    BY <1>0, <1>3, <1>4 DEF Materialize, MaterializeFails, book, process, JInv, IInv, Shape
  <2>2. ASSUME NEW j \in Intents, Registered(j)
        PROVE  ParentUnsound(j)' <=> ParentUnsound(j)
    BY <1>2, <2>1, <2>2, ParentKept DEF JInv
  <2>3. \A j : RaisedBy(j)' = NONE
    BY <2>1 DEF RaisedBy
  <2>4. i \notin Exits
    BY <1>2, Numbers
  <2>5. ParentUnsound(i)' <=> ParentUnsound(i)
    BY <2>4 DEF ParentUnsound
  <2>6. ASSUME Registered(i)', failure'[i] # "mishap"
        PROVE  \E k \in 0 .. 14 : k <= SizeOf(i)' /\ Reached(i, k)'
    <3>1. Registered(i) /\ failure[i] # "mishap"
      BY <2>1, <2>6 DEF Registered
    <3>2. PICK k \in 0 .. 14 : k <= SizeOf(i) /\ Reached(i, k)
      BY <1>2, <3>1 DEF JInv, Trail
    <3> QED BY <2>1, <2>3, <2>5, <3>2, KeepReached
  <2> QED BY <2>1, <2>2, <2>3, <2>6, TrailBut
<1>5. CASE InventoryDone
  <2>1. /\ work' = [work EXCEPT ![i] = "inventoried"] /\ raised' = NONE
        /\ UNCHANGED <<hist, kept, answer, failure, integrity>>
    BY <1>0, <1>3, <1>5 DEF InventoryDone, NextTask, records, journal
  <2>2. \A k : Reached(i, k) => (failure[i] = NONE /\ k = SizeOf(i) /\ ~ParentUnsound(i))
                                \/ Fallen(i)
    BY <1>2 DEF Reached, Justified
  <2> QED BY <1>2, <2>1, <2>2, WorkTrail
<1> QED BY <1>4, <1>5

(* An intent is registered: it has taken no step.                          *)
LEMMA CreateTrail ==
    ASSUME JInv, NEW i \in Intents, ~Registered(i), Create(i), raised' = NONE,
           UNCHANGED <<kept, answer, failure, work, integrity>>
    PROVE  Trail'
<1>1. /\ hist[i] = <<>> /\ work[i] = NONE /\ failure[i] = NONE /\ kept[i] = {}
      /\ \A q \in Questions : answer[i][q] = NONE
  BY DEF JInv, Course, Fresh, Registered
<1>2. hist' = [hist EXCEPT ![i] = <<<<"CREATED", "row">>>>] /\ DOMAIN hist = Intents
  BY DEF Create, JInv, IInv, Shape
<1>3. /\ \A j \in Intents : j # i => hist'[j] = hist[j]
      /\ hist'[i] = <<<<"CREATED", "row">>>>
  BY <1>2
<1>4. /\ \A j : RaisedBy(j)' = NONE
      /\ \A j : ParentUnsound(j)' <=> ParentUnsound(j)
  BY DEF RaisedBy, ParentUnsound
<1>5. State(i)' = "CREATED"
  BY <1>2, AppendState DEF JInv, IInv, Shape
<1>6. Range(hist'[i]) = {<<"CREATED", "row">>}
  <2>1. DOMAIN hist'[i] = 1 .. 1 /\ hist'[i][1] = <<"CREATED", "row">>
    BY <1>3
  <2> QED BY <2>1 DEF Range
<1>7. Reached(i, 0)'
  <2>1. Answered(i, 0)'
    <3>1. \A q \in Questions : ~(Place(q) <= 0)
      BY DEF Place, Questions
    <3> QED BY <1>1, <3>1 DEF Answered, Unusable
  <2>2. Traced(i, 0)'
    <3>1. 1 .. 0 = {}
      OBVIOUS
    <3> QED BY <1>1, <1>6, <3>1 DEF Traced
  <2>3. Justified(i, 0)'
    <3>1. AfterOf(i, 0)' = "CREATED"
      BY DEF AfterOf, After
    <3> QED BY <1>1, <1>4, <1>5, <3>1, NoneAssumption DEF Justified
  <2> QED BY <2>1, <2>2, <2>3 DEF Reached
<1>8. 0 <= SizeOf(i)'
  <2>1. \A a : Size(i \in Exits, a) \in 2 .. 14
    BY DEF Size
  <2> QED BY <2>1 DEF SizeOf
<1> QED BY <1>3, <1>4, <1>7, <1>8, TrailBut
-----------------------------------------------------------------------------
(* The process between two stages.                                         *)
LEMMA AloneBetween ==
    ASSUME JInv, UNCHANGED work, crashes' = crashes \/ crashes' > 0,
           ~Executing \/ crashes' > 0
    PROVE  Alone'
<1>1. ASSUME NEW j \in Intents, work'[j] = "open", crashes' = 0 PROVE FALSE
  <2>1. crashes = 0 /\ ~Executing
    BY <1>1
  <2> QED BY <1>1, <2>1 DEF JInv, Course, Alone
<1> QED BY <1>1 DEF Alone

LEMMA CourseBetween ==
    ASSUME JInv, UNCHANGED <<hist, kept, answer, failure, work, integrity, inventory, mishaps>>,
           crashes' = crashes \/ crashes' > 0, ~Executing \/ crashes' > 0, raised' = NONE,
           ExitQueue'
    PROVE  Course'
<1>1. Alone'
  BY AloneBetween
<1>2. Raising'
  BY NoneAssumption DEF Raising
<1>3. Fresh'
  BY DEF JInv, Course, Fresh
<1>4. Inventoried'
  BY DEF JInv, Course, Inventoried, Sound, State, Registered
<1> QED BY <1>1, <1>2, <1>3, <1>4 DEF Course

LEMMA KindsSame ==
    ASSUME JInv, UNCHANGED <<kept, answer, failure, mishaps>>,
           crashes' \in 0 .. MaxCrashes, raised' \in Exceptions \cup {NONE, "settled"}
    PROVE  Kinds'
BY DEF JInv, Kinds

(* The reasons an exception left a cycle stay true until the process is    *)
(* opened again.                                                           *)
LEMMA AbortsNone ==
    ASSUME abort'[1] = NONE PROVE Aborts'
BY NoneAssumption DEF Aborts, AbortsExplained

LEMMA AbortsSame ==
    ASSUME JInv, pc # "down", abort' = abort PROVE Aborts'
<1>1. abort'[1] = NONE
  BY DEF JInv, Aborts
<1> QED BY <1>1, AbortsNone

(* Steps that leave the process and what it executes alone.                *)
LEMMA ApartStep ==
    ASSUME JInv, IInv',
           UNCHANGED <<records, book, cursor, faults, process>>
    PROVE  JInv'
<1>1. /\ UNCHANGED <<hist, kept, answer, failure, integrity, work, inventory, cursor, pc, todo,
                     raised, abort, crashes, mishaps>>
  BY DEF records, journal, book, faults, process
<1>2. Kinds'
  BY <1>1 DEF JInv, Kinds
<1>3. Course'
  BY <1>1 DEF JInv, Course, Raising, Fresh, Alone, ExitQueue, Inventoried, Executing, Current,
              Distinct, Sound, State, Registered
<1>4. Trail'
  <2>1. /\ \A j : RaisedBy(j)' = RaisedBy(j)
        /\ \A j : ParentUnsound(j)' <=> ParentUnsound(j)
    BY <1>1 DEF RaisedBy, Current, ParentUnsound
  <2>2. PICK i : i \notin Intents
    BY CountAssumption DEF Intents, Entries, Exits
  <2> QED BY <1>1, <2>1, <2>2, TrailBut
<1>5. Aborts'
  BY <1>1 DEF JInv, Aborts, AbortsExplained
<1> QED BY <1>2, <1>3, <1>4, <1>5 DEF JInv

LEMMA ApartSteps ==
    ASSUME JInv, IInv', Paper \/ PersistLineage \/ NoPosition \/ PersistExitEvidence
                        \/ UNCHANGED vars
    PROVE  JInv'
<1>1. UNCHANGED <<records, book, cursor, faults, process>>
  <2>1. CASE Paper
    BY <2>1 DEF Paper, AppendContext, AppendExit, bridge
  <2>2. CASE PersistLineage \/ NoPosition \/ PersistExitEvidence
    BY <2>2 DEF PersistLineage, NoPosition, PersistExitEvidence
  <2>3. CASE UNCHANGED vars
    BY <2>3 DEF vars, bridge
  <2> QED BY <2>1, <2>2, <2>3
<1> QED BY <1>1, ApartStep

(* The queue of the exits that wait for their execution.                   *)
LEMMA WaitingQueue ==
    ASSUME NEW S, S \subseteq Intents
    PROVE  LET q == Waiting(S) IN
           /\ Distinct(q)
           /\ \A n \in DOMAIN q : work[q[n]] \notin {"done", "inventoried"}
<1> DEFINE T == {i \in S \cap Scope : work[i] \notin {"done", "inventoried"}}
<1>1. Some(T) \in Seq(T) /\ Distinct(Some(T))
  BY SomeMembers
<1>2. \A n \in DOMAIN Some(T) : Some(T)[n] \in T
  BY <1>1, LenProperties, ElementOfSeq
<1>3. Waiting(S) = Some(T)
  BY DEF Waiting
<1> QED BY <1>1, <1>2, <1>3

(* Steps of the cycle between the executions.                              *)
LEMMA CycleSteps ==
    ASSUME JInv, IInv',
           \/ Open \/ Close \/ BeginCycle \/ NextStage
           \/ AdvanceCursor \/ WaitForEntry \/ AdvanceExitCursor \/ Compare \/ AdvanceScan
    PROVE  JInv'
<1>1. /\ raised = NONE /\ ~Executing
      /\ pc # "down" \/ Open
  <2>1. \/ pc \notin {"execute entries", "execute exits"} \/ todo = <<>>
    BY DEF Open, Close, BeginCycle, NextStage, AdvanceCursor, WaitForEntry, AdvanceExitCursor,
           Compare, AdvanceScan, At
  <2>2. pc # "down" \/ Open
    BY DEF Close, BeginCycle, NextStage, AdvanceCursor, WaitForEntry, AdvanceExitCursor,
           Compare, AdvanceScan, At
  <2> QED BY <2>1, <2>2, Resting
<1>2. /\ UNCHANGED <<hist, kept, answer, failure, work, integrity, inventory, mishaps, crashes>>
      /\ raised' = NONE
  <2>1. UNCHANGED <<hist, kept, answer, failure, work, integrity, inventory, mishaps, crashes>>
    BY DEF Open, Close, BeginCycle, NextStage, AdvanceCursor, WaitForEntry, AdvanceExitCursor,
           Compare, AdvanceScan, DurableJournal, records, journal, book, faults
  <2>2. raised' = raised \/ raised' = NONE
    BY DEF Open, Close, Ended, BeginCycle, NextStage, Enter, AdvanceCursor, NextTask,
           WaitForEntry, AdvanceExitCursor, Compare, AdvanceScan, process
  <2> QED BY <1>1, <2>1, <2>2
<1>3. ExitQueue'
  <2>1. CASE Open \/ Close \/ BeginCycle \/ AdvanceCursor \/ WaitForEntry \/ AdvanceExitCursor
             \/ Compare \/ AdvanceScan
    <3>1. pc' # "execute exits"
      BY <2>1 DEF Open, Close, Ended, BeginCycle, Enter, AdvanceCursor, NextTask,
                  WaitForEntry, AdvanceExitCursor, Compare, AdvanceScan, At, process
    <3> QED BY <3>1 DEF ExitQueue
  <2>2. CASE NextStage
    <3>1. CASE pc' = "execute exits"
      <4>1. todo' = Waiting(Exits)
        BY <2>2, <3>1 DEF NextStage, Enter
      <4>2. /\ Distinct(Waiting(Exits))
            /\ \A n \in DOMAIN Waiting(Exits) :
                  work[Waiting(Exits)[n]] \notin {"done", "inventoried"}
        BY WaitingQueue, Numbers
      <4> QED BY <1>2, <4>1, <4>2 DEF ExitQueue, Distinct
    <3>2. CASE pc' # "execute exits"
      BY <3>2 DEF ExitQueue
    <3> QED BY <3>1, <3>2
  <2> QED BY <2>1, <2>2
<1>4. Kinds'
  BY <1>2, KindsSame DEF JInv, Kinds
<1>5. Course'
  BY <1>1, <1>2, <1>3, CourseBetween
<1>6. Trail'
  BY <1>2, QuietTrail
<1>7. Aborts'
  <2>1. CASE Open \/ Close
    <3>1. abort'[1] = NONE
      BY <2>1 DEF Open, Close, Ended
    <3> QED BY <3>1, AbortsNone
  <2>2. CASE ~(Open \/ Close)
    <3>1. abort' = abort
      BY <2>2 DEF BeginCycle, NextStage, Enter, AdvanceCursor, NextTask, WaitForEntry,
                  AdvanceExitCursor, Compare, AdvanceScan, process
    <3> QED BY <1>1, <2>2, <3>1, AbortsSame
  <2> QED BY <2>1, <2>2
<1> QED BY <1>4, <1>5, <1>6, <1>7 DEF JInv

(* The process ends, by a crash or by an exception that leaves the cycle.  *)
LEMMA EndedStep ==
    ASSUME JInv, IInv', NEW r, NEW i, Ended(r, i),
           UNCHANGED <<hist, kept, answer, failure, integrity, work, inventory, mishaps>>,
           crashes' \in 0 .. MaxCrashes, crashes' = crashes \/ crashes' > 0,
           ~Executing \/ crashes' > 0, AbortsExplained'
    PROVE  JInv'
<1>1. pc' = "down" /\ raised' = NONE
  BY DEF Ended
<1>2. ExitQueue'
  BY <1>1 DEF ExitQueue
<1>3. Course'
  BY <1>1, <1>2, CourseBetween
<1>4. Kinds'
  BY <1>1, KindsSame
<1>5. Trail'
  BY <1>1, QuietTrail
<1>6. Aborts'
  BY <1>1 DEF Aborts
<1> QED BY <1>3, <1>4, <1>5, <1>6 DEF JInv

LEMMA CrashGood ==
    ASSUME JInv, IInv', Crash PROVE JInv'
<1>1. /\ Ended(NONE, 0)
      /\ UNCHANGED <<hist, kept, answer, failure, integrity, work, inventory, mishaps>>
      /\ crashes' = crashes + 1 /\ crashes < MaxCrashes
  BY DEF Crash, records, journal, book
<1>2. crashes' \in 0 .. MaxCrashes /\ crashes' > 0
  BY <1>1, CountAssumption DEF JInv, Kinds
<1>3. AbortsExplained'
  <2>1. abort'[1] = NONE
    BY <1>1 DEF Ended
  <2> QED BY <2>1, AbortsNone DEF Aborts
<1> QED BY <1>1, <1>2, <1>3, EndedStep

(* A parent that is not bridged yet is one beyond the cursor.              *)
LEMMA LateParentGood ==
    ASSUME JInv, IInv', LateParent PROVE JInv'
<1>0. PICK x, p : x = Head(todo) /\ p = ParentEntry[x]
  OBVIOUS
<1>1. /\ Ended("late parent", x) /\ At("exits") /\ pc = "exits" /\ p \notin lineage
      /\ UNCHANGED <<hist, kept, answer, failure, integrity, work, inventory, mishaps, crashes,
                     cursor>>
  BY <1>0 DEF LateParent, Parent, records, journal, book, faults, bridge, At
<1>2. x \in Exits /\ p \in Entries
  BY <1>0, <1>1, ExitRow, Numbers DEF JInv
<1>3. p > cursor
  <2>1. ~(p <= cursor)
    BY <1>1, <1>2 DEF JInv, IInv, Bridged, CursorsTellBridged
  <2>2. p \in Nat /\ cursor \in Nat
    BY <1>2, Numbers DEF JInv, IInv, Shape
  <2> QED BY <2>1, <2>2
<1>4. AbortsExplained'
  <2>1. abort' = <<"late parent", x>>
    BY <1>1 DEF Ended
  <2> QED BY <1>0, <1>1, <1>3, <2>1 DEF AbortsExplained
<1>5. ~Executing /\ crashes' \in 0 .. MaxCrashes
  BY <1>1 DEF Executing, JInv, Kinds
<1> QED BY <1>1, <1>4, <1>5, EndedStep

(* A completed entry without an inventory is unsound, or was left open by  *)
(* a crash: no entry awaits its inventory when the exits are polled.       *)
LEMMA MissingInventoryGood ==
    ASSUME JInv, IInv', MissingInventory PROVE JInv'
<1>0. PICK x, p : x = Head(todo) /\ p = ParentEntry[x]
  OBVIOUS
<1>1. /\ Ended("no inventory", x) /\ At("exits") /\ pc = "exits" /\ todo # <<>>
      /\ p \notin inventory /\ State(p) = "COMPLETED"
      /\ UNCHANGED <<hist, kept, answer, failure, integrity, work, inventory, mishaps, crashes,
                     cursor>>
  BY <1>0 DEF MissingInventory, Polling, Parent, records, journal, book, faults, bridge, At
<1>2. x \in Exits /\ p \in Entries /\ p \in Intents
  BY <1>0, <1>1, ExitRow, Numbers DEF JInv
<1>3. ~Executing /\ crashes \in 0 .. MaxCrashes
  BY <1>1 DEF Executing, JInv, Kinds
<1>4. integrity[p] # NONE \/ (work[p] = "open" /\ crashes > 0)
  <2>1. work[p] # "done"
    BY <1>1, <1>2 DEF JInv, IInv, Queue, Unclaimed
  <2>2. CASE work[p] = "inventoried"
    BY <1>1, <1>2, <2>2 DEF JInv, Course, Inventoried, Sound
  <2>3. CASE work[p] = NONE
    <3>1. hist[p] = <<>> \/ hist[p] = <<<<"CREATED", "row">>>>
      BY <1>2, <2>3 DEF JInv, Course, Fresh
    <3>2. State(p) \in {"UNREGISTERED", "CREATED"}
      <4>1. CASE hist[p] = <<>>
        BY <4>1 DEF State, Registered
      <4>2. CASE hist[p] = <<<<"CREATED", "row">>>>
        <5>1. Len(hist[p]) = 1 /\ hist[p][1] = <<"CREATED", "row">> /\ hist[p] # <<>>
          BY <4>2
        <5> QED BY <5>1 DEF State, Registered, Last
      <4> QED BY <3>1, <4>1, <4>2
    <3> QED BY <1>1, <3>2
  <2>4. CASE work[p] = "open"
    <3>1. crashes # 0
      BY <1>2, <1>3, <2>4 DEF JInv, Course, Alone
    <3> QED BY <1>3, <2>4, <3>1
  <2>5. work[p] \in {NONE, "open", "done", "inventoried"}
    BY <1>2 DEF JInv, IInv, Shape
  <2> QED BY <2>1, <2>2, <2>3, <2>4, <2>5
<1>5. AbortsExplained'
  <2>1. abort' = <<"no inventory", x>>
    BY <1>1 DEF Ended
  <2> QED BY <1>0, <1>1, <1>4, <2>1 DEF AbortsExplained
<1> QED BY <1>1, <1>3, <1>5, EndedStep

(* Two records of a failure differ only after a mishap, and only a crash   *)
(* lets an intent with a recorded failure be executed again.               *)
LEMMA ConflictGood ==
    ASSUME JInv, IInv', FailureConflict PROVE JInv'
<1>0. PICK i : i = Current
  OBVIOUS
<1>1. /\ Ended("conflict", i) /\ Handling /\ failure[i] \notin {NONE, raised}
      /\ UNCHANGED <<hist, kept, answer, failure, integrity, work, inventory, mishaps, crashes>>
  BY <1>0 DEF FailureConflict, records, journal, book, faults
<1>2. i \in Intents /\ work[i] = "open" /\ raised \notin {NONE, "settled"}
  BY <1>0, <1>1, HandlingIntent
<1>3. crashes \in 0 .. MaxCrashes /\ mishaps \in 0 .. MaxMishaps
  BY DEF JInv, Kinds
<1>4. crashes > 0
  <2>1. crashes # 0
    BY <1>1, <1>2 DEF JInv, Course, Alone
  <2> QED BY <1>3, <2>1, CountAssumption
<1>5. mishaps > 0
  <2>1. CASE failure[i] = "mishap" \/ raised = "mishap"
    BY <1>2, <2>1 DEF JInv, Course, Fresh, Raising
  <2>2. CASE failure[i] # "mishap" /\ raised # "mishap"
    <3>1. PICK k \in 0 .. 14 : k <= SizeOf(i) /\ Reached(i, k) /\ Cause(i, k, raised)
      BY <1>0, <1>1, <2>2, HandledCause
    <3>2. Cause(i, k, failure[i])
      BY <1>1, <3>1 DEF Reached, Justified
    <3>3. failure[i] = raised
      BY <3>1, <3>2, OneCause
    <3> QED BY <1>1, <3>3
  <2> QED BY <2>1, <2>2
<1>6. AbortsExplained'
  <2>1. abort' = <<"conflict", i>>
    BY <1>1 DEF Ended
  <2> QED BY <1>1, <1>4, <1>5, <2>1 DEF AbortsExplained
<1> QED BY <1>1, <1>3, <1>4, <1>6, EndedStep

(* An intent is registered while its row is bridged.                       *)
LEMMA CreateGood ==
    ASSUME JInv, IInv', RegisterEntry \/ RegisterExit PROVE JInv'
<1>0. PICK i : i = Head(todo)
  OBVIOUS
<1>1. /\ ~Registered(i) /\ Create(i) /\ pc \in {"entries", "exits"} /\ todo # <<>>
      /\ UNCHANGED <<kept, answer, failure, integrity, work, inventory, cursor, pc, todo, raised,
                     abort, crashes, mishaps>>
  BY <1>0 DEF RegisterEntry, RegisterExit, Polling, At, journal, book, process, faults, bridge
<1>2. i \in Intents
  BY <1>0, <1>1, QueueHead DEF JInv, IInv, Shape
<1>3. raised = NONE /\ ~Executing
  BY <1>1, Resting
<1>4. Trail'
  BY <1>1, <1>2, <1>3, CreateTrail
<1>5. hist' = [hist EXCEPT ![i] = <<<<"CREATED", "row">>>>] /\ DOMAIN hist = Intents
  BY <1>1 DEF Create, JInv, IInv, Shape
<1>6. Kinds'
  BY <1>1, KindsSame DEF JInv, Kinds
<1>7. Alone'
  BY <1>1, <1>3, AloneBetween
<1>8. Fresh'
  <2>1. work[i] = NONE
    BY <1>1, <1>2 DEF JInv, Course, Fresh, Registered
  <2>2. /\ hist'[i] = <<<<"CREATED", "row">>>>
        /\ \A j \in Intents : j # i => hist'[j] = hist[j]
    BY <1>2, <1>5
  <2>3. ASSUME NEW j \in Intents
        PROVE  /\ work[j] = NONE => hist'[j] = <<>> \/ hist'[j] = <<<<"CREATED", "row">>>>
               /\ hist'[j] = <<>> => work[j] = NONE
    <3>1. CASE j = i
      BY <2>1, <2>2, <3>1
    <3>2. CASE j # i
      BY <2>2, <3>2 DEF JInv, Course, Fresh
    <3> QED BY <3>1, <3>2
  <2> QED BY <1>1, <2>3 DEF JInv, Course, Fresh
<1>9. Inventoried'
  <2>1. work[i] # "inventoried"
    BY <1>1, <1>2, NoneAssumption DEF JInv, Course, Fresh, Registered
  <2>2. \A e \in Entries : e # i => State(e)' = State(e)
    BY <1>2, <1>5, AppendState, Numbers DEF JInv, IInv, Shape
  <2> QED BY <1>1, <2>1, <2>2 DEF JInv, Course, Inventoried, Sound
<1>10. Raising' /\ ExitQueue'
  BY <1>1, <1>3, NoneAssumption DEF Raising, ExitQueue
<1>11. Aborts'
  BY <1>1, AbortsSame
<1> QED BY <1>4, <1>6, <1>7, <1>8, <1>9, <1>10, <1>11 DEF JInv, Course
-----------------------------------------------------------------------------
(* A step of the execution, for the course of the process.                 *)
Others(i) ==
    \A j \in Intents : j # i =>
        /\ hist'[j] = hist[j] /\ kept'[j] = kept[j] /\ answer'[j] = answer[j]
        /\ failure'[j] = failure[j] /\ work'[j] = work[j] /\ integrity'[j] = integrity[j]

LEMMA ExecuteCourse ==
    ASSUME JInv, IInv', Executing, NEW i, i = Current, Others(i),
           UNCHANGED <<pc, todo, abort, crashes, inventory>>,
           mishaps' = mishaps \/ mishaps' > 0, work'[i] = "open",
           failure'[i] = "mishap" => mishaps' > 0,
           raised' = "settled" => failure'[i] # NONE,
           raised' = "mishap" => mishaps' > 0,
           crashes = 0 /\ failure'[i] # NONE => raised' \in {failure'[i], "settled"},
           Kinds', Trail'
    PROVE  JInv'
<1>1. /\ i \in Intents /\ Registered(i) /\ 1 \in DOMAIN todo /\ i = todo[1]
      /\ Executing' /\ i = Current'
      /\ pc \in {"execute entries", "execute exits"}
  BY CurrentIntent DEF JInv, Executing, Current
<1>2. Raising'
  BY <1>1 DEF Raising
<1>3. Registered(i)'
  BY <1>1, CurrentIntent, ZenonT(60) DEF JInv, IInv, Queue, Executing, Registered
<1>4. Fresh'
  <2>1. ASSUME NEW j \in Intents, j # i
        PROVE  /\ failure'[j] = "mishap" => mishaps' > 0
               /\ work'[j] = NONE => /\ hist'[j] = <<>> \/ hist'[j] = <<<<"CREATED", "row">>>>
                                     /\ failure'[j] = NONE /\ kept'[j] = {}
                                     /\ \A q \in Questions : answer'[j][q] = NONE
               /\ hist'[j] = <<>> => work'[j] = NONE
    BY <2>1 DEF JInv, Course, Fresh, Others
  <2>2. work'[i] # NONE /\ hist'[i] # <<>>
    BY <1>3, NoneAssumption DEF Registered
  <2> QED BY <2>1, <2>2 DEF Fresh
<1>5. Alone'
  <2>1. ASSUME NEW j \in Intents, work'[j] = "open", crashes = 0, j # i PROVE FALSE
    <3>1. work[j] = "open"
      BY <2>1 DEF Others
    <3> QED BY <2>1, <3>1 DEF JInv, Course, Alone
  <2> QED BY <1>1, <2>1 DEF Alone
<1>6. ExitQueue'
  <2>1. ASSUME pc = "execute exits", NEW n \in DOMAIN todo
        PROVE  work'[todo[n]] \notin {"done", "inventoried"}
    <3>1. todo[n] \in Intents
      BY LenProperties, ElementOfSeq DEF JInv, IInv, Shape
    <3>2. CASE todo[n] = i
      BY <3>2
    <3>3. CASE todo[n] # i
      BY <2>1, <3>1, <3>3 DEF Others, JInv, Course, ExitQueue
    <3> QED BY <3>2, <3>3
  <2> QED BY <2>1 DEF JInv, Course, ExitQueue, Distinct
<1>7. Inventoried'
  <2>1. ASSUME NEW e \in Entries, work'[e] = "inventoried", Sound(e)' PROVE e \in inventory
    <3>1. e \in Intents /\ e # i
      BY <2>1, Numbers
    <3>2. work[e] = "inventoried" /\ hist'[e] = hist[e] /\ integrity'[e] = integrity[e]
      BY <2>1, <3>1 DEF Others
    <3>3. Sound(e)
      BY <2>1, <3>2 DEF Sound, State, Registered
    <3> QED BY <3>2, <3>3 DEF JInv, Course, Inventoried
  <2> QED BY <2>1 DEF Inventoried
<1>8. Aborts'
  BY <1>1, AbortsSame
<1> QED BY <1>2, <1>4, <1>5, <1>6, <1>7, <1>8 DEF JInv, Course

(* An intent is claimed.                                                   *)
LEMMA ClaimGood ==
    ASSUME JInv, IInv', Claim PROVE JInv'
<1>0. PICK i : i = Current
  OBVIOUS
<1>1. /\ Executing /\ raised = NONE /\ raised' = NONE /\ work[i] = NONE
      /\ work' = [work EXCEPT ![i] = "open"]
      /\ UNCHANGED <<hist, kept, answer, failure, integrity, pc, todo, abort, crashes, mishaps,
                     inventory>>
  BY <1>0 DEF Claim, records, journal, process, faults
<1>2. i \in Intents
  BY <1>0, <1>1, CurrentIntent DEF JInv
<1>3. Others(i) /\ work'[i] = "open"
  BY <1>1, <1>2 DEF Others, JInv, IInv, Shape
<1>4. failure'[i] = NONE
  BY <1>1, <1>2 DEF JInv, Course, Fresh
<1>5. Kinds'
  BY <1>1 DEF JInv, Kinds
<1>6. Trail'
  BY ClaimTrail
<1> QED BY <1>0, <1>1, <1>3, <1>4, <1>5, <1>6, ExecuteCourse, NoneAssumption

(* What an intent that runs has already, it had when no process had died.  *)
LEMMA RunningCourse ==
    ASSUME JInv, IInv', Running, NEW i, i = Current, Others(i),
           UNCHANGED <<pc, todo, abort, crashes, inventory, failure, work>>,
           mishaps' = mishaps \/ mishaps' > 0,
           raised' # "settled", raised' = "mishap" => mishaps' > 0,
           Kinds', Trail'
    PROVE  JInv'
<1>1. i \in Intents /\ raised = NONE /\ Executing /\ work[i] = "open"
  BY RunningIntent
<1>2. failure[i] = "mishap" => mishaps' > 0
  BY <1>1 DEF JInv, Course, Fresh
<1>3. crashes = 0 => failure[i] = NONE
  <2>1. crashes = 0 /\ failure[i] # NONE => raised \in {failure[i], "settled"}
    BY <1>1 DEF JInv, Course, Alone
  <2> QED BY <1>1, <2>1, NoneAssumption
<1> QED BY <1>1, <1>2, <1>3, ExecuteCourse

LEMMA RunningGood ==
    ASSUME JInv, IInv', \/ RefuseOrphan \/ JournaledError \/ RefuseEvidence \/ Mishap
                        \/ AskNetwork \/ Transit \/ KeepEvidence
    PROVE  JInv'
<1>0. PICK i, s : i = Current /\ s = Step
  OBVIOUS
<1>1. /\ Running
      /\ UNCHANGED <<pc, todo, abort, crashes, inventory, failure, work, integrity>>
  BY DEF RefuseOrphan, JournaledError, RefuseEvidence, Mishap, AskNetwork, Transit, KeepEvidence,
         NextIs, Raise, process, faults, book, records, journal
<1>2. i \in Intents /\ raised = NONE
  BY <1>0, <1>1, RunningIntent
<1>3. /\ hist' = hist \/ \E e : hist' = [hist EXCEPT ![i] = e]
      /\ kept' = kept \/ \E e : kept' = [kept EXCEPT ![i] = e]
      /\ answer' = answer \/ \E v : answer' = [answer EXCEPT ![i][s.what] = v]
  <2>1. CASE RefuseOrphan \/ JournaledError \/ RefuseEvidence \/ Mishap
    BY <2>1 DEF RefuseOrphan, JournaledError, RefuseEvidence, Mishap, records, journal
  <2>2. CASE AskNetwork
    BY <1>0, <2>2 DEF AskNetwork
  <2>3. CASE Transit
    BY <1>0, <2>3 DEF Transit, journal
  <2>4. CASE KeepEvidence
    BY <1>0, <2>4 DEF KeepEvidence, journal
  <2> QED BY <2>1, <2>2, <2>3, <2>4
<1>4. Others(i)
  BY <1>1, <1>3 DEF Others, JInv, Kinds, IInv, Shape
<1>5. /\ DOMAIN kept' = Intents /\ DOMAIN answer' = Intents
      /\ \A j \in Intents : DOMAIN answer'[j] = Questions
  BY <1>3 DEF JInv, Kinds
<1>6. /\ raised' \in {NONE, "rpc", "quote", "plan", "replay", "invalid", "determinism", "mishap"}
      /\ mishaps' = mishaps \/ (mishaps' = mishaps + 1 /\ mishaps < MaxMishaps)
      /\ raised' = "mishap" => (mishaps' = mishaps + 1 /\ mishaps < MaxMishaps)
  <2>1. CASE Mishap
    BY <2>1 DEF Mishap, Raise
  <2>2. CASE RefuseOrphan \/ JournaledError \/ RefuseEvidence
    <3>0. RefuseEvidence => NextIs("refuse") /\ raised' = Step.what
      BY DEF RefuseEvidence, Raise
    <3>1. raised' \in {"replay", "rpc", "quote", "plan"} /\ mishaps' = mishaps
      BY <2>2, <3>0, RefusedWhat DEF RefuseOrphan, JournaledError, RefuseEvidence, Raise, faults
    <3>2. raised' # "mishap"
      BY <3>1
    <3> QED BY <3>1, <3>2
  <2>3. CASE AskNetwork \/ Transit \/ KeepEvidence
    <3>1. raised' \in {raised, "invalid", "determinism"} /\ mishaps' = mishaps
      BY <2>3 DEF AskNetwork, Transit, KeepEvidence, Raise, faults, process
    <3>2. NONE # "mishap"
      BY NoneAssumption
    <3>3. raised' \in {NONE, "invalid", "determinism"}
      BY <1>2, <3>1
    <3>4. raised' # "mishap"
      BY <3>2, <3>3
    <3> QED BY <3>1, <3>3, <3>4
  <2> QED BY <2>1, <2>2, <2>3
<1>7. mishaps' \in 0 .. MaxMishaps /\ (mishaps' = mishaps \/ mishaps' > 0)
      /\ (raised' = "mishap" => mishaps' > 0)
  BY <1>6, CountAssumption DEF JInv, Kinds
<1>8. raised' # "settled" /\ raised' \in Exceptions \cup {NONE, "settled"}
  BY <1>6, NoneAssumption DEF Exceptions
<1>9. Kinds'
  BY <1>1, <1>5, <1>7, <1>8 DEF JInv, Kinds
<1>10. Trail'
  BY RaiseTrail, AskTrail, TransitTrail, KeepTrail
<1> QED BY <1>0, <1>1, <1>4, <1>7, <1>8, <1>9, <1>10, RunningCourse

(* The handler.                                                            *)
LEMMA HandlerGood ==
    ASSUME JInv, IInv', RecordFailure \/ FailIntent \/ MarkUnsound PROVE JInv'
<1>0. PICK i, r : i = Current /\ r = raised
  OBVIOUS
<1>1. /\ Handling
      /\ UNCHANGED <<pc, todo, abort, crashes, mishaps, inventory, kept, answer, work>>
  BY DEF RecordFailure, FailIntent, MarkUnsound, Handled, Settled, process, faults, book, journal
<1>2. i \in Intents /\ work[i] = "open" /\ r \notin {NONE, "settled"} /\ Executing
  BY <1>0, <1>1, HandlingIntent
<1>3. r = "mishap" => mishaps > 0
  BY <1>0 DEF JInv, Course, Raising
<1>4. /\ failure'[i] = r /\ raised' \in {r, "settled"}
      /\ \A j \in Intents : j # i => failure'[j] = failure[j]
  <2>1. CASE RecordFailure
    BY <1>0, <1>2, <2>1 DEF RecordFailure, process, JInv, Kinds
  <2>2. CASE FailIntent \/ MarkUnsound
    BY <1>0, <2>2 DEF FailIntent, MarkUnsound, Handled, Settled, journal
  <2> QED BY <2>1, <2>2
<1>5. /\ \A j \in Intents : j # i => hist'[j] = hist[j]
      /\ \A j \in Intents : j # i => integrity'[j] = integrity[j]
  BY <1>0 DEF RecordFailure, FailIntent, MarkUnsound, journal, JInv, IInv, Shape
<1>6. Others(i)
  BY <1>1, <1>4, <1>5 DEF Others
<1>7. Trail' /\ Kinds'
  <2>1. CASE RecordFailure
    BY <2>1, RecordTrail
  <2>2. CASE FailIntent \/ MarkUnsound
    <3>1. failure' = failure /\ raised' = "settled"
      BY <2>2 DEF FailIntent, MarkUnsound, Settled, journal
    <3>2. Kinds'
      BY <1>1, <3>1 DEF JInv, Kinds
    <3> QED BY <2>2, <3>2, FailTrail, UnsoundTrail
  <2> QED BY <2>1, <2>2
<1> QED BY <1>0, <1>1, <1>2, <1>3, <1>4, <1>6, <1>7, ExecuteCourse

(* The rest of a queue in which nothing is twice.                          *)
LEMMA DistinctTail ==
    ASSUME NEW S, NEW q \in Seq(S), q # <<>>, Distinct(q)
    PROVE  /\ Distinct(Tail(q))
           /\ \A n \in DOMAIN Tail(q) : /\ Tail(q)[n] # q[1]
                                        /\ \E m \in DOMAIN q : Tail(q)[n] = q[m]
<1> DEFINE t == Tail(q)
<1>1. /\ 1 \in DOMAIN q
      /\ \A n \in DOMAIN t : n \in Nat /\ n >= 1 /\ n + 1 \in DOMAIN q /\ t[n] = q[n + 1]
  BY QueueHead
<1> HIDE DEF t
<1>2. ASSUME NEW n \in DOMAIN t
      PROVE  t[n] # q[1] /\ \E m \in DOMAIN q : t[n] = q[m]
  <2>1. n \in Nat /\ n >= 1 /\ n + 1 \in DOMAIN q /\ t[n] = q[n + 1]
    BY <1>1
  <2>2. n + 1 # 1
    BY <2>1
  <2> QED BY <1>1, <2>1, <2>2 DEF Distinct
<1>3. ASSUME NEW m \in DOMAIN t, NEW n \in DOMAIN t, t[m] = t[n] PROVE m = n
  <2>1. /\ m \in Nat /\ m + 1 \in DOMAIN q /\ t[m] = q[m + 1]
        /\ n \in Nat /\ n + 1 \in DOMAIN q /\ t[n] = q[n + 1]
    BY <1>1
  <2>2. m + 1 = n + 1
    BY <1>3, <2>1 DEF Distinct
  <2> QED BY <2>1, <2>2
<1> QED BY <1>2, <1>3 DEF Distinct, t

(* An execution ends: the next of the queue is another intent.             *)
LEMMA FinishGood ==
    ASSUME JInv, IInv', Finish PROVE JInv'
<1>0. PICK i : i = Current
  OBVIOUS
<1>1. /\ Executing /\ work' = [work EXCEPT ![i] = "done"] /\ todo' = Tail(todo) /\ raised' = NONE
      /\ UNCHANGED <<hist, kept, answer, failure, integrity, inventory, pc, abort, crashes,
                     mishaps>>
  BY <1>0 DEF Finish, records, journal, faults
<1>2. /\ i \in Intents /\ 1 \in DOMAIN todo /\ i = todo[1] /\ Registered(i)
      /\ pc \in {"execute entries", "execute exits"} /\ todo # <<>> /\ todo \in Seq(Intents)
  BY <1>0, <1>1, CurrentIntent DEF JInv, IInv, Shape, Executing
<1>3. work'[i] = "done" /\ \A j \in Intents : j # i => work'[j] = work[j]
  BY <1>1, <1>2 DEF JInv, IInv, Shape
<1>4. Distinct(todo) =>
         /\ Distinct(todo')
         /\ \A n \in DOMAIN todo' : todo'[n] # i /\ \E m \in DOMAIN todo : todo'[n] = todo[m]
  BY <1>1, <1>2, DistinctTail
<1>5. Raising'
  BY <1>1, NoneAssumption DEF Raising
<1>6. Fresh'
  <2>1. ASSUME NEW j \in Intents, j # i
        PROVE  /\ failure[j] = "mishap" => mishaps > 0
               /\ work'[j] = NONE => /\ hist[j] = <<>> \/ hist[j] = <<<<"CREATED", "row">>>>
                                     /\ failure[j] = NONE /\ kept[j] = {}
                                     /\ \A q \in Questions : answer[j][q] = NONE
               /\ hist[j] = <<>> => work'[j] = NONE
    BY <1>3, <2>1 DEF JInv, Course, Fresh
  <2>2. work'[i] # NONE /\ hist[i] # <<>>
    BY <1>2, <1>3, NoneAssumption DEF Registered
  <2>3. failure[i] = "mishap" => mishaps > 0
    BY <1>2 DEF JInv, Course, Fresh
  <2> QED BY <1>1, <2>1, <2>2, <2>3 DEF Fresh
<1>7. Alone'
  <2>1. ASSUME NEW j \in Intents, work'[j] = "open", crashes = 0 PROVE FALSE
    <3>1. j # i /\ work[j] = "open"
      BY <1>3, <2>1
    <3> QED BY <1>0, <2>1, <3>1 DEF JInv, Course, Alone
  <2> QED BY <1>1, <2>1 DEF Alone
<1>8. ExitQueue'
  <2> SUFFICES ASSUME pc = "execute exits"
               PROVE  /\ Distinct(todo')
                      /\ \A n \in DOMAIN todo' : work'[todo'[n]] \notin {"done", "inventoried"}
    BY <1>1 DEF ExitQueue, Distinct
  <2>1. Distinct(todo) /\ \A n \in DOMAIN todo : work[todo[n]] \notin {"done", "inventoried"}
    BY DEF JInv, Course, ExitQueue
  <2>3. ASSUME NEW n \in DOMAIN todo' PROVE work'[todo'[n]] \notin {"done", "inventoried"}
    <3>1. PICK m \in DOMAIN todo : todo'[n] = todo[m] /\ todo'[n] # i
      BY <1>4, <2>1
    <3>2. todo[m] \in Intents
      BY <1>2, LenProperties, ElementOfSeq
    <3> QED BY <1>3, <2>1, <3>1, <3>2
  <2> QED BY <1>4, <2>1, <2>3
<1>9. Inventoried'
  <2>1. ASSUME NEW e \in Entries, work'[e] = "inventoried", Sound(e)' PROVE e \in inventory
    <3>1. e \in Intents /\ e # i
      BY <1>3, <2>1, Numbers
    <3>2. work[e] = "inventoried" /\ Sound(e)
      BY <1>1, <1>3, <2>1, <3>1 DEF Sound, State, Registered
    <3> QED BY <3>2 DEF JInv, Course, Inventoried
  <2> QED BY <1>1, <2>1 DEF Inventoried
<1>10. Kinds'
  BY <1>1 DEF JInv, Kinds
<1>11. Trail' /\ Aborts'
  BY <1>1, <1>2, FinishTrail, AbortsSame
<1> QED BY <1>5, <1>6, <1>7, <1>8, <1>9, <1>10, <1>11 DEF JInv, Course

(* The inventory of an entry, or the reason why there is none.             *)
LEMMA InventoryGood ==
    ASSUME JInv, IInv', Materialize \/ MaterializeFails \/ InventoryDone PROVE JInv'
<1>0. PICK i : i = Current
  OBVIOUS
<1>1. /\ At("inventories") /\ pc = "inventories" /\ todo # <<>>
      /\ UNCHANGED <<hist, kept, answer, failure, pc, raised, abort, crashes>>
  BY DEF Materialize, MaterializeFails, InventoryDone, At, NextTask, process, records, journal,
         faults
<1>2. raised = NONE /\ ~Executing
  BY <1>1, Resting
<1>3. /\ i \in Intents /\ i \in Entries /\ work[i] = "done"
  <2>1. 1 \in DOMAIN todo /\ i = todo[1]
    BY <1>0, <1>1, QueueHead DEF JInv, IInv, Shape, Current
  <2> QED BY <1>1, <2>1, Numbers DEF JInv, IInv, Queue
<1>4. /\ \A j \in Intents : j # i => integrity'[j] = integrity[j] /\ work'[j] = work[j]
      /\ work'[i] \in {"done", "inventoried"}
  <2>1. /\ integrity' = integrity \/ \E r : integrity' = [integrity EXCEPT ![i] = r]
        /\ work' = work \/ work' = [work EXCEPT ![i] = "inventoried"]
    BY <1>0 DEF Materialize, MaterializeFails, InventoryDone, records, journal, book
  <2> QED BY <1>3, <2>1 DEF JInv, IInv, Shape
<1>5. /\ mishaps' \in 0 .. MaxMishaps /\ (mishaps' = mishaps \/ mishaps' > 0)
  <2>1. mishaps' = mishaps \/ (mishaps' = mishaps + 1 /\ mishaps < MaxMishaps)
    BY DEF Materialize, MaterializeFails, InventoryDone, faults
  <2> QED BY <2>1, CountAssumption DEF JInv, Kinds
<1>6. Raising'
  BY <1>1, <1>2, NoneAssumption DEF Raising
<1>7. Fresh'
  <2>1. ASSUME NEW j \in Intents
        PROVE  /\ failure[j] = "mishap" => mishaps' > 0
               /\ work'[j] = NONE => /\ hist[j] = <<>> \/ hist[j] = <<<<"CREATED", "row">>>>
                                     /\ failure[j] = NONE /\ kept[j] = {}
                                     /\ \A q \in Questions : answer[j][q] = NONE
               /\ hist[j] = <<>> => work'[j] = NONE
    <3>1. /\ failure[j] = "mishap" => mishaps > 0
          /\ work[j] = NONE => /\ hist[j] = <<>> \/ hist[j] = <<<<"CREATED", "row">>>>
                               /\ failure[j] = NONE /\ kept[j] = {}
                               /\ \A q \in Questions : answer[j][q] = NONE
          /\ hist[j] = <<>> => work[j] = NONE
      BY DEF JInv, Course, Fresh
    <3>2. NONE \notin {"done", "inventoried"}
      BY NoneAssumption
    <3> QED BY <1>3, <1>4, <1>5, <3>1, <3>2
  <2> QED BY <1>1, <2>1 DEF Fresh
<1>8. Alone'
  <2>1. ASSUME NEW j \in Intents, work'[j] = "open", crashes = 0 PROVE FALSE
    <3>1. work[j] = "open"
      BY <1>4, <2>1
    <3> QED BY <1>2, <2>1, <3>1 DEF JInv, Course, Alone
  <2> QED BY <1>1, <2>1 DEF Alone
<1>9. ExitQueue'
  BY <1>1 DEF ExitQueue
<1>10. Inventoried'
  <2>1. ASSUME NEW e \in Entries, work'[e] = "inventoried", Sound(e)' PROVE e \in inventory'
    <3>1. State(e)' = State(e) /\ e \in Intents
      BY <1>1, Numbers DEF State, Registered
    <3>2. inventory \subseteq inventory'
      BY DEF Materialize, MaterializeFails, InventoryDone, book
    <3>3. CASE e # i
      <4>1. work[e] = "inventoried" /\ Sound(e)
        BY <1>4, <2>1, <3>1, <3>3 DEF Sound
      <4> QED BY <3>2, <4>1 DEF JInv, Course, Inventoried
    <3>4. CASE e = i
      <4>1. work' # work
        BY <1>3, <2>1, <3>4
      <4>2. InventoryDone
        BY <4>1 DEF Materialize, MaterializeFails, book
      <4>3. integrity' = integrity /\ (Sound(i) => i \in inventory)
        BY <1>0, <4>2 DEF InventoryDone, records, journal
      <4>4. Sound(i)
        BY <2>1, <3>1, <3>4, <4>3 DEF Sound
      <4> QED BY <3>2, <3>4, <4>3, <4>4
    <3> QED BY <3>3, <3>4
  <2> QED BY <2>1 DEF Inventoried
<1>11. Kinds'
  BY <1>1, <1>5 DEF JInv, Kinds
<1>12. Trail' /\ Aborts'
  BY <1>1, InventoryTrail, AbortsSame
<1> QED BY <1>6, <1>7, <1>8, <1>9, <1>10, <1>11, <1>12 DEF JInv, Course
-----------------------------------------------------------------------------
LEMMA JInit == Init => JInv
<1> SUFFICES ASSUME Init PROVE JInv
  OBVIOUS
<1>1. /\ hist = [i \in Intents |-> <<>>] /\ kept = [i \in Intents |-> {}]
      /\ answer = [i \in Intents |-> [q \in Questions |-> NONE]]
      /\ failure = [i \in Intents |-> NONE] /\ work = [i \in Intents |-> NONE]
      /\ pc = "down" /\ todo = <<>> /\ raised = NONE /\ abort = <<NONE, 0>>
      /\ crashes = 0 /\ mishaps = 0
  BY DEF Init
<1>2. Kinds
  BY <1>1, CountAssumption DEF Kinds
<1>3. Raising
  BY <1>1, NoneAssumption DEF Raising
<1>4. Fresh
  <2>1. NONE # "mishap"
    BY NoneAssumption
  <2> QED BY <1>1, <2>1 DEF Fresh
<1>5. Alone /\ Inventoried
  <2>1. NONE \notin {"open", "inventoried"}
    BY NoneAssumption
  <2> QED BY <1>1, <2>1, Numbers DEF Alone, Inventoried
<1>6. ExitQueue
  BY <1>1 DEF ExitQueue
<1>7. Trail
  BY <1>1 DEF Trail, Registered
<1>8. Aborts
  <2>1. abort[1] = NONE
    BY <1>1
  <2> QED BY <2>1, NoneAssumption DEF Aborts, AbortsExplained
<1> QED BY <1>2, <1>3, <1>4, <1>5, <1>6, <1>7, <1>8, InitGood DEF JInv, Course

LEMMA JStep == JInv /\ [Next]_vars => JInv'
<1> SUFFICES ASSUME JInv, [Next]_vars PROVE JInv'
  OBVIOUS
<1>0. IInv'
  BY StepGood DEF JInv
<1>1. CASE UNCHANGED vars \/ Paper
  BY <1>0, <1>1, ApartSteps
<1>2. CASE Bridge
  BY <1>0, <1>2, CreateGood, ApartSteps, CycleSteps, LateParentGood, MissingInventoryGood
     DEF Bridge
<1>3. CASE Execute
  BY <1>0, <1>3, ClaimGood, RunningGood, FinishGood DEF Execute
<1>4. CASE Handle
  BY <1>0, <1>4, HandlerGood, ConflictGood DEF Handle
<1>5. CASE Gather
  BY <1>0, <1>5, InventoryGood, CycleSteps DEF Gather
<1>6. CASE Open \/ BeginCycle \/ NextStage \/ Close
  BY <1>0, <1>6, CycleSteps
<1>7. CASE Fault
  BY <1>0, <1>7, CrashGood, RunningGood, InventoryGood DEF Fault
<1> QED BY <1>1, <1>2, <1>3, <1>4, <1>5, <1>6, <1>7 DEF Next, Sidecar
-----------------------------------------------------------------------------
(* What remains of the kinds of the variables.                             *)
Classes == {NONE, "PENDING", "SIM_SUCCESS", "NON_SUCCESS", "INTEGRITY_FAILURE"}
Reasons == {NONE, "conflict", "late parent", "no inventory"}

Types ==
    /\ integrity \in [Intents -> Exceptions \cup {NONE}]
    /\ \A i \in Intents : Registered(i) => State(i) \in DOMAIN Allowed
    /\ heads \in [Intents -> Classes] /\ scan \in Intents \cup {0}
    /\ abort[1] \in Reasons

(* Who writes what.                                                        *)
LEMMA Writers ==
    ASSUME [Next]_vars
    PROVE  /\ integrity' = integrity \/ MarkUnsound \/ Materialize \/ MaterializeFails
           /\ hist' = hist \/ RegisterEntry \/ RegisterExit \/ Transit \/ FailIntent
           /\ heads' = heads \/ Compare
           /\ scan' = scan \/ AdvanceScan
           /\ \/ abort' = abort \/ Open \/ Close \/ Crash
              \/ LateParent \/ MissingInventory \/ FailureConflict
<1>1. CASE UNCHANGED vars
  BY <1>1 DEF vars, records, journal, compare, process
<1>2. CASE Paper
  BY <1>2 DEF Paper, AppendContext, AppendExit, records, journal, compare, process
<1>3. CASE Bridge
  BY <1>3 DEF Bridge, RegisterEntry, PersistLineage, AdvanceCursor, LateParent, WaitForEntry,
     NoPosition, MissingInventory, RegisterExit, PersistExitEvidence, AdvanceExitCursor, NextTask,
     records, journal, compare, process
<1>4. CASE Execute
  BY <1>4 DEF Execute, Claim, RefuseOrphan, AskNetwork, JournaledError, RefuseEvidence, Transit,
     KeepEvidence, Finish, NextIs, Raise, records, journal, compare, process
<1>5. CASE Handle
  BY <1>5 DEF Handle, RecordFailure, FailureConflict, FailIntent, MarkUnsound, Settled,
     records, journal, compare, process
<1>6. CASE Gather
  BY <1>6 DEF Gather, Materialize, InventoryDone, Compare, AdvanceScan, NextTask, records,
     journal, compare,
     process
<1>7. CASE Open \/ BeginCycle \/ NextStage \/ Close
  BY <1>7 DEF Open, BeginCycle, NextStage, Close, Enter, records, journal, compare, process
<1>8. CASE Fault
  BY <1>8 DEF Fault, Crash, Mishap, MaterializeFails, Raise, records, journal, compare, process
<1> QED BY <1>1, <1>2, <1>3, <1>4, <1>5, <1>6, <1>7, <1>8 DEF Next, Sidecar

LEMMA StateType ==
    ASSUME JInv, Types, RegisterEntry \/ RegisterExit \/ Transit \/ FailIntent
    PROVE  \A j \in Intents : Registered(j)' => State(j)' \in DOMAIN Allowed
<1>1. ASSUME NEW i \in Intents, NEW w \in DOMAIN Allowed, NEW by,
             \/ hist' = [hist EXCEPT ![i] = Append(@, <<w, by>>)]
             \/ hist' = [hist EXCEPT ![i] = <<<<w, by>>>>]
      PROVE  \A j \in Intents : Registered(j)' => State(j)' \in DOMAIN Allowed
  <2>1. /\ State(i)' = w
        /\ \A j \in Intents : j # i => State(j)' = State(j)
        /\ \A j \in Intents : j # i => (Registered(j)' <=> Registered(j))
    BY <1>1, AppendState DEF JInv, IInv, Shape
  <2> QED BY <2>1 DEF Types
<1>2. CASE RegisterEntry \/ RegisterExit
  <2>1. PICK i : i = Head(todo)
    OBVIOUS
  <2>2. hist' = [hist EXCEPT ![i] = <<<<"CREATED", "row">>>>] /\ todo # <<>>
    BY <1>2, <2>1 DEF RegisterEntry, RegisterExit, Create, Polling, At
  <2>3. i \in Intents
    BY <2>1, <2>2, QueueHead DEF JInv, IInv, Shape
  <2>4. "CREATED" \in DOMAIN Allowed
    BY DEF Allowed
  <2> QED BY <1>1, <2>2, <2>3, <2>4
<1>3. CASE Transit
  <2>1. PICK i, w, by : i = Current /\ w = Step.what /\ by = Step.by
    OBVIOUS
  <2>2. i \in Intents /\ Registered(i)
    BY <1>3, <2>1, RunningIntent DEF Transit, NextIs
  <2>3. CASE w \in Allowed[State(i)]
    <3>1. hist' = [hist EXCEPT ![i] = Append(@, <<w, by>>)]
      BY <1>3, <2>1, <2>3 DEF Transit
    <3>2. State(i) \in DOMAIN Allowed
      BY <2>2 DEF Types
    <3>3. \A s \in DOMAIN Allowed : Allowed[s] \subseteq DOMAIN Allowed
      BY DEF Allowed, Negative
    <3> QED BY <1>1, <2>2, <2>3, <3>1, <3>2, <3>3
  <2>4. CASE w \notin Allowed[State(i)]
    <3>1. hist' = hist
      BY <1>3, <2>1, <2>4 DEF Transit
    <3> QED BY <3>1 DEF Types, Registered, State
  <2> QED BY <2>3, <2>4
<1>4. CASE FailIntent
  <2>1. PICK i, w, by : i = Current /\ w = FailureTarget(i) /\ by = raised
    OBVIOUS
  <2>2. i \in Intents /\ hist' = [hist EXCEPT ![i] = Append(@, <<w, by>>)]
    BY <1>4, <2>1, HandlingIntent DEF FailIntent, Handled
  <2>3. w \in {"REJECTED", "FAILED"}
    BY <2>1 DEF FailureTarget
  <2>4. {"REJECTED", "FAILED"} \subseteq DOMAIN Allowed
    BY DEF Allowed
  <2> QED BY <1>1, <2>2, <2>3, <2>4
<1> QED BY <1>2, <1>3, <1>4

LEMMA TypesStep ==
    ASSUME JInv, Types, [Next]_vars PROVE Types'
<1>1. integrity' \in [Intents -> Exceptions \cup {NONE}]
  <2>1. CASE MarkUnsound
    <3>1. raised \in Exceptions
      BY <2>1 DEF MarkUnsound, Handled, Handling, JInv, Kinds
    <3> QED BY <2>1, <3>1 DEF MarkUnsound, Types
  <2>2. CASE Materialize \/ MaterializeFails
    BY <2>2 DEF Materialize, MaterializeFails, Types, Exceptions
  <2>3. CASE integrity' = integrity
    BY <2>3 DEF Types
  <2> QED BY <2>1, <2>2, <2>3, Writers
<1>2. \A i \in Intents : Registered(i)' => State(i)' \in DOMAIN Allowed
  <2>1. CASE hist' = hist
    BY <2>1 DEF Types, Registered, State
  <2> QED BY <2>1, StateType, Writers
<1>3. heads' \in [Intents -> Classes] /\ scan' \in Intents \cup {0}
  <2>1. PICK i, c : i = Current /\ c = Classification(i)
    OBVIOUS
  <2>2. c \in Classes
    BY <2>1 DEF Classification, Classes
  <2>3. todo # <<>> => i \in Intents
    BY <2>1, QueueHead DEF JInv, IInv, Shape, Current
  <2>4. Compare => heads' = [heads EXCEPT ![i] = c]
    BY <2>1 DEF Compare
  <2>5. AdvanceScan => todo # <<>> /\ scan' = i
    BY <2>1 DEF AdvanceScan, At
  <2>6. heads' = heads \/ heads' = [heads EXCEPT ![i] = c]
    BY <2>4, Writers
  <2>7. scan' = scan \/ scan' \in Intents
    BY <2>3, <2>5, Writers
  <2> QED BY <2>2, <2>6, <2>7 DEF Types
<1>4. abort'[1] \in Reasons
  <2>1. CASE abort' = abort
    BY <2>1 DEF Types
  <2>2. CASE Open \/ Close \/ Crash \/ LateParent \/ MissingInventory \/ FailureConflict
    <3>1. \E r \in Reasons : \E j : abort' = <<r, j>>
      BY <2>2 DEF Open, Close, Crash, LateParent, MissingInventory, FailureConflict, Ended, Reasons
    <3> QED BY <3>1
  <2> QED BY <2>1, <2>2, Writers
<1> QED BY <1>1, <1>2, <1>3, <1>4 DEF Types

LEMMA TypesInit == Init => Types
<1> SUFFICES ASSUME Init PROVE Types
  OBVIOUS
<1>1. /\ hist = [i \in Intents |-> <<>>] /\ integrity = [i \in Intents |-> NONE]
      /\ heads = [i \in Intents |-> NONE] /\ scan = 0 /\ abort = <<NONE, 0>>
  BY DEF Init
<1> QED BY <1>1 DEF Types, Registered, Classes, Reasons

(* A row that was read once is one element.                                *)
LEMMA DistinctSize ==
    ASSUME NEW S, NEW q \in Seq(S), Distinct(q)
    PROVE  Range(q) \subseteq S /\ Len(q) = Cardinality(Range(q))
<1>1. Len(q) \in Nat /\ DOMAIN q = 1 .. Len(q)
  BY LenProperties
<1>2. Range(q) \subseteq S
  BY <1>1, ElementOfSeq DEF Range
<1>3. q \in [1 .. Len(q) -> Range(q)]
  BY <1>1 DEF Range
<1>4. q \in Bijection(1 .. Len(q), Range(q))
  BY <1>1, <1>3 DEF Bijection, Injection, Surjection, IsInjective, Distinct, Range
<1>5. IsFiniteSet(1 .. Len(q)) /\ Cardinality(1 .. Len(q)) = Len(q)
  BY <1>1, FS_Interval
<1>6. Cardinality(Range(q)) = Cardinality(1 .. Len(q))
  BY <1>4, <1>5, FS_Bijection DEF ExistsBijection
<1> QED BY <1>2, <1>5, <1>6

(* Every variable is of its kind, and no cursor is ahead of the paper      *)
(* database: what poll_once and poll_exit_once have read is there.         *)
THEOREM TypeOKAlways == Spec => []TypeOK
<1>1. JInv /\ Types => TypeOK
  <2> SUFFICES ASSUME JInv, Types PROVE TypeOK
    OBVIOUS
  <2>1. Range(exitRows) \subseteq Exits /\ Len(exitRows) = Cardinality(Range(exitRows))
    BY DistinctSize DEF JInv, IInv, Shape
  <2>2. Range(todo) \subseteq Intents
    BY LenProperties, ElementOfSeq DEF JInv, IInv, Shape, Range
  <2>3. /\ contexts \in 0 .. NumEntries /\ lineage \subseteq Entries /\ cursor \in 0 .. contexts
        /\ exitCursor \in 0 .. Len(exitRows) /\ inventory \subseteq Entries
        /\ \A x \in Exits : evidence[x] \in {NONE, "EXIT_INTENT", "NO_POSITION"}
        /\ \A i \in Intents : work[i] \in {NONE, "open", "done", "inventoried"}
    BY DEF JInv, IInv, Shape
  <2>4. /\ \A i \in Intents : failure[i] \in Exceptions \cup {NONE}
        /\ raised \in Exceptions \cup {NONE, "settled"}
        /\ crashes \in 0 .. MaxCrashes /\ mishaps \in 0 .. MaxMishaps
    BY DEF JInv, Kinds, Exceptions, Regular
  <2>5. /\ \A i \in Intents : Registered(i) => State(i) \in DOMAIN Allowed
        /\ \A i \in Intents : integrity[i] \in Exceptions \cup {NONE}
        /\ \A i \in Intents : heads[i] \in Classes
        /\ scan \in Intents \cup {0} /\ abort[1] \in Reasons
    BY DEF Types
  <2> QED BY <2>1, <2>2, <2>3, <2>4, <2>5 DEF TypeOK, Classes, Reasons
<1>2. JInv /\ Types /\ [Next]_vars => (JInv /\ Types)'
  BY JStep, TypesStep
<1> QED BY <1>1, <1>2, JInit, TypesInit, PTL DEF Spec

(* An exception leaves a cycle for the reasons the code gives and no       *)
(* other: poll_exit_once before the parent is bridged, or without the      *)
(* inventory of a parent that is unsound or that a crash left open, and a  *)
(* record of a failure that says otherwise than its replay.                *)
THEOREM AbortsExplainedAlways == Spec => []AbortsExplained
<1>1. JInv => AbortsExplained
  BY DEF JInv, Aborts
<1> QED BY <1>1, JInit, JStep, PTL DEF Spec
-----------------------------------------------------------------------------
(* What a step of the pipeline writes rests on an answer.                  *)
LEMMA WordGround ==
    ASSUME NEW x, NEW a, NEW n \in 1 .. 14, Word(x, a, n).do \in {"to", "keep"}
    PROVE  Word(x, a, n).by \in {"intent", a.venue, a.actor, a.sim}
<1>1. n \in {1, 2, 3, 4, 5, 6, 7, 8, 9, 10, 11, 12, 13, 14}
  OBVIOUS
<1>2. CASE n \in {1, 2, 3, 4, 5}
  BY <1>2 DEF Word, To, Ask, Keep, Way
<1>3. CASE n \in {6, 7, 8, 9, 10}
  BY <1>3 DEF Word, To, Ask, Keep, Bind, Refuse, Turn
<1>4. CASE n \in {11, 12, 13, 14}
  BY <1>4 DEF Word, To, Ask, Keep, Landing, End
<1> QED BY <1>1, <1>2, <1>3, <1>4

(* An intent that fell has the verdict of what it fell by.                 *)
LEMMA FallenVerdict ==
    ASSUME NEW i, NEW k \in Nat, k <= SizeOf(i), Reached(i, k), Fallen(i)
    PROVE  State(i) = Verdict(i) /\ failure[i] \in Regular
<1>0. PICK a : a = answer[i]
  OBVIOUS
<1>1. <<State(i), failure[i]>> \in Endings
  BY DEF Fallen
<1>2. failure[i] \in Regular
  BY <1>1 DEF Endings, Regular
<1>3. failure[i] # NONE
  BY NotFallen
<1>4. Cause(i, k, failure[i])
  BY <1>3 DEF Reached, Justified
<1>5. CASE ParentUnsound(i) \/ failure[i] = "rpc" \/ failure[i] = "replay"
  <2>1. State(i) = "FAILED"
    BY <1>1, <1>4, <1>5 DEF Endings, Cause
  <2>2. \/ ParentUnsound(i) \/ a.actor = "malformed"
        \/ "error" \in {a[q] : q \in Questions}
    BY <1>0, <1>4, <1>5 DEF Cause
  <2> QED BY <1>0, <1>2, <2>1, <2>2 DEF Verdict
<1>6. CASE ~ParentUnsound(i) /\ failure[i] \in {"quote", "plan"}
  <2>1. /\ State(i) = "REJECTED"
        /\ \/ a.venue = "unquotable" /\ k = 5
           \/ a.actor = "unplannable" /\ k = 8
    BY <1>0, <1>1, <1>4, <1>6 DEF Endings, Cause
  <2>2. ASSUME NEW q \in Questions, answer[i][q] = "error" PROVE FALSE
    <3>1. Place(q) = k + 1
      BY <2>2, ErrorPlace
    <3>2. Place(q) \in {2, 8, 11}
      BY DEF Place, Questions
    <3> QED BY <2>1, <3>1, <3>2
  <2>3. "error" \notin {a[q] : q \in Questions}
    BY <1>0, <2>2
  <2>4. a.actor # "malformed"
    <3>1. ASSUME a.actor = "malformed" PROVE FALSE
      <4>1. "actor" \in Questions /\ Place("actor") = 8 /\ a.actor = answer[i]["actor"]
        BY <1>0 DEF Questions, Place
      <4>2. "actor" \in Questions /\ a.actor \notin Unusable
        BY <3>1, NoneIsNoAnswer DEF Questions, Unusable
      <4>3. 8 <= k
        BY <4>1, <4>2 DEF Reached, Answered
      <4> QED BY <2>1, <3>1, <4>3
    <3> QED BY <3>1
  <2> QED BY <1>0, <1>2, <1>6, <2>1, <2>3, <2>4 DEF Verdict
<1> QED BY <1>2, <1>5, <1>6 DEF Regular

LEMMA Followed ==
    ASSUME JInv, NEW i \in Intents, work[i] \in {"done", "inventoried"}, failure[i] # "mishap"
    PROVE  /\ State(i) = Verdict(i)
           /\ \A h \in Range(hist[i]) \cup kept[i] : h[2] \in Grounds(i)
<1>1. Registered(i)
  <2>1. NONE \notin {"done", "inventoried"}
    BY NoneAssumption
  <2> QED BY <2>1 DEF JInv, Course, Fresh, Registered
<1>2. PICK k \in 0 .. 14 : k <= SizeOf(i) /\ Reached(i, k)
  BY <1>1 DEF JInv, Trail
<1>3. State(i) = Verdict(i)
  <2>1. CASE Fallen(i)
    BY <1>2, <2>1, FallenVerdict
  <2>2. CASE ~Fallen(i)
    <3>1. k = SizeOf(i) /\ ~ParentUnsound(i) /\ State(i) = AfterOf(i, k)
      BY <1>2, <2>2 DEF Reached, Justified
    <3> QED BY <1>2, <3>1, VerdictReached
  <2> QED BY <2>1, <2>2
<1>4. ASSUME NEW n \in 1 .. k, StepOf(i, n).do \in {"to", "keep"} PROVE Fact(i, n)[2] \in Grounds(i)
  <2>1. n \in 1 .. 14
    OBVIOUS
  <2>2. StepOf(i, n).by \in {"intent", answer[i].venue, answer[i].actor, answer[i].sim}
    BY <1>4, <2>1, WordGround DEF StepOf
  <2>3. Fact(i, n)[2] = StepOf(i, n).by
    BY DEF Fact
  <2>4. {"intent", answer[i].venue, answer[i].actor, answer[i].sim} \subseteq Grounds(i)
    BY DEF Grounds, Questions
  <2> QED BY <2>2, <2>3, <2>4
<1>5. ASSUME NEW h \in Range(hist[i]) PROVE h[2] \in Grounds(i)
  <2>1. CASE h = <<"CREATED", "row">>
    BY <2>1 DEF Grounds
  <2>2. CASE \E n \in 1 .. k : StepOf(i, n).do = "to" /\ h = Fact(i, n)
    BY <1>4, <2>2
  <2>3. CASE Fallen(i) /\ h = <<State(i), failure[i]>>
    <3>1. failure[i] \in Regular
      BY <1>2, <2>3, FallenVerdict
    <3>2. h[2] = failure[i]
      BY <2>3
    <3> QED BY <3>1, <3>2 DEF Grounds
  <2> QED BY <1>2, <2>1, <2>2, <2>3 DEF Reached, Traced
<1>6. ASSUME NEW c \in kept[i] PROVE c[2] \in Grounds(i)
  <2>1. PICK n \in 1 .. k : StepOf(i, n).do = "keep" /\ c = Fact(i, n)
    BY <1>2 DEF Reached, Traced
  <2> QED BY <1>4, <2>1
<1> QED BY <1>3, <1>5, <1>6
-----------------------------------------------------------------------------
(* What no replay, exception, restart or crash takes back.                 *)
Closed == {"done", "inventoried"}

RecordsOnward(i) ==
    /\ \/ hist'[i] = hist[i]
       \/ State(i) \notin Terminal /\ \E h : hist'[i] = Append(hist[i], h)
    /\ kept[i] \subseteq kept'[i]
    /\ \A q \in Questions : answer[i][q] # NONE => answer'[i][q] = answer[i][q]
    /\ failure[i] # NONE => failure'[i] = failure[i]
    /\ integrity[i] # NONE => integrity'[i] = integrity[i]

WorkOnward(i) ==
    /\ work[i] # NONE => work'[i] # NONE
    /\ work[i] \in Closed =>
          /\ work'[i] \in Closed /\ hist'[i] = hist[i] /\ kept'[i] = kept[i]
          /\ answer'[i] = answer[i] /\ failure'[i] = failure[i]
    /\ work[i] = "inventoried" => work'[i] = "inventoried" /\ integrity'[i] = integrity[i]

BridgeOnward ==
    /\ contexts <= contexts' /\ cursor <= cursor' /\ exitCursor <= exitCursor'
    /\ lineage \subseteq lineage' /\ inventory \subseteq inventory'
    /\ \A x \in Exits : evidence[x] # NONE => evidence'[x] = evidence[x]

OnlyForward == BridgeOnward /\ \A i \in Intents : RecordsOnward(i) /\ WorkOnward(i)

(* An intent still open that is marked as unsound was marked for the       *)
(* exception in its journal, so that a replay cannot mark it otherwise.    *)
Marked ==
    \A i \in Intents :
        integrity[i] # NONE /\ work[i] \notin Closed => integrity[i] = failure[i]

LEMMA Recorders ==
    ASSUME [Next]_vars
    PROVE  /\ kept' = kept \/ KeepEvidence
           /\ answer' = answer \/ AskNetwork
           /\ failure' = failure \/ RecordFailure
           /\ work' = work \/ Claim \/ Finish \/ InventoryDone
           /\ inventory' = inventory \/ Materialize
           /\ lineage' = lineage \/ PersistLineage
           /\ cursor' = cursor \/ AdvanceCursor
           /\ evidence' = evidence \/ NoPosition \/ PersistExitEvidence
           /\ exitCursor' = exitCursor \/ AdvanceExitCursor
           /\ contexts' = contexts \/ AppendContext
<1>1. CASE UNCHANGED vars
  BY <1>1 DEF vars, paper, bridge, records, journal, book
<1>2. CASE Paper
  BY <1>2 DEF Paper, AppendContext, AppendExit, paper, bridge, records, journal, book
<1>3. CASE Bridge
  BY <1>3 DEF Bridge, RegisterEntry, PersistLineage, AdvanceCursor, LateParent, WaitForEntry,
     NoPosition, MissingInventory, RegisterExit, PersistExitEvidence, AdvanceExitCursor,
     paper, bridge, records, journal, book
<1>4. CASE Execute
  BY <1>4 DEF Execute, Claim, RefuseOrphan, AskNetwork, JournaledError, RefuseEvidence, Transit,
     KeepEvidence, Finish, paper, bridge, records, journal, book
<1>5. CASE Handle
  BY <1>5 DEF Handle, RecordFailure, FailureConflict, FailIntent, MarkUnsound,
     paper, bridge, records, journal, book
<1>6. CASE Gather
  BY <1>6 DEF Gather, Materialize, InventoryDone, Compare, AdvanceScan, paper, bridge, records,
     journal, book
<1>7. CASE Open \/ BeginCycle \/ NextStage \/ Close
  BY <1>7 DEF Open, BeginCycle, NextStage, Close, DurableJournal, paper, bridge, records,
     journal, book
<1>8. CASE Fault
  BY <1>8 DEF Fault, Crash, Mishap, MaterializeFails, paper, bridge, records, journal, book
<1> QED BY <1>1, <1>2, <1>3, <1>4, <1>5, <1>6, <1>7, <1>8 DEF Next, Sidecar

(* Whom the executor writes about is open, whom the bridge registers is    *)
(* not yet claimed, and whom the inventories are about is done.            *)
LEMMA HistoryOnward ==
    ASSUME JInv, [Next]_vars, NEW j \in Intents
    PROVE  /\ \/ hist'[j] = hist[j]
              \/ State(j) \notin Terminal /\ \E h : hist'[j] = Append(hist[j], h)
           /\ work[j] \in Closed => hist'[j] = hist[j]
<1>1. ASSUME NEW i \in Intents, NEW h,
             State(i) \notin Terminal, work[i] \notin Closed,
             \/ hist' = [hist EXCEPT ![i] = Append(@, h)]
             \/ hist[i] = <<>> /\ hist' = [hist EXCEPT ![i] = <<h>>]
      PROVE  /\ \/ hist'[j] = hist[j]
                \/ State(j) \notin Terminal /\ \E g : hist'[j] = Append(hist[j], g)
             /\ work[j] \in Closed => hist'[j] = hist[j]
  <2>1. DOMAIN hist = Intents
    BY DEF JInv, IInv, Shape
  <2>2. Append(<<>>, h) = <<h>>
    OBVIOUS
  <2>3. hist'[i] = Append(hist[i], h) /\ (j # i => hist'[j] = hist[j])
    BY <1>1, <2>1, <2>2
  <2> QED BY <1>1, <2>3
<1>2. CASE RegisterEntry \/ RegisterExit
  <2>1. PICK i : i = Head(todo)
    OBVIOUS
  <2>2. /\ hist' = [hist EXCEPT ![i] = <<<<"CREATED", "row">>>>] /\ todo # <<>>
        /\ ~Registered(i)
    BY <1>2, <2>1 DEF RegisterEntry, RegisterExit, Create, Polling, At
  <2>3. i \in Intents
    BY <2>1, <2>2, QueueHead DEF JInv, IInv, Shape
  <2>4. hist[i] = <<>> /\ work[i] = NONE /\ State(i) = "UNREGISTERED"
    BY <2>2, <2>3 DEF Registered, State, JInv, Course, Fresh
  <2>5. State(i) \notin Terminal /\ work[i] \notin Closed
    BY <2>4, NoneAssumption DEF Terminal, Negative, Closed
  <2> QED BY <1>1, <2>2, <2>3, <2>4, <2>5
<1>3. CASE Transit
  <2>1. PICK i, w, by : i = Current /\ w = Step.what /\ by = Step.by
    OBVIOUS
  <2>2. i \in Intents /\ work[i] = "open"
    BY <1>3, <2>1, RunningIntent DEF Transit, NextIs
  <2>3. CASE w \in Allowed[State(i)]
    <3>1. hist' = [hist EXCEPT ![i] = Append(@, <<w, by>>)]
      BY <1>3, <2>1, <2>3 DEF Transit
    <3>2. State(i) \notin Terminal /\ work[i] \notin Closed
      BY <2>2, <2>3 DEF Terminal, Negative, Allowed, Closed
    <3> QED BY <1>1, <2>2, <3>1, <3>2
  <2>4. CASE w \notin Allowed[State(i)]
    BY <1>3, <2>1, <2>4 DEF Transit
  <2> QED BY <2>3, <2>4
<1>4. CASE FailIntent
  <2>1. PICK i, w, by : i = Current /\ w = FailureTarget(i) /\ by = raised
    OBVIOUS
  <2>2. /\ i \in Intents /\ hist' = [hist EXCEPT ![i] = Append(@, <<w, by>>)]
        /\ State(i) \notin Terminal /\ work[i] = "open"
    BY <1>4, <2>1, HandlingIntent DEF FailIntent, Handled
  <2>3. work[i] \notin Closed
    BY <2>2 DEF Closed
  <2> QED BY <1>1, <2>2, <2>3
<1>5. hist' = hist \/ RegisterEntry \/ RegisterExit \/ Transit \/ FailIntent
  BY Writers
<1> QED BY <1>2, <1>3, <1>4, <1>5

LEMMA JournalOnward ==
    ASSUME JInv, [Next]_vars, NEW j \in Intents
    PROVE  /\ kept[j] \subseteq kept'[j]
           /\ \A q \in Questions : answer[j][q] # NONE => answer'[j][q] = answer[j][q]
           /\ failure[j] # NONE => failure'[j] = failure[j]
           /\ work[j] \in Closed =>
                 kept'[j] = kept[j] /\ answer'[j] = answer[j] /\ failure'[j] = failure[j]
<1>0. /\ DOMAIN kept = Intents /\ DOMAIN answer = Intents /\ DOMAIN failure = Intents
      /\ \A i \in Intents : DOMAIN answer[i] = Questions
  BY DEF JInv, Kinds
<1>1. kept[j] \subseteq kept'[j] /\ (work[j] \in Closed => kept'[j] = kept[j])
  <2>1. CASE KeepEvidence
    <3>1. PICK i, s : i = Current /\ s = Step
      OBVIOUS
    <3>2. i \in Intents /\ work[i] = "open"
      BY <2>1, <3>1, RunningIntent DEF KeepEvidence, NextIs
    <3>3. kept' = kept \/ kept' = [kept EXCEPT ![i] = @ \cup {<<s.what, s.by>>}]
      BY <2>1, <3>1 DEF KeepEvidence
    <3> QED BY <1>0, <3>2, <3>3 DEF Closed
  <2> QED BY <2>1, Recorders
<1>2. /\ \A q \in Questions : answer[j][q] # NONE => answer'[j][q] = answer[j][q]
      /\ work[j] \in Closed => answer'[j] = answer[j]
  <2>1. CASE AskNetwork
    <3>1. PICK i, w : i = Current /\ w = Step.what
      OBVIOUS
    <3>2. i \in Intents /\ work[i] = "open"
      BY <2>1, <3>1, RunningIntent DEF AskNetwork, NextIs
    <3>3. PICK a : answer' = [answer EXCEPT ![i][w] = a]
      BY <2>1, <3>1 DEF AskNetwork
    <3>4. answer[i][w] = NONE
      BY <2>1, <3>1 DEF AskNetwork
    <3>5. /\ j # i => answer'[j] = answer[j]
          /\ \A q \in Questions : q # w => answer'[i][q] = answer[i][q]
      BY <1>0, <3>2, <3>3
    <3> QED BY <3>2, <3>4, <3>5 DEF Closed
  <2> QED BY <2>1, Recorders
<1>3. /\ failure[j] # NONE => failure'[j] = failure[j]
      /\ work[j] \in Closed => failure'[j] = failure[j]
  <2>1. CASE RecordFailure
    <3>1. PICK i : i = Current
      OBVIOUS
    <3>2. i \in Intents /\ work[i] = "open"
      BY <2>1, <3>1, HandlingIntent DEF RecordFailure
    <3>3. failure[i] = NONE /\ failure' = [failure EXCEPT ![i] = raised]
      BY <2>1, <3>1 DEF RecordFailure
    <3> QED BY <1>0, <3>2, <3>3 DEF Closed
  <2> QED BY <2>1, Recorders
<1> QED BY <1>1, <1>2, <1>3

(* The intent whose inventory is gathered.                                 *)
LEMMA GatheredIntent ==
    ASSUME JInv, At("inventories"), NEW i, i = Current
    PROVE  i \in Intents /\ work[i] = "done"
<1>1. todo \in Seq(Intents) /\ pc = "inventories" /\ todo # <<>>
  BY DEF At, JInv, IInv, Shape
<1>2. 1 \in DOMAIN todo /\ i = todo[1] /\ i \in Intents
  BY <1>1, QueueHead DEF Current
<1> QED BY <1>1, <1>2 DEF JInv, IInv, Queue

(* Who marks an intent as unsound, and on what ground.                     *)
LEMMA MarkOnward ==
    ASSUME JInv, Marked, [Next]_vars, NEW j \in Intents
    PROVE  /\ integrity[j] # NONE => integrity'[j] = integrity[j]
           /\ work[j] = "inventoried" => integrity'[j] = integrity[j]
           /\ \/ integrity'[j] = integrity[j]
              \/ integrity'[j] = failure[j] /\ failure' = failure
              \/ work[j] = "done" /\ work' = work
<1>0. DOMAIN integrity = Intents
  BY DEF JInv, IInv, Shape
<1>1. CASE MarkUnsound
  <2>1. PICK i : i = Current
    OBVIOUS
  <2>2. i \in Intents /\ work[i] = "open"
    BY <1>1, <2>1, HandlingIntent DEF MarkUnsound, Handled
  <2>3. /\ integrity' = [integrity EXCEPT ![i] = raised] /\ failure[i] = raised
        /\ failure' = failure
    BY <1>1, <2>1 DEF MarkUnsound, Handled
  <2>4. integrity[i] # NONE => integrity[i] = failure[i]
    BY <2>2 DEF Marked, Closed
  <2> QED BY <1>0, <2>2, <2>3, <2>4
<1>2. CASE Materialize \/ MaterializeFails
  <2>1. PICK i : i = Current
    OBVIOUS
  <2>2. At("inventories") /\ integrity[i] = NONE /\ work' = work
    BY <1>2, <2>1 DEF Materialize, MaterializeFails, Sound, book
  <2>3. i \in Intents /\ work[i] = "done"
    BY <2>1, <2>2, GatheredIntent
  <2>4. \/ integrity' = integrity
        \/ \E r : integrity' = [integrity EXCEPT ![i] = r]
    BY <1>2, <2>1 DEF Materialize, MaterializeFails
  <2>5. j # i => integrity'[j] = integrity[j]
    BY <1>0, <2>4
  <2> QED BY <2>2, <2>3, <2>5
<1>3. integrity' = integrity \/ MarkUnsound \/ Materialize \/ MaterializeFails
  BY Writers
<1> QED BY <1>1, <1>2, <1>3

LEMMA ClaimsOnward ==
    ASSUME JInv, [Next]_vars, NEW j \in Intents
    PROVE  /\ work[j] # NONE => work'[j] # NONE
           /\ work[j] \in Closed => work'[j] \in Closed
           /\ work[j] = "inventoried" => work'[j] = "inventoried"
<1>0. work \in [Intents -> {NONE, "open", "done", "inventoried"}]
  BY DEF JInv, IInv, Shape
<1>1. ASSUME NEW i \in Intents, NEW was, NEW w,
             work[i] = was, work' = [work EXCEPT ![i] = w],
             \/ was = NONE /\ w = "open"
             \/ was = "open" /\ w = "done"
             \/ was = "done" /\ w = "inventoried"
      PROVE  /\ work[j] # NONE => work'[j] # NONE
             /\ work[j] \in Closed => work'[j] \in Closed
             /\ work[j] = "inventoried" => work'[j] = "inventoried"
  <2>1. work'[i] = w /\ (j # i => work'[j] = work[j])
    BY <1>0, <1>1
  <2> QED BY <1>1, <2>1, NoneAssumption DEF Closed
<1>2. PICK i : i = Current
  OBVIOUS
<1>3. CASE Claim
  <2>1. i \in Intents
    BY <1>2, <1>3, CurrentIntent DEF Claim, JInv
  <2>2. work[i] = NONE /\ work' = [work EXCEPT ![i] = "open"]
    BY <1>2, <1>3 DEF Claim
  <2> QED BY <1>1, <2>1, <2>2
<1>4. CASE Finish
  <2>1. /\ Executing /\ work' = [work EXCEPT ![i] = "done"]
        /\ raised # NONE \/ work[i] = "open"
    BY <1>2, <1>4, NoneAssumption DEF Finish, Running, Handled, Handling
  <2>2. i \in Intents /\ work[i] = "open"
    BY <1>2, <2>1, CurrentIntent DEF JInv, Course, Raising
  <2> QED BY <1>1, <2>1, <2>2
<1>5. CASE InventoryDone
  <2>1. At("inventories") /\ work' = [work EXCEPT ![i] = "inventoried"]
    BY <1>2, <1>5 DEF InventoryDone
  <2>2. i \in Intents /\ work[i] = "done"
    BY <1>2, <2>1, GatheredIntent
  <2> QED BY <1>1, <2>1, <2>2
<1>6. work' = work \/ Claim \/ Finish \/ InventoryDone
  BY Recorders
<1> QED BY <1>3, <1>4, <1>5, <1>6

LEMMA BridgeForward ==
    ASSUME JInv, [Next]_vars PROVE BridgeOnward
<1>0. /\ contexts \in Nat /\ cursor \in Nat /\ exitCursor \in Nat /\ DOMAIN evidence = Exits
      /\ inventory \subseteq Entries
  BY LenProperties, CountAssumption DEF JInv, IInv, Shape
<1>1. contexts <= contexts'
  BY <1>0, Recorders DEF AppendContext
<1>2. cursor <= cursor'
  <2>1. CASE AdvanceCursor
    <3>1. cursor' = cursor + 1
      BY <2>1, EntryRow DEF AdvanceCursor, JInv
    <3> QED BY <1>0, <3>1
  <2> QED BY <1>0, <2>1, Recorders
<1>3. exitCursor <= exitCursor'
  BY <1>0, Recorders DEF AdvanceExitCursor
<1>4. lineage \subseteq lineage' /\ inventory \subseteq inventory'
  BY Recorders DEF PersistLineage, Materialize
<1>5. ASSUME NEW x \in Exits, evidence[x] # NONE PROVE evidence'[x] = evidence[x]
  <2>1. CASE NoPosition \/ PersistExitEvidence
    <3>1. PICK y : y = Head(todo)
      OBVIOUS
    <3>2. evidence[y] = NONE
      BY <2>1, <3>1 DEF NoPosition, PersistExitEvidence
    <3>3. \E v : evidence' = [evidence EXCEPT ![y] = v]
      BY <2>1, <3>1 DEF NoPosition, PersistExitEvidence
    <3> QED BY <1>0, <1>5, <3>2, <3>3
  <2> QED BY <2>1, Recorders
<1> QED BY <1>1, <1>2, <1>3, <1>4, <1>5 DEF BridgeOnward

LEMMA OnwardStep ==
    ASSUME JInv, Marked, [Next]_vars
    PROVE  \A i \in Intents : RecordsOnward(i) /\ WorkOnward(i)
<1> SUFFICES ASSUME NEW i \in Intents PROVE RecordsOnward(i) /\ WorkOnward(i)
  OBVIOUS
<1>1. RecordsOnward(i)
  BY HistoryOnward, JournalOnward, MarkOnward DEF RecordsOnward
<1>2. WorkOnward(i)
  BY HistoryOnward, JournalOnward, MarkOnward, ClaimsOnward DEF WorkOnward
<1> QED BY <1>1, <1>2

LEMMA MarkedStep ==
    ASSUME JInv, Marked, [Next]_vars PROVE Marked'
<1> SUFFICES ASSUME NEW i \in Intents, integrity'[i] # NONE, work'[i] \notin Closed
             PROVE  integrity'[i] = failure'[i]
  BY DEF Marked
<1>0. RecordsOnward(i) /\ WorkOnward(i)
  BY OnwardStep
<1>1. work[i] \notin Closed /\ work[i] # "done"
  BY <1>0 DEF WorkOnward, Closed
<1>2. CASE integrity'[i] = integrity[i]
  BY <1>0, <1>1, <1>2 DEF Marked, RecordsOnward
<1>3. CASE integrity'[i] = failure[i] /\ failure' = failure
  BY <1>3
<1> QED BY <1>1, <1>2, <1>3, MarkOnward

(* No replay of the pipeline, repeated poll, exception, restart or crash   *)
(* takes back what the shadow database holds: cursors, lineage, exit       *)
(* evidence and inventories only advance, a history gains one row at a     *)
(* time and none beyond a terminal state, a journaled answer, failure or   *)
(* integrity failure is never replaced, and an intent once done is never   *)
(* executed again (_execute, _inventories, poll_once, poll_exit_once).     *)
THEOREM NothingTakenBack == Spec => [][OnlyForward]_vars
<1>1. Init => JInv /\ Marked
  <2> SUFFICES ASSUME Init PROVE Marked
    BY JInit
  <2> QED BY DEF Init, Marked
<1>2. JInv /\ Marked /\ [Next]_vars => OnlyForward /\ (JInv /\ Marked)'
  BY OnwardStep, BridgeForward, JStep, MarkedStep DEF OnlyForward
<1>3. JInv /\ Marked /\ [Next]_vars => [OnlyForward]_vars
  BY <1>2
<1> QED BY <1>1, <1>2, <1>3, PTL DEF Spec
-----------------------------------------------------------------------------
(* Who is marked as unsound.  While no process has died, an intent that    *)
(* fell is at once done: only a crash leaves it open, to be replayed.      *)
FellNow ==
    \A i \in Intents : work[i] = "open" /\ crashes = 0 /\ Fallen(i) => raised = "settled"

Unsound ==
    \A i \in Intents : integrity[i] # NONE /\ failure[i] # "mishap" =>
        State(i) = "COMPLETED" \/ (failure[i] = "replay" /\ crashes > 0)

(* An intent whose failure is settled has nothing left but its work row.   *)
LEMMA SettledStays ==
    ASSUME [Next]_vars, Executing, raised = "settled"
    PROVE  raised' = "settled" \/ Finish \/ Crash
<1>0. /\ "settled" # NONE /\ ~Running /\ ~Handling
      /\ pc \in {"execute entries", "execute exits"} /\ todo # <<>>
  BY NoneAssumption DEF Executing, Running, Handling
<1>1. CASE UNCHANGED vars
  BY <1>1 DEF vars, process
<1>2. CASE Paper
  BY <1>2 DEF Paper, AppendContext, AppendExit, process
<1>3. CASE Bridge
  BY <1>0, <1>3 DEF Bridge, RegisterEntry, PersistLineage, AdvanceCursor, LateParent,
     WaitForEntry, NoPosition, MissingInventory, RegisterExit, PersistExitEvidence,
     AdvanceExitCursor, At, Polling
<1>4. CASE Execute
  BY <1>0, <1>4 DEF Execute, Claim, RefuseOrphan, AskNetwork, JournaledError, RefuseEvidence,
     Transit, KeepEvidence, NextIs
<1>5. CASE Handle
  BY <1>0, <1>5 DEF Handle, RecordFailure, FailureConflict, FailIntent, MarkUnsound, Handled
<1>6. CASE Gather
  BY <1>0, <1>6 DEF Gather, Materialize, InventoryDone, Compare, AdvanceScan, At
<1>7. CASE Open \/ BeginCycle \/ NextStage \/ Close
  BY <1>0, <1>7 DEF Open, BeginCycle, NextStage, Close
<1>8. CASE Fault
  BY <1>0, <1>8 DEF Fault, Mishap, MaterializeFails, At
<1> QED BY <1>1, <1>2, <1>3, <1>4, <1>5, <1>6, <1>7, <1>8 DEF Next, Sidecar

LEMMA CrashesCount ==
    ASSUME [Next]_vars PROVE crashes' = crashes \/ (Crash /\ crashes' = crashes + 1)
<1>1. CASE UNCHANGED vars
  BY <1>1 DEF vars, faults
<1>2. CASE Paper
  BY <1>2 DEF Paper, AppendContext, AppendExit, faults
<1>3. CASE Bridge
  BY <1>3 DEF Bridge, RegisterEntry, PersistLineage, AdvanceCursor, LateParent, WaitForEntry,
     NoPosition, MissingInventory, RegisterExit, PersistExitEvidence, AdvanceExitCursor, faults
<1>4. CASE Execute
  BY <1>4 DEF Execute, Claim, RefuseOrphan, AskNetwork, JournaledError, RefuseEvidence,
     Transit, KeepEvidence, Finish, faults
<1>5. CASE Handle
  BY <1>5 DEF Handle, RecordFailure, FailureConflict, FailIntent, MarkUnsound, faults
<1>6. CASE Gather
  BY <1>6 DEF Gather, Materialize, InventoryDone, Compare, AdvanceScan, faults
<1>7. CASE Open \/ BeginCycle \/ NextStage \/ Close
  BY <1>7 DEF Open, BeginCycle, NextStage, Close, faults
<1>8. CASE Fault
  BY <1>8 DEF Fault, Crash, Mishap, MaterializeFails
<1> QED BY <1>1, <1>2, <1>3, <1>4, <1>5, <1>6, <1>7, <1>8 DEF Next, Sidecar

(* Only a handler makes an intent fall, and settles it by that.            *)
LEMMA FellNowStep ==
    ASSUME JInv, FellNow, [Next]_vars PROVE FellNow'
<1> SUFFICES ASSUME NEW i \in Intents, work'[i] = "open", crashes' = 0, Fallen(i)'
             PROVE  raised' = "settled"
  BY DEF FellNow
<1>0. crashes \in Nat
  BY CountAssumption DEF JInv, Kinds
<1>1. crashes = 0 /\ ~Crash
  BY <1>0, CrashesCount DEF Crash
<1>2. /\ failure' = failure \/ RecordFailure
      /\ work' = work \/ Claim \/ Finish \/ InventoryDone
      /\ hist' = hist \/ RegisterEntry \/ RegisterExit \/ Transit \/ FailIntent
  BY Recorders, Writers
<1>3. <<State(i)', failure'[i]>> \in Endings /\ failure'[i] # NONE
  BY NotFallenNext DEF Fallen
<1>4. CASE work[i] = "open" /\ Fallen(i)
  <2>1. raised = "settled"
    BY <1>1, <1>4 DEF FellNow
  <2>2. Executing /\ i = Current
    BY <1>1, <1>4 DEF JInv, Course, Alone
  <2>3. CASE Finish
    <3>1. work' = [work EXCEPT ![i] = "done"]
      BY <2>2, <2>3 DEF Finish
    <3>2. work'[i] = "done"
      BY <3>1 DEF JInv, IInv, Shape
    <3> QED BY <3>2
  <2> QED BY <1>1, <2>1, <2>2, <2>3, SettledStays
<1>5. CASE work[i] # "open"
  <2>1. work[i] = NONE
    BY <1>5, ClaimsOnward DEF JInv, IInv, Shape, Closed
  <2>2. failure[i] = NONE /\ work' # work
    BY <2>1, NoneAssumption DEF JInv, Course, Fresh
  <2>3. failure' = failure
    BY <1>2, <2>2 DEF RecordFailure, Claim, Finish, InventoryDone, book, records, journal
  <2> QED BY <1>3, <2>2, <2>3
<1>6. CASE work[i] = "open" /\ ~Fallen(i)
  <2>1. CASE FailIntent
    BY <2>1 DEF FailIntent, Settled
  <2>2. CASE RecordFailure
    <3>1. /\ Handling /\ hist' = hist /\ State(i)' = State(i)
          /\ failure[Current] = NONE /\ failure' = [failure EXCEPT ![Current] = raised]
      BY <2>2 DEF RecordFailure, State, Registered
    <3>2. i = Current
      BY <1>1, <1>6 DEF JInv, Course, Alone
    <3>3. failure[i] = NONE /\ failure'[i] = raised
      BY <3>1, <3>2 DEF JInv, Kinds
    <3>4. failure[i] # "mishap" /\ raised # "mishap"
      BY <1>3, <3>3, NoneAssumption DEF Endings
    <3>5. PICK k \in 0 .. 14 : k <= SizeOf(i) /\ Reached(i, k) /\ Cause(i, k, raised)
      BY <3>1, <3>2, <3>4, HandledCause
    <3>6. State(i) \notin Terminal
      BY <1>6, <3>5, CauseOpen DEF Reached, Justified
    <3> QED BY <1>3, <3>1, <3>6 DEF Endings, Terminal, Negative
  <2>3. CASE failure' = failure /\ ~FailIntent
    <3>1. hist'[i] = hist[i]
      <4>1. CASE Transit
        <5>1. raised = NONE /\ work[i] = "open"
          BY <1>6, <4>1 DEF Transit, NextIs, Running
        <5>2. failure[i] # NONE
          BY <1>3, <2>3
        <5>3. raised \in {failure[i], "settled"}
          BY <1>1, <5>1, <5>2 DEF JInv, Course, Alone
        <5> QED BY <5>1, <5>2, <5>3, NoneAssumption
      <4>2. CASE RegisterEntry \/ RegisterExit
        <5>1. PICK j : j = Head(todo)
          OBVIOUS
        <5>2. hist' = [hist EXCEPT ![j] = <<<<"CREATED", "row">>>>] /\ ~Registered(j) /\ todo # <<>>
          BY <4>2, <5>1 DEF RegisterEntry, RegisterExit, Create, Polling, At
        <5>3. j \in Intents
          BY <5>1, <5>2, QueueHead DEF JInv, IInv, Shape
        <5>4. work[j] = NONE
          BY <5>2, <5>3 DEF Registered, JInv, Course, Fresh
        <5>5. j # i
          BY <1>6, <5>4, NoneAssumption
        <5> QED BY <5>2, <5>5
      <4> QED BY <1>2, <2>3, <4>1, <4>2
    <3>2. Fallen(i)
      BY <2>3, <3>1 DEF Fallen, State, Registered
    <3> QED BY <1>6, <3>2
  <2> QED BY <1>2, <2>1, <2>2, <2>3
<1> QED BY <1>4, <1>5, <1>6

LEMMA UnsoundMarks ==
    ASSUME JInv, Marked, FellNow, Unsound, [Next]_vars PROVE Unsound'
<1> SUFFICES ASSUME NEW i \in Intents, integrity'[i] # NONE, failure'[i] # "mishap"
             PROVE  State(i)' = "COMPLETED" \/ (failure'[i] = "replay" /\ crashes' > 0)
  BY DEF Unsound
<1>1. failure[i] # NONE => failure'[i] = failure[i]
  BY JournalOnward
<1>2. State(i) = "COMPLETED" => State(i)' = "COMPLETED"
  <2>1. State(i) = "COMPLETED" => hist'[i] = hist[i]
    BY HistoryOnward DEF Terminal
  <2> QED BY <2>1 DEF State, Registered
<1>3. crashes \in Nat /\ (crashes > 0 => crashes' > 0)
  <2>1. crashes \in Nat
    BY CountAssumption DEF JInv, Kinds
  <2> QED BY <2>1, CrashesCount
<1>4. failure[i] # "mishap"
  BY <1>1, NoneAssumption
<1>5. CASE integrity[i] # NONE
  BY <1>1, <1>2, <1>3, <1>4, <1>5, NoneAssumption DEF Unsound
<1>6. CASE integrity[i] = NONE /\ MarkUnsound
  <2>1. /\ Handled /\ State(Current) \in Terminal /\ Suspect(Current) /\ Handling
        /\ integrity' = [integrity EXCEPT ![Current] = raised]
        /\ failure' = failure /\ hist' = hist /\ crashes' = crashes
    BY <1>6 DEF MarkUnsound, Handled, faults
  <2>2. i = Current
    BY <1>6, <2>1
  <2>3. Fallen(i) /\ raised = "replay"
    BY <1>4, <2>1, <2>2, HandledFallen
  <2>4. failure[i] = "replay" /\ work[i] = "open"
    BY <2>1, <2>2, <2>3, HandlingIntent DEF Handled
  <2>5. crashes # 0
    BY <2>3, <2>4 DEF FellNow
  <2> QED BY <1>3, <2>1, <2>4, <2>5
<1>7. CASE integrity[i] = NONE /\ (Materialize \/ MaterializeFails)
  <2>1. Sound(Current)
    BY <1>7 DEF Materialize, MaterializeFails
  <2>2. PICK c : c = Current
    OBVIOUS
  <2>3. \/ integrity' = integrity
        \/ \E r : integrity' = [integrity EXCEPT ![c] = r]
    BY <1>7, <2>2 DEF Materialize, MaterializeFails
  <2>4. DOMAIN integrity = Intents /\ integrity'[i] # NONE
    BY DEF JInv, IInv, Shape
  <2>5. c # i => integrity'[i] = integrity[i]
    BY <2>3, <2>4
  <2>6. i = Current
    BY <1>7, <2>2, <2>4, <2>5
  <2> QED BY <1>2, <2>1, <2>6 DEF Sound
<1> QED BY <1>5, <1>6, <1>7, Writers

(* Whatever the network answers, however many processes die and however    *)
(* often _execute starts again: an intent whose work row is done reached   *)
(* the verdict its journaled answers lead to, and no row of its history or *)
(* of its evidence rests on an answer that a process lost.  One that did   *)
(* not complete is marked as unsound only after a crash, for the conflict  *)
(* of the replay that had failed it (_execute's handler, :352-368).        *)
THEOREM VerdictFollowsJournalAlways == Spec => []VerdictFollowsJournal
<1> DEFINE Inv == JInv /\ Marked /\ FellNow /\ Unsound
<1>1. Inv => VerdictFollowsJournal
  <2>1. NONE # "mishap" /\ "mishap" \notin Regular
    BY NoneAssumption DEF Regular
  <2> QED BY <2>1, Followed DEF VerdictFollowsJournal, Unsound
<1>2. Init => Inv
  <2> SUFFICES ASSUME Init PROVE Marked /\ FellNow /\ Unsound
    BY JInit
  <2>1. work = [i \in Intents |-> NONE] /\ integrity = [i \in Intents |-> NONE]
    BY DEF Init
  <2> QED BY <2>1, NoneAssumption DEF Marked, FellNow, Unsound
<1>3. Inv /\ [Next]_vars => Inv'
  BY JStep, MarkedStep, FellNowStep, UnsoundMarks
<1> QED BY <1>1, <1>2, <1>3, PTL DEF Spec
=============================================================================
