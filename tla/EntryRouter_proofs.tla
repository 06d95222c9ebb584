------------------------- MODULE EntryRouter_proofs -------------------------
(***************************************************************************)
(* Proofs about EntryRouter, for any number of tracks, windows, latency,   *)
(* instants, source items and crashes: safety, the refinement of           *)
(* EntryPromise, and what the end of every entry rests on.                 *)
(***************************************************************************)
EXTENDS EntryRouter, LeastNumber, TLAPS

USE TracksAssumption, WindowAssumption, InstantAssumption, BoundAssumption

-----------------------------------------------------------------------------
(* Types of the building blocks.                                           *)

LEMMA InstantTypes ==
    /\ ReadyAt \in Nat
    /\ \A t \in Tracks : ThroughAt[t] \in Nat /\ ExpireAt(t) \in Nat \ {0}
BY DEF ReadyAt, ThroughAt, ExpireAt

LEMMA RowTypes ==
    /\ NoRow \in Rows
    /\ PendingRow \in Rows
    /\ WaitingRow \in Rows
    /\ \A t \in Tracks : Expiry(t) \in Rows
BY InstantTypes DEF NoRow, PendingRow, WaitingRow, Expiry, Row, Rows

(* Some track has the longest window: a least number of tracks without one *)
(* would have one among fewer tracks, and its own last track besides.      *)
LEMMA LongestWindow == \E t \in Tracks : \A u \in Tracks : Window[u] <= Window[t]
<1> DEFINE Longest(n) == \E t \in 1 .. n : \A u \in 1 .. n : Window[u] <= Window[t]
           Without == {n \in Tracks : ~Longest(n)}
<1>1. Without = {}
  <2> SUFFICES ASSUME Without # {} PROVE FALSE
    OBVIOUS
  <2>1. PICK m \in Without : \A y \in Without : m <= y
    <3>1. Without \subseteq Nat
      BY DEF Tracks
    <3> HIDE DEF Without
    <3> QED BY <3>1, LeastExists
  <2>2. m \in Tracks /\ m \in Nat /\ m >= 1 /\ ~Longest(m)
    BY TracksAssumption DEF Tracks
  <2>3. \A u \in 1 .. m : Window[u] \in Nat
    BY <2>2, TracksAssumption, WindowAssumption DEF Tracks
  <2>4. CASE m = 1
    BY <2>2, <2>3, <2>4
  <2>5. CASE m # 1
    <3>1. m - 1 \in Tracks /\ m - 1 < m
      BY <2>2, <2>5, TracksAssumption DEF Tracks
    <3>2. Longest(m - 1)
      <4>1. m - 1 \notin Without
        <5> HIDE DEF Without
        <5> QED BY <2>1, <2>2, <3>1
      <4> QED BY <3>1, <4>1
    <3>3. PICK t \in 1 .. m - 1 : \A u \in 1 .. m - 1 : Window[u] <= Window[t]
      BY <3>2
    <3>4. \A u \in 1 .. m : u = m \/ u \in 1 .. m - 1
      BY <2>2
    <3>5. CASE Window[m] <= Window[t]
      BY <2>2, <2>3, <3>3, <3>4, <3>5
    <3>6. CASE ~(Window[m] <= Window[t])
      <4>1. \A u \in 1 .. m : Window[u] <= Window[m]
        BY <2>2, <2>3, <3>3, <3>4, <3>6, SMTT(30)
      <4> QED BY <2>2, <4>1
    <3> QED BY <3>5, <3>6
  <2> QED BY <2>4, <2>5
<1>2. NumTracks \in Tracks
  BY TracksAssumption DEF Tracks
<1> QED BY <1>1, <1>2 DEF Tracks

(* What every item delivered carries.                                      *)
LEMMA ItemTypes ==
    ASSUME NEW i \in {NoItem, Candidate, OwnMarket} \cup Feed
    PROVE  /\ i.at \in Nat
           /\ i.kind \in {"NONE", "CANDIDATE", "MARKET", "CLOCK"}
           /\ i.price \in {"NONE", "UNUSABLE", "FILLS", "SLIPS"}
BY DEF NoItem, Candidate, OwnMarket, Item, Feed, Times

LEMMA InitInv == Init => TypeOK /\ Inductive
<1> SUFFICES ASSUME Init PROVE TypeOK /\ Inductive
  OBVIOUS
<1>1. TypeOK
  <2>1. order \in [Tracks -> Rows] /\ ledger \in [Tracks -> Rows]
        /\ route \in Rows /\ expected \in [Tracks -> Rows]
    BY RowTypes DEF Init, Undecided
  <2>2. audit \in [verdict : {"NONE", "TRADE", "SKIP"}, at : Nat]
    BY DEF Init
  <2>3. committed \in Nat /\ crashes \in 0 .. MaxCrashes
    BY DEF Init
  <2>4. item \in {NoItem, Candidate, OwnMarket} \cup Feed /\ context \in BOOLEAN
    BY DEF Init
  <2> QED BY <2>1, <2>2, <2>3, <2>4 DEF Init, TypeOK
<1>2. Inductive
  BY DEF Init, Inductive, StageInv, RoutingInv, ExpectedInv, TrackInv, HalfInv,
         SettlingInv, RouteInv, DoneInv, AuditInv, Undecided, NoRow, Row, WaitingRow,
         PendingRow, Listed
<1> QED BY <1>1, <1>2

-----------------------------------------------------------------------------
(* What the item in flight decides about a track that is still open.       *)

LEMMA FateCases ==
    ASSUME TypeOK, NEW t \in Tracks, expected[t] = Undecided, Fate(t) # Undecided
    PROVE  \/ /\ Fate(t) = Expiry(t)
              /\ item.at >= ExpireAt(t)
              /\ Cursor > OwnCursor
              /\ item.kind # "CANDIDATE"
           \/ /\ Fate(t) = Settlement(item, Cursor)
              /\ Ripe(item, Cursor)
              /\ item.at \in ReadyAt .. ThroughAt[t]
<1>1. item.at \in Nat /\ committed \in Nat
  BY ItemTypes DEF TypeOK
<1> QED BY <1>1, InstantTypes DEF Fate, Resolve, Ripe, Cursor, OwnCursor, ExpireAt

LEMMA SettlementShape ==
    ASSUME TypeOK, NEW t \in Tracks, item.at \in ReadyAt .. ThroughAt[t]
    PROVE  /\ Settlement(item, Cursor) \in Rows
           /\ Settlement(item, Cursor).state \in TerminalStates
           /\ Settlement(item, Cursor).why
                = IF Settlement(item, Cursor).state = "FILLED" THEN "FILLED" ELSE "SLIPPAGE"
           /\ Settlement(item, Cursor).at = item.at
           /\ Settlement(item, Cursor).by = Cursor
           /\ Cursor \in Nat \ {0}
BY ItemTypes DEF TypeOK, Settlement, Row, Rows, Cursor, TerminalStates

(* A ledger row that is no longer pending is an expiry or a settlement,    *)
(* and the order says the same.                                            *)
LEMMA DecidedRows ==
    ASSUME TypeOK, ExpectedInv, TrackInv, committed > 0,
           NEW t \in Tracks, ledger[t] # PendingRow
    PROVE  /\ order[t] = OrderOf(ledger[t])
           /\ \/ ledger[t] = Expiry(t)
              \/ /\ ledger[t].state \in TerminalStates
                 /\ ledger[t].why = IF ledger[t].state = "FILLED" THEN "FILLED" ELSE "SLIPPAGE"
                 /\ ledger[t].at \in ReadyAt .. ThroughAt[t]
                 /\ ledger[t].by \in 1 .. Cursor
<1>1. CASE expected[t] # Undecided
  BY <1>1 DEF TrackInv, ExpectedInv, SettlementRow, Cursor, TypeOK
<1>2. CASE expected[t] = Undecided
  <2>1. Fate(t) # Undecided /\ ledger[t] = Fate(t) /\ order[t] = OrderOf(Fate(t))
    BY <1>2 DEF TrackInv
  <2> QED BY <1>2, <2>1, FateCases, SettlementShape
<1> QED BY <1>1, <1>2

LEMMA ExpiryShape ==
    ASSUME NEW t \in Tracks
    PROVE  /\ Expiry(t).state = "REJECTED"
           /\ Expiry(t).why = "EXPIRED"
           /\ Expiry(t).at = ExpireAt(t)
           /\ Expiry(t).by = 0
           /\ Expiry(t) # PendingRow
           /\ Expiry(t) # WaitingRow
           /\ Expiry(t) # Undecided
           /\ OrderOf(Expiry(t)) = Expiry(t)
BY DEF Expiry, Row, PendingRow, WaitingRow, Undecided, NoRow, OrderOf

LEMMA OrderOfShape ==
    ASSUME NEW row \in Rows
    PROVE  /\ OrderOf(row).state = row.state
           /\ OrderOf(row).why = row.why
           /\ OrderOf(row).at = row.at
BY DEF OrderOf, Rows

(* The terminal state the ledger gives the route.                          *)
LEMMA FinalRouteShape ==
    ASSUME TypeOK, ExpectedInv, TrackInv, committed > 0, Pending = {}
    PROVE  /\ FinalRoute \in Rows
           /\ FinalRoute.state \in TerminalStates
           /\ FinalRoute # WaitingRow
<1>0. \A t \in Tracks : ledger[t] # PendingRow
  BY DEF Pending, PendingRow, Row
<1>1. CASE Settled # {}
  <2>1. PICK t \in Settled : FinalRoute = ledger[t]
    BY <1>1 DEF FinalRoute
  <2>2. t \in Tracks /\ ledger[t].by # 0
    BY DEF Settled
  <2>3. ledger[t].state \in TerminalStates
    BY <1>0, <2>2, DecidedRows, ExpiryShape
  <2> QED BY <2>1, <2>2, <2>3 DEF TypeOK, WaitingRow, Row, TerminalStates
<1>2. CASE Settled = {}
  <2>1. \A t \in Tracks : ledger[t].at = ExpireAt(t)
    <3> SUFFICES ASSUME NEW t \in Tracks PROVE ledger[t].at = ExpireAt(t)
      OBVIOUS
    <3>1. ledger[t].by = 0
      BY <1>2 DEF Settled
    <3> QED BY <1>0, <3>1, DecidedRows, ExpiryShape
  <2>2. PICK t \in Tracks : \A u \in Tracks : ExpireAt(u) <= ExpireAt(t)
    BY LongestWindow DEF ExpireAt, ThroughAt
  <2>3. LastTerminalAt \in {ledger[u].at : u \in Tracks}
    BY <2>1, <2>2 DEF LastTerminalAt
  <2>4. LastTerminalAt \in Nat
    BY <2>3, <2>1, InstantTypes
  <2> QED BY <1>2, <2>4 DEF FinalRoute, Row, Rows, TerminalStates, WaitingRow
<1> QED BY <1>1, <1>2
LEMMA FinishedRouteType ==
    ASSUME TypeOK, Inductive
    PROVE  FinishedRoute \in Rows
<1>1. CASE Unfinished
  BY <1>1 DEF FinishedRoute, TypeOK
<1>2. CASE ~Unfinished
  <2>1. Pending = {} /\ Listed # {}
    BY <1>2 DEF Unfinished
  <2>2. CASE committed > 0
    BY <1>2, <2>1, <2>2, FinalRouteShape DEF FinishedRoute, Inductive
  <2>3. CASE committed = 0
    <3>1. PICK t \in Tracks : ledger[t] # NoRow
      BY <2>1 DEF Listed, NoRow, Row
    <3>2. ledger[t] = PendingRow
      BY <2>3, <3>1 DEF Inductive, RoutingInv
    <3> QED BY <2>1, <3>2 DEF Pending, PendingRow, Row
  <2> QED BY <2>2, <2>3 DEF TypeOK
<1> QED BY <1>1, <1>2

LEMMA TypeStep ==
    ASSUME TypeOK, Inductive, [Next]_vars
    PROVE  TypeOK'
<1> USE DEF TypeOK
<1>a. /\ Row("ROUTED", "SIGNAL", SignalAt, 0) \in Rows
      /\ Row("CREATED", "ROUTED", SignalAt, 0) \in Rows
  BY DEF Row, Rows
<1>b. item.at \in Nat /\ Cursor \in Nat
  BY ItemTypes DEF Cursor
<1>c. Settlement(item, Cursor) \in Rows /\ SettledOrder \in Rows
  BY <1>b DEF Settlement, SettledOrder, OrderOf, Row, Rows
<1>d. Verdict \in [verdict : {"NONE", "TRADE", "SKIP"}, at : Nat]
  BY DEF Verdict, Rows
<1>e. ASSUME NEW i \in {NoItem, Candidate, OwnMarket} \cup Feed, NEW r
      PROVE  Dispatch(i, r) \in {"idle", "route", "context", "expire", "settle",
                                 "audit", "commit", "down"}
  BY ItemTypes DEF Dispatch
<1>1. ASSUME NEW i \in {Candidate, OwnMarket} \cup Feed, Deliver(i)
      PROVE  TypeOK'
  BY <1>1, <1>e DEF Deliver, durable
<1>2. CASE InsertRoute
  BY <1>2, <1>a DEF InsertRoute, source
<1>3. ASSUME NEW t \in Tracks, CreateOrder(t) PROVE TypeOK'
  BY <1>3, <1>a DEF CreateOrder, source
<1>4. ASSUME NEW t \in Tracks, MarkEntryPending(t) PROVE TypeOK'
  BY <1>4, RowTypes DEF MarkEntryPending, source
<1>5. CASE RouteEntryPending
  BY <1>5, RowTypes DEF RouteEntryPending, source
<1>6. ASSUME NEW t \in Tracks, InsertDeadline(t) PROVE TypeOK'
  BY <1>6, RowTypes DEF InsertDeadline, source
<1>7. CASE Routed
  BY <1>7 DEF Routed, durable, source
<1>8. CASE PersistContext
  BY <1>8 DEF PersistContext, source
<1>9. ASSUME NEW t \in Tracks, RejectExpired(t) PROVE TypeOK'
  BY <1>9, RowTypes DEF RejectExpired, source
<1>10. ASSUME NEW t \in Tracks, RecordExpired(t) PROVE TypeOK'
  BY <1>10, RowTypes DEF RecordExpired, source
<1>11. CASE FinishExpiry
  BY <1>11, FinishedRouteType DEF FinishExpiry, source
<1>12. ASSUME NEW t \in Tracks, SettleOrder(t) PROVE TypeOK'
  BY <1>12, <1>c DEF SettleOrder, source
<1>13. ASSUME NEW t \in Tracks, RecordMarketTerminal(t) PROVE TypeOK'
  BY <1>13, <1>c DEF RecordMarketTerminal, source
<1>14. CASE FinishSettlement
  BY <1>14, FinishedRouteType DEF FinishSettlement, source
<1>15. CASE RecordDecision
  BY <1>15, <1>d DEF RecordDecision, source
<1>16. CASE CommitCursor
  <2>1. \A t \in Tracks : Resolve(t, item, Cursor) \in Rows
    BY <1>c, RowTypes DEF Resolve
  <2> QED BY <1>16, <1>b, <2>1 DEF CommitCursor, durable
<1>17. CASE Crash
  BY <1>17 DEF Crash, durable
<1>18. CASE Restart
  BY <1>18, <1>e, FinishedRouteType DEF Restart, source
<1>19. CASE UNCHANGED vars
  BY <1>19 DEF vars, durable, source
<1> QED
  BY <1>1, <1>2, <1>3, <1>4, <1>5, <1>6, <1>7, <1>8, <1>9, <1>10, <1>11, <1>12,
     <1>13, <1>14, <1>15, <1>16, <1>17, <1>18, <1>19 DEF Next, Handler
-----------------------------------------------------------------------------
(* The inductive invariant, one lemma per action.                          *)

LEMMA NoItemFate ==
    ASSUME item = NoItem, NEW t \in Tracks
    PROVE  Fate(t) = expected[t]
BY InstantTypes DEF Fate, Resolve, NoItem, Item, Ripe, Undecided, NoRow

(* Between items every track is either decided or untouched.               *)
LEMMA Between ==
    ASSUME TypeOK, Inductive, item = NoItem, committed > 0, NEW t \in Tracks
    PROVE  \/ /\ expected[t] # Undecided
              /\ ledger[t] = expected[t]
              /\ order[t] = OrderOf(expected[t])
           \/ /\ expected[t] = Undecided
              /\ ledger[t] = PendingRow
              /\ order[t] = WaitingRow
BY NoItemFate DEF Inductive, TrackInv

LEMMA RowFacts ==
    /\ PendingRow.state = "PENDING" /\ PendingRow.by = 0
    /\ WaitingRow.state = "ENTRY_PENDING" /\ WaitingRow.why = "WAITING"
    /\ WaitingRow.at = SignalAt /\ WaitingRow.by = 0
    /\ NoRow.state = "NONE" /\ NoRow.by = 0
    /\ RoutedRow.state = "ROUTED"
    /\ PendingRow # NoRow /\ WaitingRow # NoRow /\ RoutedRow # NoRow
    /\ WaitingRow # RoutedRow
BY DEF PendingRow, WaitingRow, NoRow, RoutedRow, Row

LEMMA ItemKinds ==
    /\ NoItem.kind = "NONE"
    /\ Candidate.kind = "CANDIDATE"
    /\ OwnMarket.kind = "MARKET"
    /\ \A i \in Feed : i.kind \in {"MARKET", "CLOCK"}
BY DEF NoItem, Candidate, OwnMarket, Feed, Item

(* A route that no longer waits has no pending track.                      *)
LEMMA RouteTerminal ==
    ASSUME TypeOK, Inductive, committed > 0, route # WaitingRow
    PROVE  Pending = {} /\ route.state \in TerminalStates
BY FinalRouteShape DEF Inductive, RouteInv

(* The conjuncts that do not look at the stage.                            *)
LEMMA StageOnly ==
    ASSUME Inductive, UNCHANGED <<durable, committed, item, expected>>
    PROVE  /\ ExpectedInv' /\ TrackInv' /\ HalfInv' /\ SettlingInv' /\ RouteInv'
           /\ Pending' = Pending /\ Due(item.at)' = Due(item.at) /\ Listed' = Listed
           /\ \A t \in Tracks : Fate(t)' = Fate(t)
<1> USE DEF durable
<1>1. /\ Pending' = Pending /\ Due(item.at)' = Due(item.at) /\ Listed' = Listed
      /\ Eligible(item.at)' = Eligible(item.at)
  BY DEF Pending, Due, Listed, Eligible
<1>2. FinalRoute' = FinalRoute /\ Verdict' = Verdict
  BY DEF FinalRoute, Settled, LastTerminalAt, Verdict
<1>3. \A t \in Tracks : Fate(t)' = Fate(t)
  BY DEF Fate, Resolve, Cursor
<1>4. ExpectedInv'
  BY DEF Inductive, ExpectedInv, SettlementRow
<1>5. TrackInv'
  BY <1>3 DEF Inductive, TrackInv
<1>6. HalfInv' /\ SettlingInv'
  BY <1>1 DEF Inductive, HalfInv, SettlingInv
<1>7. RouteInv'
  BY <1>1, <1>2 DEF Inductive, RouteInv
<1> QED BY <1>1, <1>3, <1>4, <1>5, <1>6, <1>7

(* No step but the decision and the commit bears on AuditInv.              *)
LEMMA AuditKept ==
    ASSUME Inductive, UNCHANGED <<committed, audit, expected>>,
           stage' # "commit" \/ UNCHANGED <<stage, route>>
    PROVE  AuditInv'
BY DEF Inductive, AuditInv

LEMMA DeliverInv ==
    ASSUME TypeOK, Inductive, NEW i \in {Candidate, OwnMarket} \cup Feed, Deliver(i)
    PROVE  Inductive'
<1> USE DEF Deliver, durable
<1>0. /\ item = NoItem /\ item' = i /\ committed \in Nat
      /\ UNCHANGED <<order, ledger, route, context, audit, committed, expected>>
  BY DEF Inductive, StageInv, TypeOK
<1>1. CASE committed = 0
  <2>1. i = Candidate /\ stage' = "route"
    BY <1>1, ItemKinds DEF Dispatch
  <2>2. StageInv'
    BY <1>0, <1>1, <2>1, ItemKinds DEF StageInv
  <2>3. RoutingInv'
    BY <1>0, <1>1, <2>1 DEF Inductive, RoutingInv, Listed
  <2>4. ExpectedInv'
    BY <1>0 DEF Inductive, ExpectedInv, SettlementRow
  <2> QED BY <1>0, <1>1, <2>2, <2>3, <2>4
          DEF Inductive, TrackInv, HalfInv, SettlingInv, RouteInv, DoneInv, AuditInv
<1>2. CASE committed > 0
  <2>1. /\ i.kind \in {"MARKET", "CLOCK"}
        /\ committed = 1 => i = OwnMarket
        /\ committed > 1 => i \in Feed
    BY <1>2, <1>0, ItemKinds
  <2>2. /\ stage' \in {"route", "expire", "audit"}
        /\ stage' = "route" => i.kind = "MARKET" /\ Cursor > OwnCursor
        /\ stage' = "expire" => i.kind = "CLOCK" /\ Due(i.at) # {}
        /\ stage' = "audit" =>
             \/ i.kind = "CLOCK" /\ Due(i.at) = {}
             \/ route # WaitingRow
             \/ Cursor <= OwnCursor
    BY <1>0, <2>1, RowFacts DEF Dispatch, Cursor, OwnCursor
  <2>3. StageInv'
    BY <1>0, <1>2, <2>1, <2>2, ItemKinds DEF StageInv, Cursor, OwnCursor
  <2>4. \A t \in Tracks : /\ expected[t] # Undecided => /\ ledger[t] = expected[t]
                                                        /\ order[t] = OrderOf(expected[t])
                          /\ expected[t] = Undecided => /\ ledger[t] = PendingRow
                                                        /\ order[t] = WaitingRow
    BY <1>0, <1>2, Between
  <2>5. TrackInv'
    BY <1>0, <2>4 DEF TrackInv
  <2>6. HalfInv' /\ SettlingInv'
    <3>1. \A t \in Tracks : ledger[t] = PendingRow => order[t] = WaitingRow
      BY <1>0, <1>2, ItemKinds DEF Inductive, DoneInv
    <3>2. \A t \in Tracks : expected[t] = Undecided => ledger[t].by = 0
      BY <2>4, RowFacts
    <3> QED BY <1>0, <3>1, <3>2 DEF HalfInv, SettlingInv
  <2>7. ExpectedInv'
    BY <1>0 DEF Inductive, ExpectedInv, SettlementRow
  <2>8. RouteInv'
    BY <1>0 DEF Inductive, RouteInv, Pending, FinalRoute, Settled, LastTerminalAt, Verdict
  <2>9. DoneInv'
    <3>1. Pending = {} => route # WaitingRow
      BY <1>0, <1>2 DEF Inductive, DoneInv
    <3>2. ASSUME stage' = "audit", NEW t \in Tracks, ledger[t] = PendingRow
          PROVE  Fate(t)' = Undecided /\ order[t] = WaitingRow
      <4>1. expected[t] = Undecided /\ order[t] = WaitingRow
        BY <1>0, <1>2, <3>2, NoItemFate DEF Inductive, DoneInv
      <4>2. route = WaitingRow
        BY <1>2, <3>2, RouteTerminal, RowFacts DEF Pending
      <4>3. CASE i.kind = "CLOCK" /\ Due(i.at) = {}
        BY <4>1, <4>3, <1>0, <3>2, RowFacts, InstantTypes, ItemTypes
        DEF Fate, Resolve, Due, Pending, Ripe
      <4>4. CASE Cursor <= OwnCursor
        BY <4>1, <4>4, <1>0 DEF Fate, Resolve, Cursor
      <4> QED BY <3>2, <4>2, <4>3, <4>4, <2>2
    <3>3. i # NoItem /\ stage' # "commit"
      BY <2>1, <2>2, ItemKinds
    <3> QED BY <1>0, <3>1, <3>2, <3>3 DEF DoneInv, Pending
  <2>10. RoutingInv'
    BY <1>0, <1>2 DEF RoutingInv
  <2> QED BY <2>3, <2>5, <2>6, <2>7, <2>8, <2>9, <2>10, <2>2, <1>0, AuditKept DEF Inductive
<1> QED BY <1>0, <1>1, <1>2
(* After the candidate's item nothing is left to route.                    *)
LEMMA AllRouted ==
    ASSUME TypeOK, Inductive, committed > 0
    PROVE  /\ \A t \in Tracks : /\ order[t].state \notin {"NONE", "CREATED"}
                                /\ ledger[t].state # "NONE"
           /\ route.state \notin {"NONE", "ROUTED"}
<1>1. ASSUME NEW t \in Tracks
      PROVE  /\ order[t].state \notin {"NONE", "CREATED"}
             /\ ledger[t].state # "NONE"
  <2>1. CASE ledger[t] = PendingRow
    <3>1. CASE order[t] = WaitingRow
      BY <2>1, <3>1, RowFacts
    <3>2. CASE order[t] # WaitingRow
      <4>1. CASE expected[t] = Undecided
        <5>1. Fate(t) # Undecided /\ order[t] = OrderOf(Fate(t))
          BY <2>1, <3>2, <4>1 DEF Inductive, TrackInv
        <5>2. Fate(t) \in Rows /\ Fate(t).state \in TerminalStates
          BY <4>1, <5>1, FateCases, SettlementShape, ExpiryShape, RowTypes
          DEF TerminalStates
        <5>3. order[t].state = Fate(t).state
          BY <5>1, <5>2, OrderOfShape
        <5> QED BY <2>1, <5>2, <5>3, RowFacts DEF TerminalStates
      <4>2. CASE expected[t] # Undecided
        BY <2>1, <4>2, ExpiryShape, RowFacts
        DEF Inductive, TrackInv, ExpectedInv, SettlementRow, TerminalStates
      <4> QED BY <4>1, <4>2
    <3> QED BY <3>1, <3>2
  <2>2. CASE ledger[t] # PendingRow
    <3>1. order[t] = OrderOf(ledger[t]) /\ ledger[t].state \in {"FILLED", "REJECTED"}
      BY <2>2, DecidedRows, ExpiryShape DEF Inductive, TerminalStates
    <3>2. order[t].state = ledger[t].state
      BY <3>1, OrderOfShape DEF TypeOK
    <3> QED BY <3>1, <3>2
  <2> QED BY <2>1, <2>2
<1>2. route.state \notin {"NONE", "ROUTED"}
  BY RouteTerminal, RowFacts DEF TerminalStates
<1> QED BY <1>1, <1>2

(* The conjuncts that only speak of what follows the candidate's item.     *)
LEMMA RoutingOnly ==
    ASSUME TypeOK, Inductive, committed = 0, UNCHANGED source,
           StageInv', RoutingInv'
    PROVE  Inductive'
BY DEF Inductive, source, ExpectedInv, SettlementRow, TrackInv, HalfInv, SettlingInv,
       RouteInv, DoneInv, AuditInv

LEMMA RoutingSteps ==
    ASSUME TypeOK, Inductive,
           \/ InsertRoute
           \/ RouteEntryPending
           \/ \E t \in Tracks : CreateOrder(t) \/ MarkEntryPending(t) \/ InsertDeadline(t)
    PROVE  Inductive'
<1>1. stage = "route" /\ UNCHANGED <<source, stage>>
  BY DEF InsertRoute, RouteEntryPending, CreateOrder, MarkEntryPending, InsertDeadline
<1>a. item # NoItem
  BY <1>1, ItemKinds DEF Inductive, StageInv
<1>2. committed = 0
  BY AllRouted DEF InsertRoute, RouteEntryPending, CreateOrder, MarkEntryPending,
     InsertDeadline, IsFirst, Listed, TypeOK
<1>3. StageInv'
  BY <1>1, <1>2 DEF Inductive, StageInv, source
<1> USE DEF Inductive, RoutingInv, source, Listed
<1>4. RoutingInv'
  <2>1. CASE InsertRoute
    BY <2>1, <1>1, <1>a, <1>2, RowFacts DEF InsertRoute, RoutedRow
  <2>2. CASE RouteEntryPending
    <3>1. \A t \in Tracks : order[t] = WaitingRow
      BY <2>2, <1>2, RowFacts DEF RouteEntryPending, OrdersMarked, OrdersCreated, Row
    <3>2. Listed = {}
      BY <2>2, <1>2, RowFacts DEF RouteEntryPending
    <3> QED BY <2>2, <3>1, <1>1, <1>a, <1>2, RowFacts DEF RouteEntryPending
  <2>3. ASSUME NEW t \in Tracks, CreateOrder(t) PROVE RoutingInv'
    BY <2>3, <1>1, <1>a, <1>2, RowFacts DEF CreateOrder, IsFirst, TypeOK
  <2>4. ASSUME NEW t \in Tracks, MarkEntryPending(t) PROVE RoutingInv'
    BY <2>4, <1>1, <1>a, <1>2, RowFacts DEF MarkEntryPending, IsFirst, TypeOK
  <2>5. ASSUME NEW t \in Tracks, InsertDeadline(t) PROVE RoutingInv'
    <3>1. route = WaitingRow
      BY <2>5, <1>2, RowFacts DEF InsertDeadline
    <3> QED BY <2>5, <3>1, <1>1, <1>a, <1>2, RowFacts DEF InsertDeadline, TypeOK
  <2> QED BY <2>1, <2>2, <2>3, <2>4, <2>5
<1> QED BY <1>1, <1>2, <1>3, <1>4, RoutingOnly

LEMMA RoutedInv ==
    ASSUME TypeOK, Inductive, Routed
    PROVE  Inductive'
<1>1. stage = "route" /\ UNCHANGED <<durable, source>>
  BY DEF Routed
<1> USE DEF durable, source
<1>2. CASE item.kind = "CANDIDATE"
  <2>1. committed = 0 /\ stage' = "context" /\ Listed = Tracks
    BY <1>1, <1>2, ItemKinds DEF Routed, Inductive, StageInv, TypeOK
  <2>2. route = WaitingRow
    BY <2>1, RowFacts DEF Routed, Inductive, RoutingInv
  <2>3. StageInv'
    BY <1>1, <2>1, <1>2, ItemKinds DEF Inductive, StageInv
  <2>4. RoutingInv'
    BY <1>1, <2>1, <2>2 DEF Inductive, RoutingInv, Listed
  <2> QED BY <1>1, <2>1, <2>3, <2>4, RoutingOnly
<1>3. CASE item.kind # "CANDIDATE"
  <2>1. /\ stage' = "expire" /\ committed > 0
        /\ item.kind = "MARKET" /\ Cursor > OwnCursor /\ item # NoItem
    BY <1>1, <1>3, ItemKinds DEF Routed, Inductive, StageInv, Cursor, OwnCursor, TypeOK
  <2>2. StageInv'
    BY <1>1, <2>1 DEF Inductive, StageInv, Cursor, OwnCursor
  <2>3. RoutingInv' /\ DoneInv'
    BY <1>1, <2>1, StageOnly DEF Inductive, RoutingInv, DoneInv
  <2> QED BY <1>1, <2>1, <2>2, <2>3, StageOnly, AuditKept DEF Inductive
<1> QED BY <1>2, <1>3

LEMMA PersistContextInv ==
    ASSUME TypeOK, Inductive, PersistContext
    PROVE  Inductive'
<1>1. committed = 0 /\ stage = "context" /\ stage' = "commit" /\ UNCHANGED source
  BY DEF PersistContext, Inductive, StageInv, TypeOK
<1>2. StageInv'
  BY <1>1 DEF PersistContext, Inductive, StageInv, source
<1>3. RoutingInv'
  BY <1>1 DEF PersistContext, Inductive, RoutingInv, source, Listed
<1> QED BY <1>1, <1>2, <1>3, RoutingOnly
(* A pending track is undecided, and its row is the row that was inserted. *)
LEMMA PendingTrack ==
    ASSUME TypeOK, Inductive, committed > 0, NEW t \in Tracks
    PROVE  /\ t \in Pending <=> ledger[t] = PendingRow
           /\ t \in Pending => expected[t] = Undecided
<1>1. ledger[t] # PendingRow => ledger[t].state # "PENDING"
  BY DecidedRows, ExpiryShape DEF Inductive, TerminalStates
<1>2. ledger[t] = PendingRow => expected[t] = Undecided
  BY ExpiryShape, RowFacts DEF Inductive, TrackInv, ExpectedInv, SettlementRow, TerminalStates
<1> QED BY <1>1, <1>2, RowFacts DEF Pending

LEMMA DueFate ==
    ASSUME TypeOK, Inductive, committed > 0, Cursor > OwnCursor,
           item.kind # "CANDIDATE", NEW t \in Due(item.at)
    PROVE  /\ t \in Tracks
           /\ ledger[t] = PendingRow
           /\ expected[t] = Undecided
           /\ Fate(t) = Expiry(t)
           /\ Fate(t) # Undecided
<1>1. t \in Pending /\ t \in Tracks /\ item.at >= ExpireAt(t)
  BY DEF Due, Pending
<1> QED BY <1>1, PendingTrack, ExpiryShape
        DEF Fate, Resolve, Cursor, OwnCursor, TypeOK

(* One track is half written at a time: the first of those being handled.  *)
LEMMA OneHalf ==
    ASSUME TypeOK, Inductive, committed > 0, NEW t \in Tracks, NEW u \in Tracks,
           \/ IsFirst(t, Due(item.at))
           \/ Due(item.at) = {} /\ IsFirst(t, Eligible(item.at)),
           ledger[u] = PendingRow, order[u] # WaitingRow
    PROVE  u = t
BY DEF Inductive, HalfInv, IsFirst, Tracks

LEMMA ExpireStage ==
    ASSUME TypeOK, Inductive, stage = "expire"
    PROVE  /\ committed > 0 /\ Cursor > OwnCursor /\ item # NoItem
           /\ item.kind # "CANDIDATE"
BY ItemKinds DEF Inductive, StageInv, Cursor, OwnCursor, TypeOK

LEMMA RejectExpiredInv ==
    ASSUME TypeOK, Inductive, NEW t \in Tracks, RejectExpired(t)
    PROVE  Inductive'
<1>1. /\ committed > 0 /\ Cursor > OwnCursor /\ item # NoItem
      /\ stage = "expire" /\ UNCHANGED <<ledger, route, context, audit, source, stage>>
      /\ t \in Due(item.at) /\ IsFirst(t, Due(item.at))
      /\ order' = [order EXCEPT ![t] = Expiry(t)]
  BY ExpireStage DEF RejectExpired, IsFirst
<1>2. /\ ledger[t] = PendingRow /\ expected[t] = Undecided
      /\ Fate(t) = Expiry(t) /\ Fate(t) # Undecided
  BY <1>1, DueFate, ExpireStage
<1> USE DEF source
<1>3. \A u \in Tracks : Fate(u)' = Fate(u)
  BY <1>1 DEF Fate, Resolve, Cursor
<1>4. TrackInv'
  BY <1>1, <1>2, <1>3, ExpiryShape DEF Inductive, TrackInv, TypeOK
<1>5. HalfInv'
  BY <1>1, <1>2, ExpiryShape DEF Inductive, HalfInv, TypeOK, Due, Eligible, Pending, IsFirst
<1>6. StageInv' /\ RoutingInv' /\ ExpectedInv' /\ SettlingInv' /\ RouteInv' /\ DoneInv'
  BY <1>1 DEF Inductive, StageInv, RoutingInv, ExpectedInv, SettlementRow, SettlingInv,
     RouteInv, DoneInv, Due, Pending, Cursor, FinalRoute, Settled, LastTerminalAt, Verdict
<1> QED BY <1>1, <1>4, <1>5, <1>6, AuditKept DEF Inductive, source

LEMMA RecordExpiredInv ==
    ASSUME TypeOK, Inductive, NEW t \in Tracks, RecordExpired(t)
    PROVE  Inductive'
<1>1. /\ committed > 0 /\ Cursor > OwnCursor /\ item # NoItem
      /\ stage = "expire" /\ UNCHANGED <<order, route, context, audit, source, stage>>
      /\ t \in Due(item.at) /\ IsFirst(t, Due(item.at))
      /\ order[t] = Expiry(t)
      /\ ledger' = [ledger EXCEPT ![t] = Expiry(t)]
  BY ExpireStage DEF RecordExpired, IsFirst
<1>2. /\ ledger[t] = PendingRow /\ expected[t] = Undecided
      /\ Fate(t) = Expiry(t) /\ Fate(t) # Undecided
  BY <1>1, DueFate, ExpireStage
<1> USE DEF source
<1>3. \A u \in Tracks : Fate(u)' = Fate(u)
  BY <1>1 DEF Fate, Resolve, Cursor
<1>4. TrackInv'
  BY <1>1, <1>2, <1>3, ExpiryShape DEF Inductive, TrackInv, TypeOK
<1>5. HalfInv'
  <2>1. \A u \in Tracks : ledger'[u] = PendingRow => order[u] = WaitingRow
    BY <1>1, OneHalf, ExpiryShape DEF TypeOK
  <2> QED BY <1>1, <2>1 DEF HalfInv
<1>6. SettlingInv'
  <2>1. \A u \in Tracks : ledger[u].by # 0 => expected[u] # Undecided
    BY <1>1 DEF Inductive, SettlingInv
  <2> QED BY <1>1, <2>1, ExpiryShape DEF SettlingInv, TypeOK
<1>7. RouteInv'
  <2>1. route = WaitingRow /\ audit.verdict = "NONE" /\ context
    <3>1. t \in Pending
      BY <1>1 DEF Due
    <3> QED BY <1>1, <3>1 DEF Inductive, RouteInv
  <2> QED BY <1>1, <2>1 DEF RouteInv
<1>8. StageInv' /\ RoutingInv' /\ ExpectedInv' /\ DoneInv'
  BY <1>1 DEF Inductive, StageInv, RoutingInv, ExpectedInv, SettlementRow, DoneInv, Cursor
<1> QED BY <1>1, <1>4, <1>5, <1>6, <1>7, <1>8, AuditKept DEF Inductive, source

(* What healing or finishing a route does to the invariant.                *)
LEMMA FinishedRouteFacts ==
    ASSUME TypeOK, Inductive, committed > 0
    PROVE  /\ Pending # {} => FinishedRoute = route /\ route = WaitingRow
           /\ Pending = {} => /\ FinishedRoute = FinalRoute
                              /\ FinishedRoute # WaitingRow
                              /\ FinishedRoute.state \in TerminalStates
           /\ audit.verdict # "NONE" => FinishedRoute = route
<1>1. Listed # {}
  BY AllRouted DEF Listed, Tracks
<1>2. Pending # {} => FinishedRoute = route /\ route = WaitingRow
  BY DEF FinishedRoute, Unfinished, Inductive, RouteInv
<1>3. Pending = {} => /\ FinishedRoute = FinalRoute
                      /\ FinishedRoute # WaitingRow
                      /\ FinishedRoute.state \in TerminalStates
  BY <1>1, FinalRouteShape DEF FinishedRoute, Unfinished, Inductive
<1>4. audit.verdict # "NONE" => FinishedRoute = route
  BY <1>2, <1>3 DEF Inductive, RouteInv
<1> QED BY <1>2, <1>3, <1>4

LEMMA FinishKeeps ==
    ASSUME TypeOK, Inductive, committed > 0, route' = FinishedRoute,
           UNCHANGED <<order, ledger, context, audit, source>>
    PROVE  /\ ExpectedInv' /\ TrackInv' /\ HalfInv' /\ SettlingInv' /\ RouteInv'
           /\ RoutingInv'
           /\ Pending' = Pending
           /\ \A t \in Tracks : Fate(t)' = Fate(t)
           /\ Pending = {} => route' # WaitingRow
<1> USE DEF source
<1>1. Pending' = Pending /\ FinalRoute' = FinalRoute
  BY DEF Pending, FinalRoute, Settled, LastTerminalAt
<1>2. \A t \in Tracks : Fate(t)' = Fate(t)
  BY DEF Fate, Resolve, Cursor
<1>3. TrackInv' /\ ExpectedInv' /\ RoutingInv'
  BY <1>2 DEF Inductive, TrackInv, ExpectedInv, SettlementRow, RoutingInv
<1>3a. HalfInv' /\ SettlingInv'
  BY DEF Inductive, HalfInv, SettlingInv, Due, Eligible, Pending
<1>4. RouteInv'
  BY <1>1, FinishedRouteFacts DEF Inductive, RouteInv, Verdict
<1> QED BY <1>1, <1>2, <1>3, <1>3a, <1>4, FinishedRouteFacts

(* A pending track the item decides nothing about waits for its entry.     *)
LEMMA UndecidedWaits ==
    ASSUME TypeOK, Inductive, committed > 0, NEW t \in Tracks,
           ledger[t] = PendingRow, Fate(t) = Undecided
    PROVE  order[t] = WaitingRow
BY PendingTrack, RowFacts DEF Inductive, TrackInv

LEMMA FinishExpiryInv ==
    ASSUME TypeOK, Inductive, FinishExpiry
    PROVE  Inductive'
<1>1. /\ committed > 0 /\ Cursor > OwnCursor /\ item # NoItem /\ item.kind # "CANDIDATE"
      /\ stage = "expire" /\ Due(item.at) = {} /\ route' = FinishedRoute
      /\ UNCHANGED <<order, ledger, context, audit, source>>
      /\ stage' \in {"settle", "audit"}
  BY ExpireStage DEF FinishExpiry
<1>2. /\ item.at \in Nat /\ item.kind \in {"MARKET", "CLOCK"}
  BY <1>1, ItemTypes DEF TypeOK, Inductive, StageInv
<1>3. StageInv'
  <2>1. stage' = "settle" => Ripe(item, Cursor)
    BY <1>1 DEF FinishExpiry, Ripe
  <2>2. Due(item.at)' = {} /\ Ripe(item, Cursor)' = Ripe(item, Cursor)
    BY <1>1 DEF Due, Pending, Ripe, Cursor, source
  <2> QED BY <1>1, <2>1, <2>2 DEF Inductive, StageInv, source, Cursor
<1>4. DoneInv'
  <2>1. ASSUME stage' = "audit", NEW t \in Tracks, ledger[t] = PendingRow
        PROVE  Fate(t) = Undecided
    <3>1. t \in Pending /\ expected[t] = Undecided
      BY <1>1, <2>1, PendingTrack
    <3>2. ~(item.at >= ExpireAt(t))
      BY <1>1, <3>1 DEF Due
    <3>3. t \in Eligible(item.at)
      BY <1>2, <3>1, <3>2, InstantTypes DEF Eligible, ExpireAt
    <3>4. FinishedRoute.state # "REJECTED"
      BY <1>1, <3>1, FinishedRouteFacts, RowFacts
    <3>5. ~Ripe(item, Cursor)
      BY <1>1, <2>1, <3>3, <3>4 DEF FinishExpiry, Ripe
    <3> QED BY <3>1, <3>2, <3>5 DEF Fate, Resolve
  <2> QED BY <1>1, <2>1, FinishKeeps, UndecidedWaits DEF DoneInv, source
<1> QED BY <1>1, <1>3, <1>4, FinishKeeps, AuditKept DEF Inductive, source

LEMMA SettleStage ==
    ASSUME TypeOK, Inductive, stage = "settle"
    PROVE  /\ committed > 0 /\ Cursor > OwnCursor /\ item # NoItem
           /\ Ripe(item, Cursor) /\ item.at \in Nat /\ Due(item.at) = {}
BY ItemKinds, ItemTypes DEF Inductive, StageInv, Cursor, OwnCursor, TypeOK, Ripe

LEMMA EligibleFate ==
    ASSUME TypeOK, Inductive, stage = "settle", NEW t \in Eligible(item.at)
    PROVE  /\ t \in Tracks
           /\ ledger[t] = PendingRow
           /\ expected[t] = Undecided
           /\ Fate(t) = Settlement(item, Cursor)
           /\ item.at \in ReadyAt .. ThroughAt[t]
           /\ Fate(t) # Undecided
<1>1. t \in Pending /\ t \in Tracks /\ item.at <= ThroughAt[t]
  BY DEF Eligible, Pending
<1>2. ~(item.at >= ExpireAt(t))
  BY <1>1, SettleStage, InstantTypes DEF ExpireAt
<1>3. Fate(t) = Settlement(item, Cursor)
  BY <1>1, <1>2, PendingTrack, SettleStage, ItemKinds
  DEF Fate, Resolve, Ripe, Cursor, OwnCursor, TypeOK
<1>4. item.at \in ReadyAt .. ThroughAt[t]
  BY <1>1, SettleStage, InstantTypes DEF Ripe
<1> QED BY <1>1, <1>3, <1>4, PendingTrack, SettleStage, SettlementShape, RowFacts
        DEF Undecided, TerminalStates

(* A settlement is neither an expiry nor one of the rows inserted first.   *)
LEMMA SettledShape ==
    ASSUME TypeOK, Inductive, stage = "settle", NEW t \in Eligible(item.at)
    PROVE  /\ SettledOrder # WaitingRow /\ SettledOrder.why # "EXPIRED"
           /\ Settlement(item, Cursor) # PendingRow
           /\ SettledOrder = OrderOf(Fate(t))
BY EligibleFate, SettlementShape, OrderOfShape, RowFacts
DEF SettledOrder, TerminalStates

LEMMA SettleOrderInv ==
    ASSUME TypeOK, Inductive, NEW t \in Tracks, SettleOrder(t)
    PROVE  Inductive'
<1>1. /\ stage = "settle" /\ UNCHANGED <<ledger, route, context, audit, source, stage>>
      /\ t \in Eligible(item.at) /\ IsFirst(t, Eligible(item.at))
      /\ order' = [order EXCEPT ![t] = SettledOrder]
  BY DEF SettleOrder, IsFirst
<1>2. committed > 0 /\ item # NoItem /\ Due(item.at) = {}
  BY <1>1, SettleStage
<1>3. /\ ledger[t] = PendingRow /\ expected[t] = Undecided /\ Fate(t) # Undecided
      /\ SettledOrder = OrderOf(Fate(t)) /\ SettledOrder.why # "EXPIRED"
  BY <1>1, EligibleFate, SettledShape
<1> USE DEF source
<1>4. \A u \in Tracks : Fate(u)' = Fate(u)
  BY <1>1 DEF Fate, Resolve, Cursor
<1>5. TrackInv'
  BY <1>1, <1>3, <1>4 DEF Inductive, TrackInv, TypeOK
<1>6. HalfInv'
  BY <1>1, <1>2, <1>3 DEF Inductive, HalfInv, TypeOK, Due, Eligible, Pending, IsFirst
<1>7. StageInv' /\ RoutingInv' /\ ExpectedInv' /\ SettlingInv' /\ RouteInv' /\ DoneInv'
  BY <1>1, <1>2 DEF Inductive, StageInv, RoutingInv, ExpectedInv, SettlementRow, SettlingInv,
     RouteInv, DoneInv, Due, Pending, Cursor, FinalRoute, Settled, LastTerminalAt, Verdict,
     Ripe
<1> QED BY <1>1, <1>5, <1>6, <1>7, AuditKept DEF Inductive, source

LEMMA RecordMarketTerminalInv ==
    ASSUME TypeOK, Inductive, NEW t \in Tracks, RecordMarketTerminal(t)
    PROVE  Inductive'
<1>1. /\ stage = "settle" /\ UNCHANGED <<order, route, context, audit, source, stage>>
      /\ t \in Eligible(item.at) /\ IsFirst(t, Eligible(item.at))
      /\ order[t] = SettledOrder
      /\ ledger' = [ledger EXCEPT ![t] = Settlement(item, Cursor)]
  BY DEF RecordMarketTerminal, IsFirst
<1>2. committed > 0 /\ item # NoItem /\ Due(item.at) = {}
  BY <1>1, SettleStage
<1>3. /\ ledger[t] = PendingRow /\ expected[t] = Undecided /\ Fate(t) # Undecided
      /\ SettledOrder = OrderOf(Fate(t)) /\ Fate(t) = Settlement(item, Cursor)
      /\ Settlement(item, Cursor) # PendingRow
  BY <1>1, EligibleFate, SettledShape
<1> USE DEF source
<1>4. \A u \in Tracks : Fate(u)' = Fate(u)
  BY <1>1 DEF Fate, Resolve, Cursor
<1>5. TrackInv'
  BY <1>1, <1>3, <1>4 DEF Inductive, TrackInv, TypeOK
<1>6. HalfInv'
  <2>1. \A u \in Tracks : ledger'[u] = PendingRow => order[u] = WaitingRow
    BY <1>1, <1>2, <1>3, OneHalf DEF TypeOK
  <2> QED BY <1>1, <2>1 DEF HalfInv
<1>7. SettlingInv'
  <2>1. Settlement(item, Cursor).state \in TerminalStates
    BY <1>1, EligibleFate, SettlementShape
  <2>2. Pending' \subseteq Pending
    BY <1>1, <2>1 DEF Pending, TypeOK, TerminalStates
  <2>3. Due(item.at)' = {}
    BY <1>1, <1>2, <2>2 DEF Due
  <2> QED BY <2>3 DEF SettlingInv
<1>8. RouteInv'
  <2>1. route = WaitingRow /\ audit.verdict = "NONE" /\ context
    <3>1. t \in Pending
      BY <1>1 DEF Eligible
    <3> QED BY <1>2, <3>1 DEF Inductive, RouteInv
  <2> QED BY <1>1, <2>1 DEF RouteInv
<1>9. StageInv'
  <2>1. Settlement(item, Cursor).state \in TerminalStates
    BY <1>1, EligibleFate, SettlementShape
  <2>2. Pending' \subseteq Pending
    BY <1>1, <2>1 DEF Pending, TypeOK, TerminalStates
  <2>3. Due(item.at)' = {}
    BY <1>1, <1>2, <2>2 DEF Due
  <2> QED BY <1>1, <2>3 DEF Inductive, StageInv, Cursor, Ripe
<1>10. RoutingInv' /\ ExpectedInv' /\ DoneInv'
  BY <1>1, <1>2 DEF Inductive, RoutingInv, ExpectedInv, SettlementRow, DoneInv, Cursor
<1> QED BY <1>1, <1>5, <1>6, <1>7, <1>8, <1>9, <1>10, AuditKept DEF Inductive, source

LEMMA FinishSettlementInv ==
    ASSUME TypeOK, Inductive, FinishSettlement
    PROVE  Inductive'
<1>1. /\ stage = "settle" /\ stage' = "audit" /\ Eligible(item.at) = {}
      /\ route' = FinishedRoute
      /\ UNCHANGED <<order, ledger, context, audit, source>>
  BY DEF FinishSettlement
<1>2. committed > 0 /\ item # NoItem /\ Due(item.at) = {} /\ item.at \in Nat
  BY <1>1, SettleStage
<1>3. Pending = {}
  <2> SUFFICES ASSUME NEW t \in Pending PROVE FALSE
    OBVIOUS
  <2>1. t \in Tracks
    BY DEF Pending
  <2> QED BY <1>1, <1>2, <2>1, InstantTypes DEF Due, Eligible, ExpireAt
<1>4. DoneInv'
  BY <1>1, <1>2, <1>3, FinishKeeps, PendingTrack DEF DoneInv
<1>5. StageInv'
  BY <1>1, <1>2 DEF Inductive, StageInv, source, Cursor
<1> QED BY <1>1, <1>2, <1>4, <1>5, FinishKeeps, AuditKept DEF Inductive, source

LEMMA RecordDecisionInv ==
    ASSUME TypeOK, Inductive, RecordDecision
    PROVE  Inductive'
<1>1. /\ committed > 0 /\ stage = "audit" /\ stage' = "commit"
      /\ UNCHANGED <<order, ledger, route, context, source>>
      /\ audit' = IF Auditable THEN Verdict ELSE audit
  BY DEF RecordDecision, Inductive, RoutingInv, TypeOK
<1>2. Auditable => route # WaitingRow
  BY <1>1, RowFacts DEF Auditable, Cursor, WaitingRow, Row, TypeOK
<1>3. RouteInv'
  BY <1>1, <1>2 DEF Inductive, RouteInv, source, Pending, FinalRoute, Settled,
     LastTerminalAt, Verdict
<1>4. StageInv' /\ RoutingInv' /\ ExpectedInv' /\ TrackInv' /\ HalfInv' /\ SettlingInv' /\ DoneInv'
  BY <1>1 DEF Inductive, StageInv, RoutingInv, ExpectedInv, SettlementRow, TrackInv,
     HalfInv, SettlingInv, DoneInv, source, Cursor, Due, Eligible, Pending, Fate, Resolve
<1>5. AuditInv'
  <2>1. (\A t \in Tracks : expected[t] # Undecided) => audit'.verdict # "NONE"
    BY <1>1 DEF Inductive, AuditInv, Verdict
  <2>2. ASSUME route # WaitingRow PROVE audit'.verdict # "NONE"
    <3>1. Pending = {} /\ route = FinalRoute
      BY <1>1, <2>2 DEF Inductive, RouteInv
    <3>2. CASE Settled = {}
      BY <1>1, <3>1, <3>2 DEF FinalRoute, Row, Auditable, Verdict
    <3>3. CASE Settled # {}
      <4>1. PICK t \in Settled : route = ledger[t]
        BY <3>1, <3>3 DEF FinalRoute
      <4>2. t \in Tracks /\ ledger[t].by # 0 /\ ledger[t] # PendingRow
        BY <4>1, RowFacts DEF Settled
      <4>3. CASE expected[t] = Undecided
        <5>1. ledger[t] = Fate(t) /\ Fate(t) # Undecided
          BY <1>1, <4>2, <4>3 DEF Inductive, TrackInv
        <5>2. Fate(t) = Settlement(item, Cursor) /\ Ripe(item, Cursor)
          BY <4>2, <4>3, <5>1, FateCases, ExpiryShape
        <5> QED BY <1>1, <4>1, <5>1, <5>2 DEF Ripe, Settlement, Row, Auditable, Verdict
      <4>4. CASE expected[t] # Undecided
        <5>1. ledger[t] = expected[t]
          BY <1>1, <4>2, <4>4 DEF Inductive, TrackInv
        <5>2. \A u \in Tracks : expected[u] # Undecided
          BY <4>2, <5>1 DEF Inductive, ExpectedInv
        <5> QED BY <2>1, <5>2
      <4> QED BY <4>3, <4>4
    <3> QED BY <3>2, <3>3
  <2> QED BY <1>1, <2>1, <2>2 DEF AuditInv, source
<1> QED BY <1>3, <1>4, <1>5 DEF Inductive

(* Every track's fate is sound, and only one observation settles tracks.   *)
LEMMA FatesSound ==
    ASSUME TypeOK, Inductive
    PROVE  /\ \A t \in Tracks :
                \/ Fate(t) \in {Undecided, Expiry(t)}
                \/ /\ Fate(t).state \in TerminalStates
                   /\ Fate(t).why = IF Fate(t).state = "FILLED" THEN "FILLED" ELSE "SLIPPAGE"
                   /\ Fate(t).at \in ReadyAt .. ThroughAt[t]
                   /\ Fate(t).by \in 1 .. Cursor
           /\ \A t, u \in Tracks :
                Fate(t).by # 0 => /\ Fate(u) # Undecided
                                  /\ Fate(u).by # 0 => Fate(u) = Fate(t)
<1>1. \A t \in Tracks : expected[t] # Undecided => Fate(t) = expected[t]
  BY DEF Fate, Resolve
<1>2. ASSUME NEW t \in Tracks
      PROVE  \/ Fate(t) \in {Undecided, Expiry(t)}
             \/ /\ Fate(t).state \in TerminalStates
                /\ Fate(t).why = IF Fate(t).state = "FILLED" THEN "FILLED" ELSE "SLIPPAGE"
                /\ Fate(t).at \in ReadyAt .. ThroughAt[t]
                /\ Fate(t).by \in 1 .. Cursor
  <2>1. CASE expected[t] # Undecided
    BY <1>1, <2>1 DEF Inductive, ExpectedInv, SettlementRow, Cursor, TypeOK
  <2>2. CASE expected[t] = Undecided
    BY <2>2, FateCases, SettlementShape
  <2> QED BY <2>1, <2>2
<1>3. ASSUME NEW t \in Tracks, NEW u \in Tracks, Fate(t).by # 0
      PROVE  /\ Fate(u) # Undecided
             /\ Fate(u).by # 0 => Fate(u) = Fate(t)
  <2>1. CASE expected[t] # Undecided
    BY <1>1, <1>3, <2>1 DEF Inductive, ExpectedInv
  <2>2. CASE expected[t] = Undecided
    <3>1. Fate(t) = Settlement(item, Cursor) /\ Ripe(item, Cursor)
      BY <1>3, <2>2, FateCases, ExpiryShape, RowFacts DEF Undecided
    <3>2. CASE expected[u] # Undecided
      <4>1. expected[u].by = 0
        BY <2>2 DEF Inductive, ExpectedInv
      <4> QED BY <1>1, <3>2, <4>1
    <3>3. CASE expected[u] = Undecided
      <4>1. Fate(u) = Expiry(u) \/ Fate(u) = Settlement(item, Cursor)
        BY <3>1, <3>3 DEF Fate, Resolve, Ripe, Cursor, OwnCursor, TypeOK
      <4>2. Fate(t) # Undecided
        BY <1>3, RowFacts DEF Undecided
      <4> QED BY <3>1, <4>1, <4>2, ExpiryShape
    <3> QED BY <3>2, <3>3
  <2> QED BY <2>1, <2>2
<1> QED BY <1>2, <1>3

LEMMA CommitCursorInv ==
    ASSUME TypeOK, Inductive, CommitCursor
    PROVE  Inductive'
<1>1. /\ stage = "commit" /\ stage' = "idle" /\ item' = NoItem
      /\ committed' = committed + 1 /\ committed' = Cursor /\ committed \in Nat
      /\ \A t \in Tracks : expected'[t] = Fate(t)
      /\ UNCHANGED <<order, ledger, route, context, audit>>
  BY DEF CommitCursor, Cursor, Fate, durable, TypeOK
<1>2. \A t \in Tracks : Fate(t)' = expected'[t]
  BY <1>1, InstantTypes DEF Fate, Resolve, NoItem, Item, Ripe, Undecided, NoRow, TypeOK
<1>3. ASSUME NEW t \in Tracks
      PROVE  \/ /\ Fate(t) = Undecided /\ ledger[t] = PendingRow /\ order[t] = WaitingRow
             \/ /\ Fate(t) # Undecided /\ ledger[t] = Fate(t) /\ order[t] = OrderOf(Fate(t))
                /\ ledger[t] # PendingRow
  <2>1. CASE committed = 0
    <3>1. expected[t] = Undecided /\ order[t] = WaitingRow /\ ledger[t] = PendingRow
      BY <1>1, <2>1, RowFacts DEF Inductive, RoutingInv, Listed
    <3>2. Fate(t) = expected[t]
      BY <2>1 DEF Fate, Resolve, Cursor, OwnCursor
    <3> QED BY <3>1, <3>2
  <2>2. CASE committed > 0
    <3>1. CASE ledger[t] = PendingRow
      BY <1>1, <2>2, <3>1 DEF Inductive, DoneInv
    <3>2. CASE ledger[t] # PendingRow
      <4>1. expected[t] # Undecided => Fate(t) = expected[t]
        BY DEF Fate, Resolve
      <4> QED BY <2>2, <3>2, <4>1 DEF Inductive, TrackInv
    <3> QED BY <3>1, <3>2
  <2> QED BY <1>1, <2>1, <2>2
<1>4. StageInv'
  BY <1>1, ItemKinds DEF StageInv
<1>5. RoutingInv'
  BY <1>1 DEF RoutingInv
<1>6. ExpectedInv'
  BY <1>1, FatesSound DEF ExpectedInv, SettlementRow, Undecided, NoRow, Expiry, Row,
     ExpireAt, ThroughAt, ReadyAt
<1>7. TrackInv'
  BY <1>1, <1>3 DEF TrackInv
<1>8. HalfInv' /\ SettlingInv'
  BY <1>1, <1>3, RowFacts DEF HalfInv, SettlingInv
<1>9. RouteInv' /\ DoneInv'
  <2>1. CASE committed = 0
    <3>1. route = WaitingRow /\ context /\ audit.verdict = "NONE" /\ Listed = Tracks
      BY <1>1, <2>1 DEF Inductive, RoutingInv
    <3>2. Pending # {}
      <4>1. PICK t \in Tracks : TRUE
        BY DEF Tracks
      <4>2. expected[t] = Undecided /\ Fate(t) = expected[t]
        BY <2>1 DEF Inductive, RoutingInv, Fate, Resolve, Cursor, OwnCursor
      <4> QED BY <4>1, <4>2, <1>3, RowFacts DEF Pending
    <3> QED BY <1>1, <1>2, <1>3, <3>1, <3>2 DEF RouteInv, DoneInv, Pending
  <2>2. CASE committed > 0
    BY <1>1, <1>2, <1>3, <2>2 DEF Inductive, RouteInv, DoneInv, Pending, FinalRoute,
       Settled, LastTerminalAt, Verdict
  <2> QED BY <1>1, <2>1, <2>2
<1>10. AuditInv'
  <2>1. ASSUME \A t \in Tracks : expected'[t] # Undecided
        PROVE  audit.verdict # "NONE"
    <3>1. \A t \in Tracks : ledger[t] # PendingRow
      BY <1>1, <1>3, <2>1
    <3>2. CASE committed = 0
      <4>1. PICK t \in Tracks : TRUE
        BY DEF Tracks
      <4>2. ledger[t] = PendingRow
        BY <1>1, <3>2, <4>1, RowFacts DEF Inductive, RoutingInv, Listed
      <4> QED BY <3>1, <4>2
    <3>3. CASE committed > 0
      <4>1. Pending = {}
        BY <3>1, <3>3, PendingTrack DEF Pending
      <4> QED BY <1>1, <3>3, <4>1 DEF Inductive, DoneInv, AuditInv
    <3> QED BY <1>1, <3>2, <3>3
  <2> QED BY <1>1, <2>1 DEF AuditInv
<1> QED BY <1>4, <1>5, <1>6, <1>7, <1>8, <1>9, <1>10 DEF Inductive

LEMMA CrashInv ==
    ASSUME TypeOK, Inductive, Crash
    PROVE  Inductive'
<1>1. stage' = "down" /\ UNCHANGED <<durable, committed, item, expected>>
  BY DEF Crash
<1>2. StageInv' /\ RoutingInv'
  BY <1>1, StageOnly DEF Inductive, StageInv, RoutingInv, durable, Cursor
<1>3. DoneInv'
  BY <1>1, StageOnly DEF Inductive, DoneInv, durable
<1> QED BY <1>1, <1>2, <1>3, StageOnly, AuditKept DEF Inductive, durable

LEMMA RestartInv ==
    ASSUME TypeOK, Inductive, Restart
    PROVE  Inductive'
<1>1. /\ stage = "down" /\ route' = FinishedRoute /\ stage' = Dispatch(item, FinishedRoute)
      /\ UNCHANGED <<order, ledger, context, audit, source>> /\ committed \in Nat
  BY DEF Restart, TypeOK
<1>2. CASE committed = 0
  <2>1. FinishedRoute = route
    <3>1. ASSUME NEW t \in Tracks, ledger[t].state # "NONE" PROVE t \in Pending
      BY <1>2, <3>1, RowFacts DEF Inductive, RoutingInv, Pending
    <3> QED BY <3>1 DEF FinishedRoute, Unfinished, Listed
  <2>2. item \in {NoItem, Candidate}
    BY <1>2 DEF Inductive, StageInv
  <2>3. /\ item = NoItem => stage' = "idle"
        /\ item = Candidate => stage' = "route"
        /\ NoItem # Candidate
    BY <1>1, ItemKinds DEF Dispatch
  <2>4. StageInv'
    BY <1>1, <1>2, <2>2, <2>3 DEF Inductive, StageInv, source
  <2>5. RoutingInv'
    BY <1>1, <1>2, <2>1, <2>2, <2>3 DEF Inductive, RoutingInv, Listed, source
  <2> QED BY <1>1, <1>2, <2>4, <2>5, RoutingOnly
<1>3. CASE committed > 0
  <2>1. \/ item = NoItem
        \/ /\ item # NoItem /\ item.kind \in {"MARKET", "CLOCK"} /\ item.at \in Nat
           /\ committed = 1 => item = OwnMarket
           /\ committed > 1 => item \in Feed
    BY <1>3, ItemKinds, ItemTypes DEF Inductive, StageInv, TypeOK
  <2>2. /\ stage' \in {"idle", "route", "expire", "audit"}
        /\ stage' = "idle" <=> item = NoItem
        /\ stage' = "route" => item.kind = "MARKET" /\ Cursor > OwnCursor
        /\ stage' = "expire" => item.kind = "CLOCK" /\ Due(item.at) # {}
        /\ stage' = "audit" =>
             \/ item.kind = "CLOCK" /\ Due(item.at) = {}
             \/ FinishedRoute # WaitingRow
             \/ Cursor <= OwnCursor
    BY <1>1, <2>1, RowFacts, ItemKinds DEF Dispatch, Cursor, OwnCursor
  <2>3. StageInv'
    BY <1>1, <1>3, <2>1, <2>2, ItemKinds DEF Inductive, StageInv, Cursor, OwnCursor, source
  <2>4. DoneInv'
    <3>1. ASSUME item # NoItem, stage' = "audit", NEW t \in Tracks, ledger[t] = PendingRow
          PROVE  Fate(t) = Undecided
      <4>1. t \in Pending /\ expected[t] = Undecided
        BY <1>3, <3>1, PendingTrack
      <4>2. FinishedRoute = WaitingRow
        BY <1>3, <4>1, FinishedRouteFacts
      <4>3. CASE item.kind = "CLOCK" /\ Due(item.at) = {}
        BY <4>1, <4>3, InstantTypes DEF Fate, Resolve, Due, Ripe
      <4>4. CASE Cursor <= OwnCursor
        BY <4>1, <4>4 DEF Fate, Resolve
      <4> QED BY <3>1, <4>2, <4>3, <4>4, <2>2
    <3>2. item = NoItem => \A t \in Tracks : ledger[t] = PendingRow => Fate(t) = Undecided
      BY <1>3 DEF Inductive, DoneInv
    <3>3. stage' # "commit"
      BY <2>2
    <3> QED BY <1>1, <1>3, <3>1, <3>2, <3>3, FinishKeeps, UndecidedWaits DEF DoneInv, source
  <2> QED BY <1>1, <1>3, <2>2, <2>3, <2>4, FinishKeeps, AuditKept DEF Inductive, source
<1> QED BY <1>1, <1>2, <1>3

LEMMA InductiveStep ==
    ASSUME TypeOK, Inductive, [Next]_vars
    PROVE  Inductive'
<1>1. CASE UNCHANGED vars
  <2>1. UNCHANGED <<durable, committed, item, expected, stage>>
    BY <1>1 DEF vars, source
  <2>2. StageInv' /\ RoutingInv'
    BY <2>1, StageOnly DEF Inductive, StageInv, RoutingInv, durable, Cursor, Ripe
  <2>3. DoneInv'
    BY <2>1, StageOnly DEF Inductive, DoneInv, durable
  <2> QED BY <2>1, <2>2, <2>3, StageOnly, AuditKept DEF Inductive, durable
<1> QED
  BY <1>1, DeliverInv, RoutingSteps, RoutedInv, PersistContextInv, RejectExpiredInv,
     RecordExpiredInv, FinishExpiryInv, SettleOrderInv, RecordMarketTerminalInv,
     FinishSettlementInv, RecordDecisionInv, CommitCursorInv, CrashInv, RestartInv
  DEF Next, Handler

-----------------------------------------------------------------------------
(* Every reachable state has the types of TypeOK and satisfies the         *)
(* inductive invariant.  Neither is inductive alone: the types of the      *)
(* route's terminal row depend on the rows that the invariant allows.      *)
THEOREM Invariance == Spec => [](TypeOK /\ Inductive)
<1>1. Init => TypeOK /\ Inductive
  BY InitInv
<1>2. TypeOK /\ Inductive /\ [Next]_vars => (TypeOK /\ Inductive)'
  BY TypeStep, InductiveStep
<1> QED BY <1>1, <1>2, PTL DEF Spec

(* The tables, the cursor, the item and the stage keep their types.        *)
THEOREM TypeCorrect == Spec => []TypeOK
BY Invariance, PTL

(* The inductive invariant alone, as the runs check it.                    *)
THEOREM InductiveHolds == Spec => []Inductive
BY Invariance, PTL

-----------------------------------------------------------------------------
(* What the invariant says of a track whose ledger row is written.         *)
LEMMA WrittenRow ==
    ASSUME TypeOK, Inductive, NEW t \in Tracks, ledger[t] \notin {NoRow, PendingRow}
    PROVE  /\ committed > 0
           /\ ledger[t] = Fate(t) /\ Fate(t) # Undecided
           /\ order[t] = OrderOf(ledger[t])
           /\ ledger[t].state \in TerminalStates
           /\ order[t].state = ledger[t].state
           /\ order[t].why = ledger[t].why
           /\ order[t].at = ledger[t].at
           /\ ledger[t].by = 0 <=> ledger[t].why = "EXPIRED"
           /\ ledger[t].state = "FILLED" => ledger[t].by # 0
<1>1. committed > 0
  BY DEF Inductive, RoutingInv, TypeOK
<1>2. ledger[t] = Fate(t) /\ Fate(t) # Undecided
  <2>1. expected[t] # Undecided => Fate(t) = expected[t]
    BY DEF Fate, Resolve
  <2> QED BY <1>1, <2>1 DEF Inductive, TrackInv
<1>3. /\ order[t].state = ledger[t].state
      /\ order[t].why = ledger[t].why
      /\ order[t].at = ledger[t].at
  BY <1>1, DecidedRows, OrderOfShape DEF Inductive, TypeOK
<1>4. /\ ledger[t].state \in TerminalStates
      /\ ledger[t].by = 0 <=> ledger[t].why = "EXPIRED"
      /\ ledger[t].state = "FILLED" => ledger[t].by # 0
  BY <1>1, DecidedRows, ExpiryShape DEF Inductive, TerminalStates, TypeOK
<1>5. order[t] = OrderOf(ledger[t])
  BY <1>1, DecidedRows DEF Inductive
<1> QED BY <1>1, <1>2, <1>3, <1>4, <1>5

(* A track whose row is not written has an order that waits, or that the   *)
(* item in flight has just ended.                                          *)
LEMMA UnwrittenRow ==
    ASSUME TypeOK, Inductive, NEW t \in Tracks, order[t].state \in TerminalStates,
           ledger[t].state \notin TerminalStates
    PROVE  /\ committed > 0
           /\ ledger[t] = PendingRow /\ order[t] # WaitingRow
           /\ expected[t] = Undecided /\ Fate(t) # Undecided
           /\ order[t] = OrderOf(Fate(t))
<1>1. committed > 0
  BY RowFacts DEF Inductive, RoutingInv, TypeOK, TerminalStates, Row
<1>2. ledger[t] = PendingRow
  BY <1>1, WrittenRow, AllRouted, RowFacts
<1>3. order[t] # WaitingRow
  BY RowFacts DEF TerminalStates
<1>4. expected[t] = Undecided
  BY <1>1, <1>2, PendingTrack
<1> QED BY <1>1, <1>2, <1>3, <1>4 DEF Inductive, TrackInv

LEMMA FollowsFromInvariant ==
    ASSUME TypeOK, Inductive
    PROVE  LedgerFollowsLifecycle
<1>1. ASSUME NEW t \in Tracks, ledger[t].state \in TerminalStates
      PROVE  /\ order[t].state = ledger[t].state
             /\ order[t].why = ledger[t].why
             /\ order[t].at = ledger[t].at
  BY <1>1, WrittenRow, RowFacts DEF TerminalStates
<1>2. ASSUME NEW t \in HalfWritten, NEW u \in HalfWritten PROVE t = u
  <2>1. /\ t \in Tracks /\ u \in Tracks /\ committed > 0
        /\ ledger[t] = PendingRow /\ order[t] # WaitingRow
        /\ ledger[u] = PendingRow /\ order[u] # WaitingRow
    BY UnwrittenRow DEF HalfWritten
  <2>2. \/ IsFirst(t, Due(item.at))
        \/ Due(item.at) = {} /\ IsFirst(t, Eligible(item.at))
    BY <2>1 DEF Inductive, HalfInv
  <2> QED BY <2>1, <2>2, OneHalf
<1>3. ASSUME item = NoItem, NEW t \in HalfWritten PROVE FALSE
  BY <1>3, UnwrittenRow DEF HalfWritten, Inductive, DoneInv
<1> QED BY <1>1, <1>2, <1>3 DEF LedgerFollowsLifecycle

(* Lifecycle and ledger agree on every settled track, and at most one      *)
(* track is between its two transactions.                                  *)
THEOREM LedgerAgreement == Spec => []LedgerFollowsLifecycle
BY Invariance, FollowsFromInvariant, PTL

LEMMA DeterminismFromInvariant ==
    ASSUME TypeOK, Inductive
    PROVE  ReplayDeterminism
<1> SUFFICES ASSUME item = NoItem, NEW t \in Tracks
             PROVE  ledger[t] = IF expected[t] # Undecided THEN expected[t]
                                ELSE IF committed = 0 THEN NoRow
                                ELSE PendingRow
  BY DEF ReplayDeterminism
<1>1. CASE committed = 0
  BY <1>1, RowFacts DEF Inductive, RoutingInv, Listed
<1>2. CASE committed > 0
  BY <1>2, Between
<1> QED BY <1>1, <1>2 DEF TypeOK

(* Whatever the crashes, the committed items alone decide every track:     *)
(* exactly-once application of each source item.                           *)
THEOREM Determinism == Spec => []ReplayDeterminism
BY Invariance, DeterminismFromInvariant, PTL

(* All the tracks that observations settled carry the same row.            *)
LEMMA SettledEqual ==
    ASSUME TypeOK, Inductive, NEW t \in Settled, NEW u \in Settled
    PROVE  ledger[t] = ledger[u]
<1>1. /\ t \in Tracks /\ u \in Tracks /\ ledger[t].by # 0 /\ ledger[u].by # 0
      /\ ledger[t] \notin {NoRow, PendingRow} /\ ledger[u] \notin {NoRow, PendingRow}
  BY RowFacts DEF Settled
<1> QED BY <1>1, WrittenRow, FatesSound

(* Outside Pending, and once the candidate is routed, rows are written.    *)
LEMMA NotPendingWritten ==
    ASSUME TypeOK, Inductive, committed > 0, Pending = {}, NEW t \in Tracks
    PROVE  ledger[t] \notin {NoRow, PendingRow}
BY PendingTrack, AllRouted, RowFacts

LEMMA RouteOutcome ==
    ASSUME TypeOK, Inductive, committed > 0, Pending = {}
    PROVE  FinalRoute.state = "FILLED" <=> \E t \in Tracks : ledger[t].state = "FILLED"
<1>1. ASSUME NEW t \in Tracks, ledger[t].state = "FILLED" PROVE FinalRoute.state = "FILLED"
  <2>1. t \in Settled
    BY <1>1, WrittenRow, NotPendingWritten DEF Settled
  <2>2. PICK u \in Settled : FinalRoute = ledger[u]
    BY <2>1 DEF FinalRoute
  <2> QED BY <1>1, <2>1, <2>2, SettledEqual
<1>2. ASSUME FinalRoute.state = "FILLED" PROVE \E t \in Tracks : ledger[t].state = "FILLED"
  <2>1. Settled # {}
    BY <1>2 DEF FinalRoute, Row
  <2>2. PICK u \in Settled : FinalRoute = ledger[u]
    BY <2>1 DEF FinalRoute
  <2> QED BY <1>2, <2>2 DEF Settled
<1> QED BY <1>1, <1>2

LEMMA AuditedFromInvariant ==
    ASSUME TypeOK, Inductive
    PROVE  AuditedByCommit
<1> SUFFICES ASSUME item = NoItem, committed > 0
             PROVE  /\ route.state \in TerminalStates
                          <=> \A t \in Tracks : order[t].state \in TerminalStates
                    /\ route.state \in TerminalStates =>
                         /\ audit = Verdict
                         /\ audit.verdict = "TRADE"
                              <=> \E t \in Tracks : order[t].state = "FILLED"
  BY DEF AuditedByCommit
<1>1. Pending # {} => route = WaitingRow
  BY DEF Inductive, RouteInv
<1>2. Pending = {} => route = FinalRoute /\ route.state \in TerminalStates
  BY FinalRouteShape DEF Inductive, DoneInv, RouteInv
<1>3. Pending = {} => \A t \in Tracks : order[t].state \in TerminalStates
  BY NotPendingWritten, WrittenRow
<1>4. ASSUME NEW t \in Pending PROVE order[t].state \notin TerminalStates
  BY <1>4, PendingTrack, RowFacts DEF Pending, Inductive, DoneInv, TerminalStates
<1>5. ASSUME Pending = {}
      PROVE  audit = Verdict /\ (audit.verdict = "TRADE"
                                   <=> \E t \in Tracks : order[t].state = "FILLED")
  <2>1. \A t \in Tracks : expected[t] # Undecided
    BY <1>5, NotPendingWritten, WrittenRow, NoItemFate
  <2>2. audit = Verdict
    BY <2>1 DEF Inductive, AuditInv, RouteInv
  <2>3. \A t \in Tracks : order[t].state = ledger[t].state
    BY <1>5, NotPendingWritten, WrittenRow
  <2> QED BY <1>2, <1>5, <2>2, <2>3, RouteOutcome DEF Verdict
<1>6. route.state \in TerminalStates => Pending = {}
  BY <1>1, RowFacts DEF TerminalStates
<1> QED BY <1>2, <1>3, <1>4, <1>5, <1>6 DEF Pending

(* No item commits before the decision its outcome calls for is recorded.  *)
THEOREM Audited == Spec => []AuditedByCommit
BY Invariance, AuditedFromInvariant, PTL

LEMMA NeverRaisesFromInvariant ==
    ASSUME TypeOK, Inductive
    PROVE  NeverRaises
<1>1. ~FinishRaises
  <2>1. ASSUME Pending # {} PROVE route.state \notin TerminalStates
    <3>1. CASE committed = 0
      BY <3>1, RowFacts DEF Inductive, RoutingInv, TerminalStates
    <3>2. CASE committed > 0
      BY <2>1, <3>2, RouteTerminal, RowFacts DEF TerminalStates
    <3> QED BY <3>1, <3>2 DEF TypeOK
  <2>2. ASSUME ~Unfinished
        PROVE  /\ \A t \in Tracks : order[t].state = ledger[t].state
               /\ (\E t \in Tracks : ledger[t].state = "FILLED")
                    => \A t \in Settled : ledger[t].state = "FILLED"
               /\ \A t \in Tracks \ Settled : ledger[t].why = "EXPIRED"
               /\ \A t, u \in Settled : ledger[t] = ledger[u]
               /\ route.state \in TerminalStates => route = FinalRoute
    <3>1. Pending = {} /\ committed > 0
      <4>1. Pending = {} /\ Listed # {}
        BY <2>2 DEF Unfinished
      <4>2. committed = 0 => Pending = Listed
        BY RowFacts DEF Inductive, RoutingInv, Pending, Listed
      <4> QED BY <4>1, <4>2 DEF TypeOK
    <3>2. \A t \in Tracks : ledger[t] \notin {NoRow, PendingRow}
      BY <3>1, NotPendingWritten
    <3>3. \A t \in Tracks : /\ order[t].state = ledger[t].state
                            /\ t \notin Settled => ledger[t].why = "EXPIRED"
                            /\ ledger[t].state = "FILLED" => t \in Settled
      BY <3>2, WrittenRow DEF Settled
    <3>4. route.state \in TerminalStates => route = FinalRoute
      BY <3>1, RowFacts DEF Inductive, RouteInv, TerminalStates
    <3> QED BY <3>3, <3>4, SettledEqual
  <2> QED BY <2>1, <2>2 DEF FinishRaises
<1>2. ASSUME stage = "expire", NEW t \in Due(item.at)
      PROVE  OrderReplayable(t, Expiry(t))
  <2>1. /\ t \in Tracks /\ committed > 0 /\ ledger[t] = PendingRow /\ expected[t] = Undecided
        /\ Fate(t) = Expiry(t)
    BY <1>2, ExpireStage, DueFate
  <2>2. order[t] = WaitingRow \/ order[t] = Expiry(t)
    BY <2>1, ExpiryShape DEF Inductive, TrackInv
  <2> QED BY <2>1, <2>2, ExpiryShape, RowFacts
          DEF OrderReplayable, ExpireAt, ThroughAt
<1>3. ASSUME stage = "settle", NEW t \in Eligible(item.at)
      PROVE  OrderReplayable(t, SettledOrder)
  <2>1. /\ t \in Tracks /\ committed > 0 /\ ledger[t] = PendingRow /\ expected[t] = Undecided
        /\ SettledOrder = OrderOf(Fate(t)) /\ Fate(t) = Settlement(item, Cursor)
        /\ item.at \in ReadyAt .. ThroughAt[t]
    BY <1>3, EligibleFate, SettledShape, SettleStage
  <2>2. order[t] = WaitingRow \/ order[t] = SettledOrder
    BY <2>1 DEF Inductive, TrackInv
  <2>3. SettledOrder.at = item.at
    BY <2>1, SettlementShape, OrderOfShape
  <2>4. SignalAt <= item.at
    BY <2>1, InstantTypes DEF ReadyAt
  <2> QED BY <2>2, <2>3, <2>4, RowFacts DEF OrderReplayable
<1>4. ASSUME stage = "audit", Auditable
      PROVE  context /\ (audit.verdict = "NONE" \/ audit = Verdict)
  BY <1>4 DEF Inductive, RoutingInv, RouteInv, TypeOK
<1> QED BY <1>1, <1>2, <1>3, <1>4 DEF NeverRaises

(* No crash schedule reaches a state in which a fail-closed check raises   *)
(* for ever on the redelivered item.                                       *)
THEOREM FailClosedChecksPass == Spec => []NeverRaises
BY Invariance, NeverRaisesFromInvariant, PTL

-----------------------------------------------------------------------------
(* Refinement of EntryPromise.                                             *)

OpenDecision == [outcome |-> "OPEN", at |-> 0, by |-> 0]

(* An order that an observation settled names the item in flight, if some  *)
(* track is still pending.                                                 *)
LEMMA SettlerFacts ==
    ASSUME TypeOK, Inductive, committed > 0, NEW u \in Settlers, NEW t \in Tracks,
           ledger[t] = PendingRow
    PROVE  /\ stage # "idle" /\ item # NoItem
           /\ Due(item.at) = {}
           /\ Ripe(item, Cursor)
           /\ Fate(u) = Settlement(item, Cursor)
           /\ order[u] = OrderOf(Settlement(item, Cursor))
           /\ Fate(t) # Undecided
<1>1. u \in Tracks /\ order[u].why \in {"SLIPPAGE", "FILLED"}
  BY DEF Settlers
<1>2. expected[t] = Undecided
  BY PendingTrack
<1>3. expected[u] = Undecided
  <2> SUFFICES ASSUME expected[u] # Undecided PROVE FALSE
    OBVIOUS
  <2>1. order[u] = OrderOf(expected[u])
    BY <1>1 DEF Inductive, TrackInv
  <2>2. expected[u].why # "EXPIRED" /\ expected[u].by # 0
    BY <1>1, <2>1, OrderOfShape, ExpiryShape
    DEF Inductive, ExpectedInv, SettlementRow, TypeOK
  <2> QED BY <1>1, <1>2, <2>2 DEF Inductive, ExpectedInv
<1>4. order[u] # WaitingRow
  BY <1>1, RowFacts
<1>5. Fate(u) # Undecided /\ order[u] = OrderOf(Fate(u)) /\ ledger[u] \in {PendingRow, Fate(u)}
  BY <1>1, <1>3, <1>4 DEF Inductive, TrackInv
<1>6. Fate(u) = Settlement(item, Cursor) /\ Ripe(item, Cursor)
  BY <1>1, <1>3, <1>5, FateCases, ExpiryShape
<1>7. Due(item.at) = {}
  <2>1. CASE ledger[u] = PendingRow
    BY <1>1, <1>4, <2>1 DEF Inductive, HalfInv
  <2>2. CASE ledger[u] # PendingRow
    <3>1. ledger[u].by # 0
      BY <1>1, <1>3, <1>5, <1>6, <2>2, FateCases, SettlementShape, ExpiryShape
    <3> QED BY <1>1, <1>3, <3>1 DEF Inductive, SettlingInv
  <2> QED BY <2>1, <2>2
<1>8. item # NoItem /\ stage # "idle"
  BY <1>6, ItemKinds DEF Ripe, Inductive, StageInv
<1>9. Fate(t) # Undecided
  BY <1>2, <1>6, ExpiryShape, RowFacts
  DEF Fate, Resolve, Ripe, Settlement, Row, Undecided, NoRow, Cursor, OwnCursor, TypeOK
<1> QED BY <1>5, <1>6, <1>7, <1>8, <1>9

(* What the mapping shows of each track.                                   *)
LEMMA PromisedCases ==
    ASSUME TypeOK, Inductive, NEW t \in Tracks
    PROVE  /\ committed = 0 => Promised(t) = OpenDecision
           /\ committed > 0 =>
                /\ ledger[t] # PendingRow => Promised(t) = Decided(ledger[t])
                /\ ledger[t] = PendingRow /\ order[t].why = "EXPIRED"
                     => Promised(t) = Decided(Expiry(t))
                /\ ledger[t] = PendingRow /\ order[t].why # "EXPIRED" /\ Settlers = {}
                     => Promised(t) = OpenDecision
                /\ ledger[t] = PendingRow /\ order[t].why # "EXPIRED" /\ Settlers # {}
                     => Promised(t) = Decided(Settlement(item, Cursor))
<1>1. ASSUME committed = 0 PROVE Promised(t) = OpenDecision
  BY <1>1, RowFacts
  DEF Inductive, RoutingInv, Promised, Settlers, TerminalStates, Row, OpenDecision, NoRow
<1>2. ASSUME committed > 0, ledger[t] # PendingRow PROVE Promised(t) = Decided(ledger[t])
  BY <1>2, WrittenRow, AllRouted, RowFacts DEF Promised
<1>3. ASSUME committed > 0, ledger[t] = PendingRow, order[t].why = "EXPIRED"
      PROVE  Promised(t) = Decided(Expiry(t))
  <2>1. expected[t] = Undecided /\ order[t] # WaitingRow
    BY <1>3, PendingTrack, RowFacts
  <2>2. Fate(t) # Undecided /\ order[t] = OrderOf(Fate(t))
    BY <1>3, <2>1 DEF Inductive, TrackInv
  <2>3. Fate(t) = Expiry(t)
    BY <1>3, <2>1, <2>2, FateCases, SettlementShape, OrderOfShape
  <2> QED BY <1>3, <2>2, <2>3, ExpiryShape, RowFacts DEF Promised, TerminalStates
<1>4. ASSUME committed > 0, ledger[t] = PendingRow, order[t].why # "EXPIRED", Settlers = {}
      PROVE  Promised(t) = OpenDecision
  BY <1>4, RowFacts DEF Promised, TerminalStates, OpenDecision
<1>5. ASSUME committed > 0, ledger[t] = PendingRow, order[t].why # "EXPIRED", Settlers # {}
      PROVE  Promised(t) = Decided(Settlement(item, Cursor))
  <2>1. PICK u \in Settlers :
          Promised(t) = Decided([order[u] EXCEPT !.by = Cursor])
    BY <1>5, RowFacts DEF Promised, TerminalStates
  <2>2. order[u] = OrderOf(Settlement(item, Cursor))
    BY <1>5, SettlerFacts
  <2>3. [OrderOf(Settlement(item, Cursor)) EXCEPT !.by = Cursor] = Settlement(item, Cursor)
    BY DEF OrderOf, Settlement, Row
  <2> QED BY <2>1, <2>2, <2>3
<1> QED BY <1>1, <1>2, <1>3, <1>4, <1>5

(* The cases above as one state predicate, so that they can be primed.     *)
MappedDecisions ==
    \A t \in Tracks :
        /\ committed = 0 => Promised(t) = OpenDecision
        /\ committed > 0 =>
             /\ ledger[t] # PendingRow => Promised(t) = Decided(ledger[t])
             /\ ledger[t] = PendingRow /\ order[t].why = "EXPIRED"
                  => Promised(t) = Decided(Expiry(t))
             /\ ledger[t] = PendingRow /\ order[t].why # "EXPIRED" /\ Settlers = {}
                  => Promised(t) = OpenDecision
             /\ ledger[t] = PendingRow /\ order[t].why # "EXPIRED" /\ Settlers # {}
                  => Promised(t) = Decided(Settlement(item, Cursor))

LEMMA Mapped == TypeOK /\ Inductive => MappedDecisions
BY PromisedCases DEF MappedDecisions

LEMMA MappedNext == TypeOK' /\ Inductive' => MappedDecisions'
BY Mapped, PTL

LEMMA DecidedShape ==
    ASSUME NEW t \in Tracks
    PROVE  /\ Decided(Expiry(t)) = Promise!Expired(t)
           /\ Decided(Expiry(t)) # OpenDecision
           /\ Promise!Open = OpenDecision
           /\ \E o \in {"FILLED", "SLIPPED"} :
                Decided(Settlement(item, Cursor)) = Promise!Settled(o, item.at, Cursor)
           /\ Decided(Settlement(item, Cursor)) # OpenDecision
BY DEF Decided, Expiry, Settlement, Row, ExpireAt, OpenDecision,
       Promise!Expired, Promise!Open, Promise!Settled

(* Only what the lifecycle does shows: everything but RejectExpired and    *)
(* SettleOrder stutters.                                                   *)
LEMMA MappedSame ==
    ASSUME UNCHANGED <<order, ledger, committed>>
    PROVE  \A t \in Tracks : Promised(t)' = Promised(t)
BY DEF Promised, Settlers, Cursor, Decided

LEMMA PromiseRejectExpired ==
    ASSUME TypeOK, Inductive, NEW t \in Tracks, RejectExpired(t),
           MappedDecisions, MappedDecisions'
    PROVE  Promise!Expire(t) \/ \A u \in Tracks : Promised(u)' = Promised(u)
<1>1. /\ committed > 0 /\ t \in Due(item.at) /\ stage = "expire"
      /\ UNCHANGED <<ledger, source>> /\ order' = [order EXCEPT ![t] = Expiry(t)]
  BY ExpireStage DEF RejectExpired, IsFirst
<1>2. ledger[t] = PendingRow
  BY <1>1, ExpireStage, DueFate
<1>3. Settlers = {}
  BY <1>1, <1>2, SettlerFacts
<1>4. Settlers' = {}
  BY <1>1, <1>3, ExpiryShape DEF Settlers, TypeOK
<1>5. Promised(t)' = Decided(Expiry(t))
  BY <1>1, <1>2, ExpiryShape DEF MappedDecisions, source, TypeOK
<1>6. \A u \in Tracks \ {t} : Promised(u)' = Promised(u)
  BY <1>1, <1>3, <1>4 DEF MappedDecisions, source, TypeOK
<1>7. Promised(t) = OpenDecision \/ Promised(t) = Decided(Expiry(t))
  BY <1>1, <1>2, <1>3 DEF MappedDecisions
<1> QED BY <1>5, <1>6, <1>7, DecidedShape DEF Promise!Expire

LEMMA PromiseRecordExpired ==
    ASSUME TypeOK, Inductive, NEW t \in Tracks, RecordExpired(t),
           MappedDecisions, MappedDecisions'
    PROVE  \A u \in Tracks : Promised(u)' = Promised(u)
<1>1. /\ committed > 0 /\ t \in Due(item.at) /\ stage = "expire" /\ order[t] = Expiry(t)
      /\ UNCHANGED <<order, source>> /\ ledger' = [ledger EXCEPT ![t] = Expiry(t)]
  BY ExpireStage DEF RecordExpired, IsFirst
<1>2. ledger[t] = PendingRow
  BY <1>1, ExpireStage, DueFate
<1>3. Settlers = {} /\ Settlers' = {}
  BY <1>1, <1>2, SettlerFacts DEF Settlers
<1> QED BY <1>1, <1>2, <1>3, ExpiryShape DEF MappedDecisions, source, TypeOK

(* The tracks that are open in the promise when an observation settles.    *)
LEMMA SettleOpen ==
    ASSUME TypeOK, Inductive, stage = "settle", MappedDecisions, NEW u \in Tracks
    PROVE  /\ u \in Pending <=> ledger[u] = PendingRow
           /\ u \in Pending => order[u].why # "EXPIRED"
           /\ u \in Pending => item.at \in ReadyAt .. ThroughAt[u]
           /\ u \notin Pending => /\ Promised(u) = Decided(ledger[u])
                                  /\ Promised(u).outcome # "OPEN"
<1>1. committed > 0 /\ Due(item.at) = {} /\ item.at \in Nat
  BY SettleStage
<1>2. u \in Pending <=> ledger[u] = PendingRow
  BY <1>1, PendingTrack
<1>3. ASSUME u \in Pending PROVE item.at \in ReadyAt .. ThroughAt[u] /\ order[u].why # "EXPIRED"
  <2>1. item.at < ExpireAt(u)
    BY <1>1, <1>3, InstantTypes DEF Due
  <2>2. item.at >= ReadyAt
    BY SettleStage DEF Ripe
  <2>3. order[u].why # "EXPIRED"
    BY <1>1, <1>2, <1>3, RowFacts DEF Inductive, HalfInv, IsFirst
  <2> QED BY <1>1, <2>1, <2>2, <2>3, InstantTypes DEF ExpireAt
<1>4. ASSUME u \notin Pending
      PROVE  Promised(u) = Decided(ledger[u]) /\ Promised(u).outcome # "OPEN"
  <2>1. Promised(u) = Decided(ledger[u])
    BY <1>1, <1>2, <1>4 DEF MappedDecisions
  <2>2. ledger[u] \notin {NoRow, PendingRow}
    BY <1>1, <1>2, <1>4, AllRouted, RowFacts
  <2>3. ledger[u].why \in {"EXPIRED", "SLIPPAGE", "FILLED"}
    BY <1>1, <1>2, <1>4, DecidedRows, ExpiryShape DEF Inductive
  <2> QED BY <2>1, <2>3 DEF Decided
<1> QED BY <1>2, <1>3, <1>4

LEMMA PromiseSettleOrder ==
    ASSUME TypeOK, Inductive, NEW t \in Tracks, SettleOrder(t),
           MappedDecisions, MappedDecisions'
    PROVE  \/ \E o \in {"FILLED", "SLIPPED"}, at \in Times, by \in 1 .. MaxItems :
                Promise!Settle(o, at, by)
           \/ \A u \in Tracks : Promised(u)' = Promised(u)
<1>1. /\ committed > 0 /\ stage = "settle" /\ t \in Eligible(item.at) /\ t \in Pending
      /\ UNCHANGED <<ledger, source>> /\ order' = [order EXCEPT ![t] = SettledOrder]
  BY SettleStage DEF SettleOrder, IsFirst, Eligible
<1>2. SettledOrder.why \in {"SLIPPAGE", "FILLED"}
  BY <1>1, EligibleFate, SettlementShape, OrderOfShape DEF SettledOrder
<1>3. /\ Settlers' # {}
      /\ Pending' = Pending
      /\ \A u \in Pending : order'[u].why # "EXPIRED"
  BY <1>1, <1>2, SettleOpen DEF Settlers, Pending, TypeOK
<1>4. \A u \in Tracks : /\ u \in Pending => Promised(u)' = Decided(Settlement(item, Cursor))
                        /\ u \notin Pending => Promised(u)' = Promised(u)
  <2>1. Settlement(item, Cursor)' = Settlement(item, Cursor)
    BY <1>1 DEF source, Settlement, Cursor
  <2>2. ASSUME NEW u \in Tracks, u \in Pending
        PROVE  Promised(u)' = Decided(Settlement(item, Cursor))
    BY <1>1, <1>3, <2>1, <2>2, SettleOpen DEF MappedDecisions, source, Decided
  <2>3. ASSUME NEW u \in Tracks, u \notin Pending
        PROVE  Promised(u)' = Promised(u)
    BY <1>1, <2>3, SettleOpen DEF MappedDecisions, source, Decided
  <2> QED BY <2>2, <2>3
<1>5. CASE Settlers # {}
  BY <1>1, <1>4, <1>5, SettleOpen DEF MappedDecisions
<1>6. CASE Settlers = {}
  <2>1. \A u \in Tracks : /\ u \in Pending => Promised(u) = OpenDecision
                          /\ u \notin Pending => Promised(u).outcome # "OPEN"
    BY <1>1, <1>6, SettleOpen DEF MappedDecisions
  <2>2. PICK o \in {"FILLED", "SLIPPED"} :
          Decided(Settlement(item, Cursor)) = Promise!Settled(o, item.at, Cursor)
    BY DecidedShape
  <2>3. item.at \in Times /\ Cursor \in 1 .. MaxItems
    <3>1. item \in Feed /\ committed < MaxItems
      BY <1>1, SettleStage DEF Inductive, StageInv, Cursor, OwnCursor, TypeOK
    <3> QED BY <3>1 DEF Feed, Item, Cursor, TypeOK
  <2>4. Promise!OpenTracks = Pending
    BY <2>1 DEF Promise!OpenTracks, OpenDecision, Pending
  <2>5. Promise!Settle(o, item.at, Cursor)
    BY <1>1, <1>4, <2>2, <2>4, SettleOpen DEF Promise!Settle, Pending
  <2> QED BY <2>3, <2>5
<1> QED BY <1>5, <1>6

LEMMA PromiseRecordMarketTerminal ==
    ASSUME TypeOK, Inductive, NEW t \in Tracks, RecordMarketTerminal(t),
           MappedDecisions, MappedDecisions'
    PROVE  \A u \in Tracks : Promised(u)' = Promised(u)
<1>1. /\ committed > 0 /\ stage = "settle" /\ t \in Eligible(item.at)
      /\ UNCHANGED <<order, source>> /\ order[t] = SettledOrder
      /\ ledger' = [ledger EXCEPT ![t] = Settlement(item, Cursor)]
  BY SettleStage DEF RecordMarketTerminal, IsFirst
<1>2. /\ ledger[t] = PendingRow /\ Settlement(item, Cursor) # PendingRow
      /\ SettledOrder.why \in {"SLIPPAGE", "FILLED"}
  BY <1>1, EligibleFate, SettledShape, SettlementShape, OrderOfShape DEF SettledOrder
<1>3. Settlers # {} /\ Settlers' # {} /\ order[t].why # "EXPIRED"
  BY <1>1, <1>2 DEF Settlers
<1>4. Settlement(item, Cursor)' = Settlement(item, Cursor)
  BY <1>1 DEF source, Settlement, Cursor
<1>5. t \in Tracks /\ committed' = committed /\ committed \in Nat /\ committed > 0
  BY <1>1 DEF source, TypeOK
<1>6. Promised(t)' = Promised(t)
  <2>1. ledger'[t] = Settlement(item, Cursor)
    BY <1>1, <1>5 DEF TypeOK
  <2>2. Promised(t)' = Decided(Settlement(item, Cursor))
    BY <1>2, <1>5, <2>1 DEF MappedDecisions, Decided
  <2>3. Promised(t) = Decided(Settlement(item, Cursor))
    BY <1>2, <1>3, <1>5 DEF MappedDecisions
  <2> QED BY <2>2, <2>3
<1>7. ASSUME NEW u \in Tracks, u # t PROVE Promised(u)' = Promised(u)
  <2>1. ledger'[u] = ledger[u] /\ order'[u] = order[u]
    BY <1>1, <1>7 DEF TypeOK
  <2>2. Expiry(u)' = Expiry(u)
    BY DEF Expiry
  <2>3. CASE ledger[u] # PendingRow
    BY <1>5, <2>1, <2>3 DEF MappedDecisions, Decided
  <2>4. CASE ledger[u] = PendingRow /\ order[u].why = "EXPIRED"
    BY <1>5, <2>1, <2>2, <2>4 DEF MappedDecisions, Decided
  <2>5. CASE ledger[u] = PendingRow /\ order[u].why # "EXPIRED"
    BY <1>3, <1>4, <1>5, <2>1, <2>5 DEF MappedDecisions, Decided
  <2> QED BY <2>3, <2>4, <2>5
<1> QED BY <1>6, <1>7

LEMMA PromiseCommitCursor ==
    ASSUME TypeOK, Inductive, CommitCursor, MappedDecisions, MappedDecisions'
    PROVE  \A u \in Tracks : Promised(u)' = Promised(u)
<1>1. /\ stage = "commit" /\ UNCHANGED <<order, ledger>> /\ committed' = committed + 1
      /\ committed \in Nat /\ Settlers' = Settlers
  BY DEF CommitCursor, durable, Cursor, TypeOK, Settlers
<1>2. ASSUME NEW u \in Tracks, ledger[u] = PendingRow
      PROVE  order[u] = WaitingRow /\ Settlers = {}
  <2>1. CASE committed = 0
    BY <1>1, <2>1, RowFacts DEF Inductive, RoutingInv, Settlers
  <2>2. CASE committed > 0
    BY <1>1, <1>2, <2>2, SettlerFacts DEF Inductive, DoneInv
  <2> QED BY <1>1, <2>1, <2>2
<1>3. ASSUME NEW u \in Tracks PROVE Promised(u)' = Promised(u)
  <2>1. CASE ledger[u] = PendingRow
    BY <1>1, <1>2, <2>1, RowFacts DEF MappedDecisions
  <2>2. CASE ledger[u] # PendingRow
    <3>1. committed > 0
      BY <1>1, <2>2, RowFacts DEF Inductive, RoutingInv, Listed
    <3>2. Promised(u) = Decided(ledger[u]) /\ ledger'[u] # PendingRow /\ committed' > 0
      BY <1>1, <2>2, <3>1 DEF MappedDecisions
    <3>3. Promised(u)' = Decided(ledger'[u])
      BY <3>2 DEF MappedDecisions
    <3> QED BY <1>1, <3>2, <3>3
  <2> QED BY <2>1, <2>2
<1> QED BY <1>3

(* Every step of the router is a step of the promise or a stutter.         *)
LEMMA PromiseStep ==
    ASSUME TypeOK, Inductive, [Next]_vars, MappedDecisions, MappedDecisions'
    PROVE  [Promise!Next]_[t \in Tracks |-> Promised(t)]
<1> SUFFICES Promise!Next \/ \A t \in Tracks : Promised(t)' = Promised(t)
  OBVIOUS
<1>1. CASE UNCHANGED <<order, ledger, committed>>
  BY <1>1, MappedSame
<1>2. ASSUME stage = "route", committed = 0, committed' = 0
      PROVE  \A t \in Tracks : Promised(t)' = Promised(t)
  BY <1>2 DEF MappedDecisions, OpenDecision
<1>3. CASE \E t \in Tracks : CreateOrder(t) \/ MarkEntryPending(t) \/ InsertDeadline(t)
  <2>1. committed = 0 /\ committed' = committed /\ stage = "route"
    BY <1>3, AllRouted DEF CreateOrder, MarkEntryPending, InsertDeadline, IsFirst, Listed,
       source, TypeOK
  <2> QED BY <1>2, <2>1
<1>4. ASSUME NEW t \in Tracks, RejectExpired(t)
      PROVE  Promise!Next \/ \A u \in Tracks : Promised(u)' = Promised(u)
  BY <1>4, PromiseRejectExpired DEF Promise!Next
<1>5. ASSUME NEW t \in Tracks, SettleOrder(t)
      PROVE  Promise!Next \/ \A u \in Tracks : Promised(u)' = Promised(u)
  BY <1>5, PromiseSettleOrder DEF Promise!Next
<1>6. CASE CommitCursor
  BY <1>6, PromiseCommitCursor
<1>7. CASE \/ \E i \in {Candidate, OwnMarket} \cup Feed : Deliver(i)
           \/ InsertRoute \/ RouteEntryPending \/ Routed \/ PersistContext
           \/ FinishExpiry \/ FinishSettlement \/ RecordDecision \/ Crash \/ Restart
           \/ UNCHANGED vars
  <2>1. UNCHANGED <<order, ledger, committed>>
    BY <1>7 DEF Deliver, InsertRoute, RouteEntryPending, Routed, PersistContext, FinishExpiry,
       FinishSettlement, RecordDecision, Crash, Restart, vars, durable, source
  <2> QED BY <1>1, <2>1
<1> QED
  BY <1>3, <1>4, <1>5, <1>6, <1>7, PromiseRecordExpired, PromiseRecordMarketTerminal
  DEF Next, Handler

(* The router implements the promise: each track expires alone, or is      *)
(* settled with all its open siblings by one observation inside all their  *)
(* windows, in spite of the per-row commits, crashes and redeliveries.     *)
THEOREM Implements == Spec => EntryPromised
<1>1. Init => Promise!Init
  <2> SUFFICES ASSUME Init PROVE Promise!Init
    OBVIOUS
  <2>1. committed = 0
    BY DEF Init
  <2> QED BY <2>1, InitInv, PromisedCases DEF Promise!Init, Promise!Open, OpenDecision
<1>2. TypeOK /\ Inductive /\ TypeOK' /\ Inductive' /\ [Next]_vars
        => [Promise!Next]_[t \in Tracks |-> Promised(t)]
  BY PromiseStep, Mapped, MappedNext
<1> QED BY <1>1, <1>2, Invariance, PTL DEF Spec, EntryPromised, Promise!Spec
-----------------------------------------------------------------------------
(***************************************************************************)
(* What EntryEnds rests on, short of the fairness that turns it into an    *)
(* eventuality: rows only go forward, so there is only so much to do; the  *)
(* handler is never without a next step; each of its steps does some of    *)
(* what there is to do; and when it has committed the clock tick, the      *)
(* entry has ended.                                                        *)
(***************************************************************************)
Place(row) == CASE row.state = "NONE"                             -> 0
                [] row.state \in {"CREATED", "PENDING", "ROUTED"} -> 1
                [] row.state = "ENTRY_PENDING"                    -> 2
                [] row.state \in TerminalStates                   -> 3

Forward(old, new) == new = old \/ Place(old) < Place(new)

OnlyForward ==
    /\ \A t \in Tracks : Forward(order[t], order'[t]) /\ Forward(ledger[t], ledger'[t])
    /\ Forward(route, route')
    /\ context => context'
    /\ audit' = audit \/ audit.verdict = "NONE"

LEMMA Places ==
    /\ \A a, b, w : /\ Place(Row("ROUTED", w, a, b)) = 1 /\ Place(Row("CREATED", w, a, b)) = 1
    /\ Place(NoRow) = 0 /\ Place(PendingRow) = 1 /\ Place(WaitingRow) = 2
    /\ \A row : row.state \in TerminalStates => Place(row) = 3
    /\ \A row : row.state = "NONE" => Place(row) = 0
    /\ \A row : row.state \in {"CREATED", "PENDING", "ROUTED"} => Place(row) = 1
    /\ \A row : row.state = "ENTRY_PENDING" => Place(row) = 2
BY RowFacts DEF Place, Row, TerminalStates, NoRow, PendingRow, WaitingRow

(* The last row of an entry is the one its route takes, and it keeps it.   *)
LEMMA RouteForward ==
    ASSUME TypeOK, Inductive, route' = FinishedRoute
    PROVE  Forward(route, route')
<1>1. CASE committed = 0
  <2>1. \A t \in Tracks : ledger[t] \in {NoRow, PendingRow}
    BY <1>1 DEF Inductive, RoutingInv
  <2>2. Listed \subseteq Pending
    BY <2>1, RowFacts DEF Listed, Pending
  <2> QED BY <2>2 DEF FinishedRoute, Unfinished, Forward
<1>2. CASE committed > 0
  <2>1. CASE Pending # {}
    BY <1>2, <2>1, FinishedRouteFacts DEF Forward
  <2>2. CASE Pending = {}
    <3>1. FinishedRoute = FinalRoute /\ FinishedRoute.state \in TerminalStates
      BY <1>2, <2>2, FinishedRouteFacts
    <3>2. route = WaitingRow \/ route = FinalRoute
      BY <1>2 DEF Inductive, RouteInv
    <3> QED BY <3>1, <3>2, Places DEF Forward
  <2> QED BY <2>1, <2>2
<1> QED BY <1>1, <1>2 DEF TypeOK

LEMMA StepForward ==
    ASSUME TypeOK, Inductive, [Next]_vars
    PROVE  OnlyForward
<1> USE DEF Forward
<1>1. /\ order \in [Tracks -> Rows] /\ ledger \in [Tracks -> Rows]
  BY DEF TypeOK
<1>2. CASE UNCHANGED durable
  BY <1>2 DEF durable, OnlyForward
<1>3. CASE InsertRoute
  <2>1. UNCHANGED <<order, ledger, context, audit>> /\ route.state = "NONE"
        /\ route' = Row("ROUTED", "SIGNAL", SignalAt, 0)
    BY <1>3 DEF InsertRoute
  <2>2. Place(route) = 0 /\ Place(route') = 1
    BY <2>1, Places
  <2> QED BY <2>1, <2>2 DEF OnlyForward
<1>4. CASE RouteEntryPending
  <2>1. UNCHANGED <<order, ledger, context, audit>> /\ route.state = "ROUTED"
        /\ route' = WaitingRow
    BY <1>4 DEF RouteEntryPending
  <2>2. Place(route) = 1 /\ Place(route') = 2
    BY <2>1, Places
  <2> QED BY <2>1, <2>2 DEF OnlyForward
<1>5. ASSUME NEW t \in Tracks,
             \/ CreateOrder(t) \/ MarkEntryPending(t) \/ RejectExpired(t) \/ SettleOrder(t)
      PROVE  OnlyForward
  <2>1. /\ UNCHANGED <<ledger, route, context, audit>>
        /\ \A u \in Tracks : u # t => order'[u] = order[u]
    BY <1>1, <1>5 DEF CreateOrder, MarkEntryPending, RejectExpired, SettleOrder
  <2>2. Place(order[t]) < Place(order'[t])
    <3>1. CASE CreateOrder(t)
      <4>1. order[t].state = "NONE" /\ order'[t] = Row("CREATED", "ROUTED", SignalAt, 0)
        BY <1>1, <3>1 DEF CreateOrder, IsFirst
      <4>2. Place(order[t]) = 0 /\ Place(order'[t]) = 1
        BY <4>1, Places
      <4> QED BY <4>2
    <3>2. CASE MarkEntryPending(t)
      <4>1. order[t].state = "CREATED" /\ order'[t] = WaitingRow
        BY <1>1, <3>2 DEF MarkEntryPending, IsFirst
      <4>2. Place(order[t]) = 1 /\ Place(order'[t]) = 2
        BY <4>1, Places
      <4> QED BY <4>2
    <3>3. CASE RejectExpired(t)
      <4>1. order[t].state = "ENTRY_PENDING" /\ order'[t] = Expiry(t)
        BY <1>1, <3>3 DEF RejectExpired
      <4>2. Place(order[t]) = 2 /\ Place(order'[t]) = 3
        BY <4>1, Places, ExpiryShape DEF TerminalStates
      <4> QED BY <4>2
    <3>4. CASE SettleOrder(t)
      <4>1. /\ stage = "settle" /\ t \in Eligible(item.at)
            /\ order[t].state = "ENTRY_PENDING" /\ order'[t] = SettledOrder
        BY <1>1, <3>4 DEF SettleOrder, IsFirst
      <4>2. /\ SettledOrder = OrderOf(Settlement(item, Cursor))
            /\ Settlement(item, Cursor) \in Rows
            /\ Settlement(item, Cursor).state \in TerminalStates
        BY <4>1, EligibleFate, SettlementShape DEF SettledOrder
      <4>3. SettledOrder.state \in TerminalStates
        BY <4>2, OrderOfShape
      <4>4. Place(order[t]) = 2 /\ Place(order'[t]) = 3
        BY <4>1, <4>3, Places
      <4> QED BY <4>4
    <3> QED BY <1>5, <3>1, <3>2, <3>3, <3>4
  <2> QED BY <2>1, <2>2 DEF OnlyForward
<1>6. ASSUME NEW t \in Tracks,
             InsertDeadline(t) \/ RecordExpired(t) \/ RecordMarketTerminal(t)
      PROVE  OnlyForward
  <2>1. /\ UNCHANGED <<order, route, context, audit>>
        /\ \A u \in Tracks : u # t => ledger'[u] = ledger[u]
    BY <1>1, <1>6 DEF InsertDeadline, RecordExpired, RecordMarketTerminal
  <2>2. Place(ledger[t]) < Place(ledger'[t])
    <3>1. CASE InsertDeadline(t)
      <4>1. ledger[t].state = "NONE" /\ ledger'[t] = PendingRow
        BY <1>1, <3>1 DEF InsertDeadline, IsFirst, Listed
      <4>2. Place(ledger[t]) = 0 /\ Place(ledger'[t]) = 1
        BY <4>1, Places
      <4> QED BY <4>2
    <3>2. CASE RecordExpired(t)
      <4>1. ledger[t].state = "PENDING" /\ ledger'[t] = Expiry(t)
        BY <1>1, <3>2 DEF RecordExpired, IsFirst, Due, Pending
      <4>2. Place(ledger[t]) = 1 /\ Place(ledger'[t]) = 3
        BY <4>1, Places, ExpiryShape DEF TerminalStates
      <4> QED BY <4>2
    <3>3. CASE RecordMarketTerminal(t)
      <4>1. /\ stage = "settle" /\ t \in Eligible(item.at) /\ ledger[t].state = "PENDING"
            /\ ledger'[t] = Settlement(item, Cursor)
        BY <1>1, <3>3 DEF RecordMarketTerminal, IsFirst, Eligible, Pending
      <4>2. Settlement(item, Cursor).state \in TerminalStates
        BY <4>1, EligibleFate, SettlementShape
      <4>3. Place(ledger[t]) = 1 /\ Place(ledger'[t]) = 3
        BY <4>1, <4>2, Places
      <4> QED BY <4>3
    <3> QED BY <1>6, <3>1, <3>2, <3>3
  <2> QED BY <2>1, <2>2 DEF OnlyForward
<1>7. CASE FinishExpiry \/ FinishSettlement \/ Restart
  <2>1. UNCHANGED <<order, ledger, context, audit>> /\ route' = FinishedRoute
    BY <1>7 DEF FinishExpiry, FinishSettlement, Restart
  <2> QED BY <2>1, RouteForward DEF OnlyForward
<1>8. CASE PersistContext
  BY <1>8 DEF PersistContext, OnlyForward
<1>9. CASE RecordDecision
  BY <1>9 DEF RecordDecision, OnlyForward
<1>10. CASE \/ \E i \in {Candidate, OwnMarket} \cup Feed : Deliver(i)
            \/ Routed \/ CommitCursor \/ Crash \/ UNCHANGED vars
  BY <1>2, <1>10 DEF Deliver, Routed, CommitCursor, Crash, vars
<1> QED BY <1>3, <1>4, <1>5, <1>6, <1>7, <1>8, <1>9, <1>10 DEF Next, Handler

(* Nothing the entry has decided is ever taken back or decided again: an   *)
(* order, a ledger row and the route only advance and stay in the terminal *)
(* row they reach (_transition_order, _finish_terminal_route), the signal  *)
(* context stays, and the audit decision is written once, through every    *)
(* crash, restart and redelivery.                                          *)
THEOREM NothingTakenBack == Spec => [][OnlyForward]_vars
<1>1. TypeOK /\ Inductive /\ [Next]_vars => [OnlyForward]_vars
  BY StepForward
<1> QED BY <1>1, Invariance, PTL DEF Spec
-----------------------------------------------------------------------------
(* The guards of the handler's actions, in the order of the handler.       *)
SomeFirst(S) == \E t \in Tracks : IsFirst(t, S)

HandlerReady ==
    \/ stage = "route" /\
         \/ route.state = "NONE"
         \/ route.state # "NONE" /\ SomeFirst({t \in Tracks : order[t].state = "NONE"})
         \/ OrdersCreated /\ SomeFirst({t \in Tracks : order[t].state = "CREATED"})
         \/ OrdersMarked /\ route.state = "ROUTED"
         \/ /\ OrdersMarked /\ route.state \notin {"NONE", "ROUTED"}
            /\ SomeFirst(Tracks \ Listed) \/ Listed = Tracks
    \/ stage \in {"context", "commit"}
    \/ /\ stage = "expire"
       /\ \/ Due(item.at) = {}
          \/ \E t \in Tracks : IsFirst(t, Due(item.at)) /\ OrderReplayable(t, Expiry(t))
    \/ /\ stage = "settle"
       /\ \/ Eligible(item.at) = {}
          \/ \E t \in Tracks : IsFirst(t, Eligible(item.at)) /\ OrderReplayable(t, SettledOrder)
    \/ /\ stage = "audit"
       /\ Auditable => context /\ (audit.verdict = "NONE" \/ audit = Verdict)

LEMMA FirstExists ==
    ASSUME NEW S, S \subseteq Tracks, S # {}
    PROVE  SomeFirst(S)
<1>1. S \subseteq Nat
  BY DEF Tracks
<1>2. PICK t \in S : \A u \in S : t <= u
  BY <1>1, LeastExists
<1> QED BY <1>2 DEF SomeFirst, IsFirst

(* The handler is never stuck: in the middle of an item, at every stage,   *)
(* one of its actions can go on, whatever crashes have left behind:        *)
(* route_candidate, on_market_observation, on_clock, reject_order,         *)
(* fill_order and the audit raise nowhere.                                 *)
THEOREM HandlerNeverStuck == Spec => [](stage \notin {"idle", "down"} => HandlerReady)
<1>1. TypeOK /\ Inductive => (stage \notin {"idle", "down"} => HandlerReady)
  <2> SUFFICES ASSUME TypeOK, Inductive, stage \notin {"idle", "down"} PROVE HandlerReady
    OBVIOUS
  <2>1. NeverRaises
    BY NeverRaisesFromInvariant
  <2>2. CASE stage = "route"
    <3>1. CASE \E t \in Tracks : order[t].state = "NONE"
      <4>1. SomeFirst({t \in Tracks : order[t].state = "NONE"})
        BY <3>1, FirstExists
      <4> QED BY <2>2, <4>1 DEF HandlerReady
    <3>2. CASE OrdersCreated /\ \E t \in Tracks : order[t].state = "CREATED"
      <4>1. SomeFirst({t \in Tracks : order[t].state = "CREATED"})
        BY <3>2, FirstExists
      <4> QED BY <2>2, <3>2, <4>1 DEF HandlerReady
    <3>3. CASE OrdersMarked
      <4>1. SomeFirst(Tracks \ Listed) \/ Listed = Tracks
        <5>1. Tracks \ Listed = {} => Listed = Tracks
          BY DEF Listed
        <5> QED BY <5>1, FirstExists
      <4> QED BY <2>2, <3>3, <4>1 DEF HandlerReady
    <3> QED BY <3>1, <3>2, <3>3 DEF OrdersCreated, OrdersMarked
  <2>3. CASE stage = "expire"
    <3>1. CASE Due(item.at) # {}
      <4>1. PICK t \in Tracks : IsFirst(t, Due(item.at))
        BY <3>1, FirstExists DEF Due, Pending, SomeFirst
      <4>2. OrderReplayable(t, Expiry(t))
        BY <2>1, <2>3, <4>1 DEF NeverRaises, IsFirst
      <4> QED BY <2>3, <4>1, <4>2 DEF HandlerReady
    <3> QED BY <2>3, <3>1 DEF HandlerReady
  <2>4. CASE stage = "settle"
    <3>1. CASE Eligible(item.at) # {}
      <4>1. PICK t \in Tracks : IsFirst(t, Eligible(item.at))
        BY <3>1, FirstExists DEF Eligible, Pending, SomeFirst
      <4>2. OrderReplayable(t, SettledOrder)
        BY <2>1, <2>4, <4>1 DEF NeverRaises, IsFirst
      <4> QED BY <2>4, <4>1, <4>2 DEF HandlerReady
    <3> QED BY <2>4, <3>1 DEF HandlerReady
  <2>5. CASE stage = "audit"
    BY <2>1, <2>5 DEF NeverRaises, HandlerReady
  <2>6. CASE stage \in {"context", "commit"}
    BY <2>6 DEF HandlerReady
  <2> QED BY <2>2, <2>3, <2>4, <2>5, <2>6 DEF TypeOK
<1> QED BY <1>1, Invariance, PTL

(* The stages of an item, in the order of the handler.                     *)
Number(s) == CASE s = "route"  -> 0 [] s = "context" -> 1 [] s = "expire" -> 2
               [] s = "settle" -> 3 [] s = "audit"   -> 4 [] s = "commit" -> 5
               [] s \in {"idle", "down"} -> 6

HandlerGoesOn == \/ Number(stage) < Number(stage')
                 \/ stage' = stage /\ \/ route' # route
                                      \/ \E t \in Tracks : \/ order'[t] # order[t]
                                                           \/ ledger'[t] # ledger[t]

LEMMA HandlerStep ==
    ASSUME TypeOK, Inductive, Handler
    PROVE  HandlerGoesOn
<1>1. /\ order \in [Tracks -> Rows] /\ ledger \in [Tracks -> Rows]
  BY DEF TypeOK
<1>2. CASE Routed \/ PersistContext \/ FinishExpiry \/ FinishSettlement
           \/ RecordDecision \/ CommitCursor
  <2>1. /\ stage = "route" => stage' \in {"context", "expire"}
        /\ stage = "context" => stage' = "commit"
        /\ stage = "expire" => stage' \in {"settle", "audit"}
        /\ stage = "settle" => stage' = "audit"
        /\ stage = "audit" => stage' = "commit"
        /\ stage = "commit" => stage' = "idle"
        /\ stage \in {"route", "context", "expire", "settle", "audit", "commit"}
    BY <1>2 DEF Routed, PersistContext, FinishExpiry, FinishSettlement, RecordDecision,
       CommitCursor
  <2> QED BY <2>1 DEF HandlerGoesOn, Number
<1>3. CASE InsertRoute \/ RouteEntryPending
  <2>1. stage' = stage /\ route'.state # route.state
    BY <1>3, RowFacts DEF InsertRoute, RouteEntryPending, Row
  <2> QED BY <2>1 DEF HandlerGoesOn
<1>4. ASSUME NEW t \in Tracks,
             \/ CreateOrder(t) \/ MarkEntryPending(t) \/ RejectExpired(t) \/ SettleOrder(t)
      PROVE  HandlerGoesOn
  <2>1. stage' = stage
    BY <1>4 DEF CreateOrder, MarkEntryPending, RejectExpired, SettleOrder
  <2>2. order'[t].state # order[t].state
    <3>1. CASE CreateOrder(t) \/ MarkEntryPending(t)
      BY <1>1, <3>1, RowFacts DEF CreateOrder, MarkEntryPending, IsFirst, Row
    <3>2. CASE RejectExpired(t)
      BY <1>1, <3>2, ExpiryShape DEF RejectExpired
    <3>3. CASE SettleOrder(t)
      <4>1. stage = "settle" /\ t \in Eligible(item.at)
        BY <3>3 DEF SettleOrder, IsFirst
      <4>2. /\ SettledOrder = OrderOf(Settlement(item, Cursor))
            /\ Settlement(item, Cursor) \in Rows
            /\ Settlement(item, Cursor).state \in TerminalStates
        BY <4>1, EligibleFate, SettlementShape DEF SettledOrder
      <4>3. SettledOrder.state # "ENTRY_PENDING"
        BY <4>2, OrderOfShape DEF TerminalStates
      <4> QED BY <1>1, <3>3, <4>3 DEF SettleOrder
    <3> QED BY <1>4, <3>1, <3>2, <3>3
  <2> QED BY <2>1, <2>2 DEF HandlerGoesOn
<1>5. ASSUME NEW t \in Tracks,
             InsertDeadline(t) \/ RecordExpired(t) \/ RecordMarketTerminal(t)
      PROVE  HandlerGoesOn
  <2>1. stage' = stage
    BY <1>5 DEF InsertDeadline, RecordExpired, RecordMarketTerminal
  <2>2. ledger'[t].state # ledger[t].state
    <3>1. CASE InsertDeadline(t)
      BY <1>1, <3>1, RowFacts DEF InsertDeadline, IsFirst, Listed
    <3>2. CASE RecordExpired(t)
      BY <1>1, <3>2, ExpiryShape DEF RecordExpired, IsFirst, Due, Pending
    <3>3. CASE RecordMarketTerminal(t)
      <4>1. stage = "settle" /\ t \in Eligible(item.at) /\ ledger[t].state = "PENDING"
        BY <3>3 DEF RecordMarketTerminal, IsFirst, Eligible, Pending
      <4>2. Settlement(item, Cursor).state \in TerminalStates
        BY <4>1, EligibleFate, SettlementShape
      <4> QED BY <1>1, <3>3, <4>1, <4>2 DEF RecordMarketTerminal, TerminalStates
    <3> QED BY <1>5, <3>1, <3>2, <3>3
  <2> QED BY <2>1, <2>2 DEF HandlerGoesOn
<1> QED BY <1>2, <1>3, <1>4, <1>5 DEF Handler

(* Every step of the handler goes on: to a later stage of its item, or to  *)
(* a row that it writes where it was.  Since rows only advance, an item    *)
(* takes finitely many steps, however it was interrupted.                  *)
THEOREM HandlerProgress == Spec => [][Handler => HandlerGoesOn]_vars
<1>1. TypeOK /\ Inductive /\ [Next]_vars => [Handler => HandlerGoesOn]_vars
  BY HandlerStep
<1> QED BY <1>1, Invariance, PTL DEF Spec

Ended == /\ \A t \in Tracks : order[t].state \in TerminalStates
         /\ route.state \in TerminalStates
         /\ audit.verdict # "NONE"

(* A clock tick past every deadline has ended the entry by the time it is  *)
(* committed: every order and the route are terminal and the decision is   *)
(* recorded, whatever crashed before or while it was handled (on_clock,    *)
(* _finish_terminal_route, _ensure_entry_terminal_decision).               *)
THEOREM EndedAtCommit == Spec => [](stage = "commit" /\ PastDeadlines => Ended)
<1>1. TypeOK /\ Inductive => (stage = "commit" /\ PastDeadlines => Ended)
  <2> SUFFICES ASSUME TypeOK, Inductive, stage = "commit", PastDeadlines PROVE Ended
    OBVIOUS
  <2>1. /\ item.kind = "CLOCK" /\ \A t \in Tracks : item.at >= ExpireAt(t)
        /\ item # NoItem /\ item # Candidate /\ item # OwnMarket
    BY ItemKinds DEF PastDeadlines
  <2>2. committed > 1 /\ committed > 0 /\ Cursor > OwnCursor
    BY <2>1 DEF Inductive, StageInv, TypeOK, Cursor, OwnCursor
  <2>3. ASSUME NEW t \in Tracks PROVE ledger[t] # PendingRow
    <3>1. SUFFICES ASSUME ledger[t] = PendingRow PROVE FALSE
      OBVIOUS
    <3>2. Fate(t) = Undecided /\ expected[t] = Undecided
      BY <2>2, <3>1, PendingTrack DEF Inductive, DoneInv
    <3>3. Fate(t) = Expiry(t)
      <4>1. ~(Cursor <= OwnCursor)
        BY <2>2 DEF TypeOK, Cursor, OwnCursor
      <4> QED BY <2>1, <3>2, <4>1 DEF Fate, Resolve
    <3> QED BY <3>2, <3>3, ExpiryShape, RowFacts DEF Undecided
  <2>4. ASSUME NEW t \in Tracks PROVE order[t].state \in TerminalStates
    <3>1. /\ order[t] = OrderOf(ledger[t]) /\ ledger[t] \in Rows
          /\ ledger[t].state \in TerminalStates
      BY <2>2, <2>3, DecidedRows, ExpiryShape DEF Inductive, TypeOK, TerminalStates
    <3> QED BY <3>1, OrderOfShape
  <2>5. Pending = {}
    BY <2>2, <2>3, PendingTrack DEF Pending
  <2>6. route # WaitingRow
    BY <2>2, <2>5 DEF Inductive, DoneInv
  <2>7. route.state \in TerminalStates
    BY <2>2, <2>6, RouteTerminal
  <2>8. audit.verdict # "NONE"
    BY <2>2, <2>6 DEF Inductive, AuditInv
  <2> QED BY <2>4, <2>7, <2>8 DEF Ended
<1> QED BY <1>1, Invariance, PTL
=============================================================================
