---------------------------- MODULE EntryRouter -----------------------------
(***************************************************************************)
(* Paper entry of one candidate: the continuous runner's dispatch of one   *)
(* source item at a time, the entry router v0.2 with its per-track         *)
(* execution deadlines, and the order half of the lifecycle store.         *)
(*                                                                         *)
(* Every action that changes durable state is ONE committed SQLite         *)
(* transaction of the code.  A crash may fall between any two of them; the *)
(* item in flight is then delivered again after the restart, because the   *)
(* runner commits its cursor last.  The loops of the handlers re-read the  *)
(* database, so the only volatile state is the stage the handler is in.    *)
(*                                                                         *)
(* Abstracted: prices and sizes (an observation either fills or exceeds    *)
(* the slippage cap), instants (small numbers for microseconds), other     *)
(* candidates (every table is keyed by the candidate's route).             *)
(***************************************************************************)
EXTENDS Naturals

CONSTANTS
    NumTracks,     \* tracks 1 .. NumTracks in the locked order A, B, C
    Window,        \* entry window of each track
    SignalAt,      \* signal_observed_at
    Latency,       \* execution latency of the cost model
    MaxTime,       \* bound: the instants an item may carry
    MaxItems,      \* bound: source items delivered
    MaxCrashes,    \* bound: crashes of the process
    RunnerRestart  \* TRUE: the runner's constructor restarts the process, and
                   \* rebinds the exit positions; FALSE: the router's alone

Tracks == 1 .. NumTracks

ASSUME TracksAssumption  == NumTracks \in Nat \ {0}
ASSUME WindowAssumption  == Window \in [Tracks -> Nat]
ASSUME InstantAssumption == SignalAt \in Nat /\ Latency \in Nat
ASSUME BoundAssumption   == /\ MaxTime \in Nat
                            /\ MaxItems \in Nat
                            /\ MaxCrashes \in Nat
ASSUME RestartAssumption == RunnerRestart \in BOOLEAN

VARIABLES
    order,      \* paper_orders: track -> [state, why, at, by]
    ledger,     \* paper_entry_execution_deadlines: track -> [state, why, at, by]
    route,      \* paper_entry_routes: [state, why, at, by]
    context,    \* paper_continuous_signal_contexts: the signal has its row
    audit,      \* terminal decision of the audit store: [verdict, at]
    committed,  \* last_committed_source_cursor
    item,       \* the source item being processed (delivered again on restart)
    stage,      \* volatile: where in the handler the process is
    crashes,    \* number of crashes so far
    expected    \* history: what the committed items decide without crashes

durable == <<order, ledger, route, context, audit>>
source  == <<committed, item, crashes, expected>>
vars    == <<durable, source, stage>>

-----------------------------------------------------------------------------
(* Instants of the deadline policy.                                        *)

ReadyAt      == SignalAt + Latency
ThroughAt    == [t \in Tracks |-> SignalAt + Window[t]]
ExpireAt(t)  == ThroughAt[t] + 1

(* Rows of the durable tables.  "by" is the cursor of the observation that *)
(* the row names as its market provenance, 0 when it names none.           *)
Row(s, w, a, b) == [state |-> s, why |-> w, at |-> a, by |-> b]
NoRow           == Row("NONE", "NONE", 0, 0)
PendingRow      == Row("PENDING", "NONE", 0, 0)
WaitingRow      == Row("ENTRY_PENDING", "WAITING", SignalAt, 0)
TerminalStates  == {"FILLED", "REJECTED"}

(* Source items.  The candidate is followed by the market observation of   *)
(* its own source row; then come market observations and clock ticks at    *)
(* any instant: nothing orders the instants of the source.  The price of   *)
(* an observation fills, exceeds the slippage cap, or is unusable (gap     *)
(* recovery, or another price identity).                                   *)
Item(k, a, p) == [kind |-> k, at |-> a, price |-> p]
NoItem    == Item("NONE", 0, "NONE")
Candidate == Item("CANDIDATE", SignalAt, "NONE")
OwnMarket == Item("MARKET", SignalAt, "FILLS")
Times     == 0 .. MaxTime
Feed      == {Item("MARKET", a, p) : a \in Times, p \in {"UNUSABLE", "FILLS", "SLIPS"}}
               \cup {Item("CLOCK", a, "NONE") : a \in Times}

Cursor    == committed + 1        \* cursor of the item in flight
OwnCursor == 2                    \* cursor of OwnMarket

(* The first track of a set in the locked order.                           *)
IsFirst(t, S) == t \in S /\ \A u \in S : t <= u

(* Rows of the deadline ledger.                                            *)
Listed       == {t \in Tracks : ledger[t].state # "NONE"}
Pending      == {t \in Tracks : ledger[t].state = "PENDING"}

(* Mistake: a track is due only after its expiry instant has passed.       *)
DueTooLate(at) == {t \in Pending : at > ExpireAt(t)}

Due(at)      == {t \in Pending : at >= ExpireAt(t)}
Eligible(at) == {t \in Pending : at <= ThroughAt[t]}
Settled      == {t \in Tracks : ledger[t].by # 0}

(* What the committed items decide about a track when nothing crashes: the *)
(* window passes, or the first usable observation that is ready settles it.*)
Undecided == NoRow
Expiry(t) == Row("REJECTED", "EXPIRED", ExpireAt(t), 0)
Settlement(i, c) == IF i.price = "SLIPS" THEN Row("REJECTED", "SLIPPAGE", i.at, c)
                               ELSE Row("FILLED", "FILLED", i.at, c)
Ripe(i, c) == /\ i.kind = "MARKET"
              /\ i.price \in {"FILLS", "SLIPS"}
              /\ c > OwnCursor
              /\ i.at >= ReadyAt
Resolve(t, i, c) ==
    IF \/ expected[t] # Undecided
       \/ i.kind = "CANDIDATE"
       \/ c <= OwnCursor                 THEN expected[t]
    ELSE IF i.at >= ExpireAt(t)          THEN Expiry(t)
    ELSE IF Ripe(i, c)                   THEN Settlement(i, c)
    ELSE expected[t]

Init ==
    /\ order     = [t \in Tracks |-> NoRow]
    /\ ledger    = [t \in Tracks |-> NoRow]
    /\ route     = NoRow
    /\ context   = FALSE
    /\ audit     = [verdict |-> "NONE", at |-> 0]
    /\ committed = 0
    /\ item      = NoItem
    /\ stage     = "idle"
    /\ crashes   = 0
    /\ expected  = [t \in Tracks |-> Undecided]
-----------------------------------------------------------------------------
(* Mistake: a clock tick is passed on only when it expires every track.    *)
DispatchWholeBatch(i, r) ==
    CASE i.kind = "NONE"      -> "idle"
      [] i.kind = "CANDIDATE" -> "route"
      [] i.kind = "MARKET"    -> IF r.state = "ENTRY_PENDING" /\ Cursor > OwnCursor
                                 THEN "route" ELSE "audit"
      [] i.kind = "CLOCK"     -> IF Due(i.at) = Tracks THEN "expire" ELSE "audit"

(* The runner takes an item from its source and dispatches it.  A market   *)
(* observation reaches the router while the route waits for its entry and  *)
(* the observation comes after the candidate's own row; a clock tick when  *)
(* some pending track is due.                                              *)
Dispatch(i, r) ==
    CASE i.kind = "NONE"      -> "idle"
      [] i.kind = "CANDIDATE" -> "route"
      [] i.kind = "MARKET"    -> IF r.state = "ENTRY_PENDING" /\ Cursor > OwnCursor
                                 THEN "route" ELSE "audit"
      [] i.kind = "CLOCK"     -> IF Due(i.at) # {} THEN "expire" ELSE "audit"

Deliver(i) ==
    /\ stage = "idle"
    /\ committed < MaxItems
    /\ committed = 0 => i = Candidate
    /\ committed = 1 => i = OwnMarket
    /\ committed > 1 => i \in Feed
    /\ item' = i
    /\ stage' = Dispatch(i, route)
    /\ UNCHANGED <<durable, committed, crashes, expected>>

-----------------------------------------------------------------------------
(* route_candidate: idempotent, one transaction per row.                   *)

InsertRoute ==
    /\ stage = "route"
    /\ route.state = "NONE"
    /\ route' = Row("ROUTED", "SIGNAL", SignalAt, 0)
    /\ UNCHANGED <<order, ledger, context, audit, source, stage>>

CreateOrder(t) ==
    /\ stage = "route"
    /\ route.state # "NONE"
    /\ IsFirst(t, {u \in Tracks : order[u].state = "NONE"})
    /\ order' = [order EXCEPT ![t] = Row("CREATED", "ROUTED", SignalAt, 0)]
    /\ UNCHANGED <<ledger, route, context, audit, source, stage>>

OrdersCreated == \A t \in Tracks : order[t].state # "NONE"

MarkEntryPending(t) ==
    /\ stage = "route"
    /\ OrdersCreated
    /\ IsFirst(t, {u \in Tracks : order[u].state = "CREATED"})
    /\ order' = [order EXCEPT ![t] = WaitingRow]
    /\ UNCHANGED <<ledger, route, context, audit, source, stage>>

OrdersMarked == OrdersCreated /\ \A t \in Tracks : order[t].state # "CREATED"

RouteEntryPending ==
    /\ stage = "route"
    /\ OrdersMarked
    /\ route.state = "ROUTED"
    /\ route' = WaitingRow
    /\ UNCHANGED <<order, ledger, context, audit, source, stage>>

InsertDeadline(t) ==
    /\ stage = "route"
    /\ OrdersMarked
    /\ route.state \notin {"NONE", "ROUTED"}
    /\ IsFirst(t, Tracks \ Listed)
    /\ ledger' = [ledger EXCEPT ![t] = PendingRow]
    /\ UNCHANGED <<order, route, context, audit, source, stage>>

(* Everything is routed: the candidate goes on to its signal context, an   *)
(* observation to the expiry of the tracks whose window it has passed.     *)
Routed ==
    /\ stage = "route"
    /\ OrdersMarked
    /\ route.state \notin {"NONE", "ROUTED"}
    /\ Listed = Tracks
    /\ stage' = IF item.kind = "CANDIDATE" THEN "context" ELSE "expire"
    /\ UNCHANGED <<durable, source>>

PersistContext ==
    /\ stage = "context"
    /\ context' = TRUE
    /\ stage' = "commit"
    /\ UNCHANGED <<order, ledger, route, audit, source>>

-----------------------------------------------------------------------------
(* _finish_terminal_route: once no row of the ledger is pending, the route *)
(* takes its terminal state from the ledger: the outcome and provenance    *)
(* that all its market-settled rows share, or, when every track expired,   *)
(* the last expiry.  NeverRaises states what the code checks on the way.   *)
LastTerminalAt == CHOOSE a \in {ledger[t].at : t \in Tracks} :
                    \A t \in Tracks : ledger[t].at <= a

FinalRoute ==
    IF Settled # {} THEN ledger[CHOOSE t \in Settled : TRUE]
                    ELSE Row("REJECTED", "ALL_EXPIRED", LastTerminalAt, 0)

Unfinished    == Listed = {} \/ Pending # {}
FinishedRoute == IF Unfinished THEN route ELSE FinalRoute

(* Mistakes: the rejection is stamped with the item's own instant, so that *)
(* a redelivery does not find what it wrote; the ledger row is written     *)
(* without waiting for the lifecycle.                                      *)
RejectExpiredNow(t) ==
    /\ stage = "expire"
    /\ IsFirst(t, Due(item.at))
    /\ order[t].state = "ENTRY_PENDING"
    /\ order' = [order EXCEPT ![t] = Row("REJECTED", "EXPIRED", item.at, 0)]
    /\ UNCHANGED <<ledger, route, context, audit, source, stage>>

RecordExpiredFirst(t) ==
    /\ stage = "expire"
    /\ IsFirst(t, Due(item.at))
    /\ ledger' = [ledger EXCEPT ![t] = Expiry(t)]
    /\ UNCHANGED <<order, route, context, audit, source, stage>>

(* _expire_due: each pending track that is due is rejected in the          *)
(* lifecycle at its own expiry instant, then in the ledger.                *)
RejectExpired(t) ==
    /\ stage = "expire"
    /\ IsFirst(t, Due(item.at))
    /\ order[t].state = "ENTRY_PENDING"
    /\ ExpireAt(t) >= order[t].at
    /\ order' = [order EXCEPT ![t] = Expiry(t)]
    /\ UNCHANGED <<ledger, route, context, audit, source, stage>>

RecordExpired(t) ==
    /\ stage = "expire"
    /\ IsFirst(t, Due(item.at))
    /\ order[t] = Expiry(t)
    /\ ledger' = [ledger EXCEPT ![t] = Expiry(t)]
    /\ UNCHANGED <<order, route, context, audit, source, stage>>

(* Mistake: an observation before the execution-ready instant settles.     *)
FinishExpiryUnready ==
    /\ stage = "expire"
    /\ Due(item.at) = {}
    /\ route' = FinishedRoute
    /\ stage' = IF /\ item.kind = "MARKET"
                   /\ FinishedRoute.state # "REJECTED"
                   /\ item.price \in {"FILLS", "SLIPS"}
                   /\ Eligible(item.at) # {}
                THEN "settle" ELSE "audit"
    /\ UNCHANGED <<order, ledger, context, audit, source>>

(* The end of _expire_due, and the early returns of on_market_observation: *)
(* route rejected, gap recovery or foreign identity, before ready, no      *)
(* eligible track.                                                         *)
FinishExpiry ==
    /\ stage = "expire"
    /\ Due(item.at) = {}
    /\ route' = FinishedRoute
    /\ stage' = IF /\ item.kind = "MARKET"
                   /\ FinishedRoute.state # "REJECTED"
                   /\ item.price \in {"FILLS", "SLIPS"}
                   /\ item.at >= ReadyAt
                   /\ Eligible(item.at) # {}
                THEN "settle" ELSE "audit"
    /\ UNCHANGED <<order, ledger, context, audit, source>>

(* The settlement loop: fill_order or reject_order, then the ledger row    *)
(* with the observation as its provenance.  fill_order opens the position  *)
(* in its own transaction, so a FILLED order is an order with a position.  *)
(* A rejected order keeps no provenance.                                   *)
OrderOf(row) == IF row.why = "SLIPPAGE" THEN [row EXCEPT !.by = 0] ELSE row
SettledOrder == OrderOf(Settlement(item, Cursor))

SettleOrder(t) ==
    /\ stage = "settle"
    /\ IsFirst(t, Eligible(item.at))
    /\ order[t].state = "ENTRY_PENDING"
    /\ item.at >= order[t].at
    /\ order' = [order EXCEPT ![t] = SettledOrder]
    /\ UNCHANGED <<ledger, route, context, audit, source, stage>>

RecordMarketTerminal(t) ==
    /\ stage = "settle"
    /\ IsFirst(t, Eligible(item.at))
    /\ order[t] = SettledOrder
    /\ ledger' = [ledger EXCEPT ![t] = Settlement(item, Cursor)]
    /\ UNCHANGED <<order, route, context, audit, source, stage>>

(* Mistake: the settlement stops after its first track.                    *)
FinishSettlementEarly ==
    /\ stage = "settle"
    /\ \E t \in Settled : ledger[t] = Settlement(item, Cursor)
    /\ route' = FinishedRoute
    /\ stage' = "audit"
    /\ UNCHANGED <<order, ledger, context, audit, source>>

FinishSettlement ==
    /\ stage = "settle"
    /\ Eligible(item.at) = {}
    /\ route' = FinishedRoute
    /\ stage' = "audit"
    /\ UNCHANGED <<order, ledger, context, audit, source>>

-----------------------------------------------------------------------------
(* Mistakes: only a market-settled route is healed (runner v0.1 knows no   *)
(* expiry); the route's state is stored as the verdict.                    *)
AuditableByMarketOnly == item.kind = "MARKET" /\ route.by = Cursor

VerdictIsState == [verdict |-> route.state, at |-> route.at]

(* The runner heals the boundary between a terminal route and its audit    *)
(* decision: for the observation the route selected, and for a route whose *)
(* tracks have all expired.  Only then does it commit its cursor.          *)
Auditable == \/ item.kind = "MARKET" /\ route.by = Cursor
             \/ route.why = "ALL_EXPIRED"

Verdict == [verdict |-> IF route.state = "FILLED" THEN "TRADE" ELSE "SKIP",
            at |-> route.at]

RecordDecision ==
    /\ stage = "audit"
    /\ Auditable => context /\ (audit.verdict = "NONE" \/ audit = Verdict)
    /\ audit' = IF Auditable THEN Verdict ELSE audit
    /\ stage' = "commit"
    /\ UNCHANGED <<order, ledger, route, context, source>>

CommitCursor ==
    /\ stage = "commit"
    /\ committed' = Cursor
    /\ item' = NoItem
    /\ expected' = [t \in Tracks |-> Resolve(t, item, Cursor)]
    /\ stage' = "idle"
    /\ UNCHANGED <<durable, crashes>>

-----------------------------------------------------------------------------
Crash ==
    /\ stage # "down"
    /\ crashes < MaxCrashes
    /\ crashes' = crashes + 1
    /\ stage' = "down"
    /\ UNCHANGED <<durable, committed, item, expected>>

(* The constructor heals the route from its ledger.  The runner's one then *)
(* rebinds every signal that has a position, which requires its route to   *)
(* be FILLED; it refuses to start otherwise.                               *)
RebindAllowed == (\E t \in Tracks : order[t].state = "FILLED")
                   => FinishedRoute.state = "FILLED"

Restart ==
    /\ stage = "down"
    /\ RunnerRestart => RebindAllowed
    /\ route' = FinishedRoute
    /\ stage' = Dispatch(item, FinishedRoute)
    /\ UNCHANGED <<order, ledger, context, audit, source>>

-----------------------------------------------------------------------------
Handler ==
    \/ InsertRoute \/ RouteEntryPending \/ Routed \/ PersistContext
    \/ FinishExpiry \/ FinishSettlement \/ RecordDecision \/ CommitCursor
    \/ \E t \in Tracks :
         \/ CreateOrder(t) \/ MarkEntryPending(t) \/ InsertDeadline(t)
         \/ RejectExpired(t) \/ RecordExpired(t)
         \/ SettleOrder(t) \/ RecordMarketTerminal(t)

Next ==
    \/ \E i \in {Candidate, OwnMarket} \cup Feed : Deliver(i)
    \/ Handler
    \/ Crash
    \/ Restart

(* The process runs its handler to the end and is restarted by its         *)
(* operator; nothing obliges the source to deliver or the host to crash.   *)
Fairness == WF_vars(Handler) /\ WF_vars(Restart)

Spec == Init /\ [][Next]_vars /\ Fairness
-----------------------------------------------------------------------------
(* Rows each table can hold, and the stages of the handler.                *)
Rows == [state : {"NONE", "CREATED", "PENDING", "ROUTED", "ENTRY_PENDING",
                  "FILLED", "REJECTED"},
         why   : {"NONE", "ROUTED", "SIGNAL", "WAITING", "EXPIRED",
                  "SLIPPAGE", "FILLED", "ALL_EXPIRED"},
         at    : Nat,
         by    : Nat]

(* Type invariant of the tables, the cursor, the item in flight and the    *)
(* volatile stage.                                                         *)
TypeOK ==
    /\ order \in [Tracks -> Rows]
    /\ ledger \in [Tracks -> Rows]
    /\ route \in Rows
    /\ context \in BOOLEAN
    /\ audit \in [verdict : {"NONE", "TRADE", "SKIP"}, at : Nat]
    /\ committed \in Nat
    /\ item \in {NoItem, Candidate, OwnMarket} \cup Feed
    /\ stage \in {"idle", "route", "context", "expire", "settle", "audit",
                  "commit", "down"}
    /\ crashes \in 0 .. MaxCrashes
    /\ expected \in [Tracks -> Rows]

(* The lifecycle commits before the ledger, one track at a time: the two   *)
(* tables agree on every settled track, at most ONE track has its order    *)
(* terminal and its ledger row still pending, and none once the item is    *)
(* committed, whatever crashes fell in between.                            *)
HalfWritten == {t \in Tracks : /\ order[t].state \in TerminalStates
                               /\ ledger[t].state \notin TerminalStates}

LedgerFollowsLifecycle ==
    /\ \A t \in Tracks :
         ledger[t].state \in TerminalStates =>
           /\ order[t].state = ledger[t].state
           /\ order[t].why = ledger[t].why
           /\ order[t].at = ledger[t].at
    /\ \A t, u \in HalfWritten : t = u
    /\ item = NoItem => HalfWritten = {}

(* No crash schedule brings the persisted tables to a state one of the     *)
(* fail-closed checks raises on: lifecycle replays of reject_order and     *)
(* fill_order, _finish_terminal_route's and _validate_terminal_route's     *)
(* consistency checks, and the audit's determinism check.  Raising there   *)
(* is permanent, because the same item is delivered again.                 *)
OrderReplayable(t, target) == \/ order[t].state = "ENTRY_PENDING" /\ order[t].at <= target.at
                              \/ order[t] = target

FinishRaises ==
    \/ Pending # {} /\ route.state \in TerminalStates
    \/ /\ ~Unfinished
       /\ \/ \E t \in Tracks : order[t].state # ledger[t].state
          \/ /\ \E t \in Tracks : ledger[t].state = "FILLED"
             /\ \E t \in Settled : ledger[t].state # "FILLED"
          \/ \E t \in Tracks \ Settled : ledger[t].why # "EXPIRED"
          \/ \E t, u \in Settled : \/ ledger[t].at # ledger[u].at
                                   \/ ledger[t].by # ledger[u].by
          \/ route.state \in TerminalStates /\ route # FinalRoute

NeverRaises ==
    /\ ~FinishRaises
    /\ stage = "expire" =>
         \A t \in Due(item.at) : OrderReplayable(t, Expiry(t))
    /\ stage = "settle" =>
         \A t \in Eligible(item.at) : OrderReplayable(t, SettledOrder)
    /\ stage = "audit" /\ Auditable =>
         context /\ (audit.verdict = "NONE" \/ audit = Verdict)

(* The durable outcome is a function of the committed items alone: what a  *)
(* run without crashes decides is what every crash schedule decides, so a  *)
(* redelivered item is neither lost nor applied twice, and an early crash  *)
(* never moves a track to another observation or past its deadline.        *)
ReplayDeterminism ==
    item = NoItem =>
      \A t \in Tracks :
        ledger[t] = IF expected[t] # Undecided THEN expected[t]
                    ELSE IF committed = 0 THEN NoRow
                    ELSE PendingRow

(* A terminal route is audited by the time the item that ended it commits, *)
(* with the verdict of its tracks: TRADE exactly when some track opened a  *)
(* position.  The route is terminal exactly when every track is.           *)
AuditedByCommit ==
    item = NoItem /\ committed > 0 =>
      /\ route.state \in TerminalStates
           <=> \A t \in Tracks : order[t].state \in TerminalStates
      /\ route.state \in TerminalStates =>
           /\ audit = Verdict
           /\ audit.verdict = "TRADE"
                <=> \E t \in Tracks : order[t].state = "FILLED"

(* A clock tick past every deadline ends the entry: each order terminal,   *)
(* the route terminal and its decision recorded, in spite of crashes.      *)
PastDeadlines == /\ item.kind = "CLOCK"
                 /\ \A t \in Tracks : item.at >= ExpireAt(t)

EntryEnds == PastDeadlines ~> /\ \A t \in Tracks : order[t].state \in TerminalStates
                              /\ route.state \in TerminalStates
                              /\ audit.verdict # "NONE"

(* The runner's constructor is documented as restart safe: after any crash *)
(* it can rebind the positions it finds.                                   *)
RestartRebinds == stage = "down" => RebindAllowed

-----------------------------------------------------------------------------
(* The inductive invariant behind these properties.                        *)

Fate(t) == Resolve(t, item, Cursor)   \* what the item in flight decides

(* Which item may be in flight, and at which stages.                       *)
StageInv ==
    /\ item = NoItem => stage \in {"idle", "down"}
    /\ stage = "idle" => item = NoItem
    /\ item # NoItem => committed < MaxItems
    /\ item # NoItem => /\ committed = 0 => item = Candidate
                        /\ committed = 1 => item = OwnMarket
                        /\ committed > 1 => item \in Feed
    /\ committed > 0 => stage # "context"
    /\ stage = "route" => item = Candidate \/ (item.kind = "MARKET" /\ Cursor > OwnCursor)
    /\ stage = "expire" => item.kind \in {"MARKET", "CLOCK"} /\ Cursor > OwnCursor
    /\ stage = "settle" => Ripe(item, Cursor) /\ Due(item.at) = {}

(* While the candidate is being routed.                                    *)
RoutedRow == Row("ROUTED", "SIGNAL", SignalAt, 0)
RoutingInv ==
    committed = 0 =>
      /\ \A t \in Tracks :
           /\ expected[t] = Undecided
           /\ order[t] \in {NoRow, Row("CREATED", "ROUTED", SignalAt, 0), WaitingRow}
           /\ ledger[t] \in {NoRow, PendingRow}
      /\ route \in {NoRow, RoutedRow, WaitingRow}
      /\ route = WaitingRow => \A t \in Tracks : order[t] = WaitingRow
      /\ route # WaitingRow => Listed = {}
      /\ item = NoItem => Listed = {}
      /\ stage \in {"context", "commit"} => Listed = Tracks /\ route = WaitingRow
      /\ stage = "commit" => context
      /\ stage \notin {"expire", "settle", "audit"}
      /\ audit.verdict = "NONE"

(* A decided track is expired, or settled by the one observation that      *)
(* decided every track left open.                                          *)
SettlementRow(t, row) ==
    /\ row.state \in TerminalStates
    /\ row.why = IF row.state = "FILLED" THEN "FILLED" ELSE "SLIPPAGE"
    /\ row.at \in ReadyAt .. ThroughAt[t]
    /\ row.by \in 1 .. committed

ExpectedInv ==
    /\ \A t \in Tracks : \/ expected[t] \in {Undecided, Expiry(t)}
                         \/ SettlementRow(t, expected[t])
    /\ \A t, u \in Tracks :
         expected[t].by # 0 => /\ expected[u] # Undecided
                               /\ expected[u].by # 0 => expected[u] = expected[t]

(* Order, then ledger, then the cursor: how far each track has come.       *)
TrackInv ==
    committed > 0 =>
      \A t \in Tracks :
        \/ /\ expected[t] # Undecided
           /\ ledger[t] = expected[t]
           /\ order[t] = OrderOf(expected[t])
        \/ /\ expected[t] = Undecided
           /\ ledger[t] = PendingRow
           /\ order[t] = WaitingRow
        \/ /\ expected[t] = Undecided
           /\ Fate(t) # Undecided
           /\ ledger[t] \in {PendingRow, Fate(t)}
           /\ order[t] = OrderOf(Fate(t))

HalfInv ==
    committed > 0 =>
      \A t \in Tracks :
        ledger[t] = PendingRow /\ order[t] # WaitingRow =>
          IF order[t].why = "EXPIRED" THEN IsFirst(t, Due(item.at))
                                      ELSE /\ Due(item.at) = {}
                                           /\ IsFirst(t, Eligible(item.at))

(* Once an observation has begun to settle tracks, no track is due.        *)
SettlingInv ==
    committed > 0 =>
      \A t \in Tracks : /\ expected[t] = Undecided
                        /\ ledger[t].by # 0
                        => Due(item.at) = {}

RouteInv ==
    committed > 0 => /\ context
                     /\ \/ route = WaitingRow
                        \/ Pending = {} /\ route = FinalRoute
                     /\ \/ audit.verdict = "NONE"
                        \/ route # WaitingRow /\ audit = Verdict

(* When the handler is through with an item, all that it decides is done.  *)
DoneInv ==
    /\ committed > 0
    /\ item = NoItem \/ stage \in {"audit", "commit"}
    => /\ \A t \in Tracks :
            ledger[t] = PendingRow => /\ Fate(t) = Undecided
                                      /\ order[t] = WaitingRow
       /\ Pending = {} => route # WaitingRow

(* A route that is through is audited before its item commits, and stays   *)
(* audited.                                                                *)
AuditInv ==
    committed > 0 =>
      /\ (\A t \in Tracks : expected[t] # Undecided) => audit.verdict # "NONE"
      /\ stage = "commit" /\ route # WaitingRow => audit.verdict # "NONE"

Inductive == /\ StageInv
             /\ RoutingInv
             /\ ExpectedInv
             /\ TrackInv
             /\ HalfInv
             /\ SettlingInv
             /\ RouteInv
             /\ DoneInv
             /\ AuditInv

-----------------------------------------------------------------------------
(* Refinement.  An observation's first fill or slippage rejection settles  *)
(* all the tracks that are still pending; the rest of the loop stutters.   *)
Decided(row) ==
    [outcome |-> CASE row.why = "EXPIRED"  -> "EXPIRED"
                   [] row.why = "SLIPPAGE" -> "SLIPPED"
                   [] row.why = "FILLED"   -> "FILLED",
     at |-> row.at,
     by |-> row.by]

(* Tracks whose order an observation has filled or rejected for slippage.  *)
Settlers == {u \in Tracks : order[u].why \in {"SLIPPAGE", "FILLED"}}

Promised(t) ==
    IF ledger[t].state \in TerminalStates THEN Decided(ledger[t])
    ELSE IF order[t].why = "EXPIRED" THEN Decided(order[t])
    ELSE IF Settlers # {}
         THEN Decided([order[CHOOSE u \in Settlers : TRUE] EXCEPT !.by = Cursor])
    ELSE [outcome |-> "OPEN", at |-> 0, by |-> 0]

Promise == INSTANCE EntryPromise WITH
               Instants <- Times,
               Cursors  <- 1 .. MaxItems,
               decision <- [t \in Tracks |-> Promised(t)]

(* Each track expires on its own or is settled, with all its open          *)
(* siblings, by one observation inside every one of their windows.         *)
EntryPromised == Promise!Spec
=============================================================================
