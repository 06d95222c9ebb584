------------------------- MODULE ExitTracks_proofs -------------------------
(***************************************************************************)
(* Proofs about ExitTracks, for any tracks, rules, instants, items and     *)
(* crashes: the tables are always what the fail-closed checks expect and a *)
(* close is that of its accepted attempt, under both bindings; when a      *)
(* batch is one commit no crash loses or moves a trigger or a fill; when   *)
(* every statement commits, the exit implements ExitPromise.  Under both   *)
(* every step of the handler goes on, it is never stuck, and every         *)
(* position whose fallback is behind a committed item is leaving.          *)
(***************************************************************************)
EXTENDS ExitTracks, LeastNumber, TLAPS

(* ------------------------- one track's rows ---------------------------- *)
Positions == [state : {"OPEN", "EXIT_PENDING", "CLOSED"},
              why : (Reasons \ {"NONE"}) \cup {"OPENED"}, at : Nat]
Watched   == [bound : BOOLEAN, seen : Marks, fresh : Marks, active : BOOLEAN,
              peak : Returns \cup {0}]
Routes    == [state : {"NONE", "WAITING", "SELECTED", "FILLED"},
              ref : [at : Nat, by : 0 .. MaxItems], fill : Marks]
Attempts  == [at : Times, by : 0 .. MaxItems, verdict : Verdicts]
Watches   == [seen : Marks, active : BOOLEAN, peak : Returns \cup {0}, intent : Intents]

Typed(d) ==
    /\ d[1] \in [Tracks -> Positions] /\ d[2] \in [Tracks -> Watched]
    /\ d[3] \in [Tracks -> Intents]   /\ d[4] \in [Tracks -> Routes]
    /\ d[5] \in [Tracks -> Attempts]  /\ d[6] \in 0 .. MaxItems
    /\ d[7] \in [Tracks -> Watches]

Opened         == [state |-> "OPEN", why |-> "OPENED", at |-> OpenAt]
AsksFor(n)     == [state |-> "EXIT_PENDING", why |-> n.why, at |-> n.at]
ClosedBy(n, x) == [state |-> "CLOSED", why |-> n.why, at |-> x.fill.at]
PriceOf(n, r)  == IF n.why # "FALLBACK" THEN Mark(n.at, n.by)
                  ELSE IF r.fresh.by # 0 THEN r.fresh ELSE SignalMark
RuleOf(t)      == IF Mode[t] = "TP" THEN "TAKE_PROFIT" ELSE "TRAIL"

(* Its rule asks inside the window, or the fallback at its own instant.    *)
Decides(t, n) == \/ n = NoIntent \/ n = FallbackOf(t)
                 \/ /\ n.why = RuleOf(t) /\ n.by >= 1
                    /\ n.at \in Times /\ OpenAt <= n.at /\ n.at <= Deadline(t)

Follows(p, n, x) ==
    /\ p.state = "OPEN"         => p = Opened
    /\ p.state = "EXIT_PENDING" => n # NoIntent /\ p = AsksFor(n)
    /\ p.state = "CLOSED"       => n # NoIntent /\ p = ClosedBy(n, x)

RouteFollows(p, r, n, x) ==
    /\ x.state # "NONE"   => p.state # "OPEN" /\ x.ref = PriceOf(n, r)
    /\ x.state = "WAITING" => p.state = "EXIT_PENDING"
    /\ x.state = "FILLED" => p.state = "CLOSED"
    /\ p.state = "CLOSED" => x.state \in {"SELECTED", "FILLED"}

(* The fill is the accepted attempt, late enough and after its reference.  *)
FilledBy(r, n, x, a) ==
    x.state \in {"SELECTED", "FILLED"} =>
      /\ a = [at |-> x.fill.at, by |-> x.fill.by, verdict |-> "ACCEPTED"]
      /\ x.fill.at >= n.at + Latency
      /\ After(x.fill, PriceOf(n, r))
      /\ x.fill.by # n.by

Trails(r, n) == /\ n # NoIntent => r.bound
                /\ r.active <=> r.peak # 0

Sound(t, p, r, n, x, a) ==
    Decides(t, n) /\ Follows(p, n, x) /\ RouteFollows(p, r, n, x) /\ FilledBy(r, n, x, a)
      /\ Trails(r, n)

(* ------------------------ between two commits -------------------------- *)
SoundTables ==
    \A t \in Tracks : Sound(t, position[t], track[t], intent[t], exit[t], attempt[t])

(* A rule's intent was made by a committed item, or by this one.           *)
Recent ==
    \A t \in Tracks :
        \/ intent[t].by <= committed
        \/ intent[t].by = Cursor /\ item.kind = "MARKET" /\ intent[t].at = item.at

Starts   == {"down", "recover", "rebind"}
Quiet    == {"idle"} \cup Starts
Watching == {"idle", "bind", "see", "fresh", "rule", "commit"}

InFlight ==
    /\ stage = "idle" => item = NoItem
    /\ stage \notin Quiet => item # NoItem
    /\ item # NoItem => committed < MaxItems
    /\ stage \in Quiet \cup {"bind", "commit"} => turn = 1

(* How far the handler has come with routes and selected fills.            *)
Progress ==
    /\ stage \notin {"down", "recover", "close"} => Selected = {}
    /\ stage = "close" => Selected = {turn}
    /\ stage \in Watching => Unrouted = {}
    /\ stage = "apply"   => \A t \in Unrouted : t < turn
    /\ stage = "execute" => \A t \in Unrouted : t >= turn
    /\ stage \in {"select", "close"} => \A t \in Unrouted : t > turn
    /\ stage \in {"see", "fresh", "rule"} => Unbound = {}

(* What the handler knows of the track it is at.                           *)
AtTurn ==
    /\ stage \in {"fresh", "rule"} =>
         /\ intent[turn] = NoIntent /\ track[turn].seen = Here
         /\ item.kind = "MARKET" /\ After(Here, EntryMark) /\ item.at <= Deadline(turn)
    /\ stage = "select" =>
         /\ position[turn].state = "EXIT_PENDING" /\ exit[turn].state = "WAITING"
         /\ item.kind = "MARKET" /\ item.at >= intent[turn].at + Latency
         /\ After(Here, exit[turn].ref)
         /\ attempt[turn] = [at |-> item.at, by |-> Cursor, verdict |-> "ACCEPTED"]

(* What a batch that is rolled back returns to: the tables between items.  *)
Restful(d) ==
    /\ Typed(d)
    /\ \A t \in Tracks :
         /\ Sound(t, d[1][t], d[2][t], d[3][t], d[4][t], d[5][t])
         /\ d[3][t].by <= d[6]
         /\ d[4][t].state # "SELECTED"
         /\ d[1][t].state = "OPEN" \/ d[4][t].state # "NONE"

Reversible ==
    Atomic => /\ stage \in Starts => item.kind # "MARKET"
              /\ stage \notin Starts /\ item.kind # "CLOCK" => Restful(saved)

Typing == /\ Typed(database) /\ item \in Feed \cup {NoItem} /\ turn \in Tracks
          /\ crashes \in 0 .. MaxCrashes
          /\ stage \in {"idle", "bind", "see", "fresh", "rule", "apply", "execute", "select",
                        "close", "commit", "down", "recover", "rebind"}

IInv == Typing /\ SoundTables /\ Recent /\ InFlight /\ Progress /\ AtTurn /\ Reversible
-----------------------------------------------------------------------------
LEMMA ItemShape ==
    ASSUME item \in Feed \cup {NoItem}
    PROVE  /\ item.kind \in {"MARKET", "CLOCK", "NONE"} /\ item.at \in Times
           /\ item.ret \in Returns \cup {0}
           /\ item.kind = "NONE" <=> item = NoItem
           /\ item.kind = "CLOCK" => item.exec = "NONE"
<1> USE DEF Item, NoItem, Times
<1>1. CASE item = NoItem
  BY <1>1, BoundAssumption
<1>2. CASE item \in Feed
  BY <1>2, BoundAssumption DEF Feed
<1> QED BY <1>1, <1>2

LEMMA FeedShape ==
    ASSUME NEW i \in Feed
    PROVE  i # NoItem /\ i.kind \in {"MARKET", "CLOCK"}
BY DEF Feed, Item, NoItem

LEMMA Numbers ==
    /\ OpenAt \in Nat /\ SignalAt \in Nat /\ Latency \in Nat /\ SignalAt <= OpenAt
    /\ MaxItems \in Nat /\ MaxTime \in Nat /\ MaxCrashes \in Nat /\ NumTracks \in Nat \ {0}
    /\ Times \subseteq Nat /\ 0 \in Times /\ Tracks \subseteq Nat /\ 1 \in Tracks
    /\ Returns \cup {0} \subseteq Nat
    /\ \A t \in Tracks : /\ Deadline(t) \in Nat /\ FireAt(t) \in Nat /\ OpenAt < FireAt(t)
                         /\ FireAt(t) = Deadline(t) + 1
                         /\ Target[t] \in Nat \ {0} /\ Giveback[t] \in Nat \ {0}
                         /\ Mode[t] \in {"TP", "TRAIL"}
                         /\ FallbackOf(t) \in Intents /\ FallbackOf(t) # NoIntent
                         /\ FallbackOf(t).by = 0
<1>1. /\ OpenAt \in Nat /\ SignalAt \in Nat /\ Latency \in Nat /\ SignalAt <= OpenAt
      /\ MaxItems \in Nat /\ MaxTime \in Nat /\ MaxCrashes \in Nat /\ NumTracks \in Nat \ {0}
      /\ Times \subseteq Nat /\ 0 \in Times /\ Tracks \subseteq Nat /\ 1 \in Tracks
      /\ Returns \cup {0} \subseteq Nat
  BY TracksAssumption, EntryAssumption, BoundAssumption DEF Times, Tracks
<1>2. ASSUME NEW t \in Tracks
      PROVE  /\ Deadline(t) \in Nat /\ FireAt(t) \in Nat /\ OpenAt < FireAt(t)
             /\ FireAt(t) = Deadline(t) + 1
             /\ Target[t] \in Nat \ {0} /\ Giveback[t] \in Nat \ {0}
             /\ Mode[t] \in {"TP", "TRAIL"}
  <2>1. /\ Fallback[t] \in Nat /\ Target[t] \in Nat \ {0} /\ Giveback[t] \in Nat \ {0}
        /\ Mode[t] \in {"TP", "TRAIL"}
    BY SpecAssumption
  <2>2. SignalAt \in Nat /\ OpenAt \in Nat /\ OpenAt <= SignalAt + Fallback[t]
    BY EntryAssumption
  <2> QED BY <2>1, <2>2 DEF Deadline, FireAt
<1>3. ASSUME NEW t \in Tracks
      PROVE  /\ FallbackOf(t) \in Intents /\ FallbackOf(t) # NoIntent
             /\ FallbackOf(t).by = 0
  BY <1>1, <1>2 DEF FallbackOf, Intent, Intents, NoIntent, Reasons
<1> QED BY <1>1, <1>2, <1>3

LEMMA InitIInv == Init => IInv
<1> SUFFICES ASSUME Init PROVE IInv
  OBVIOUS
<1>1. Typed(database)
  BY Numbers DEF Init, Typed, database, Positions, Watched, Routes, Attempts, Watches,
     Marks, NoMark, Mark, Intents, NoIntent, Verdicts, Watch0, Reasons, Intent
<1>2. \A t \in Tracks :
        /\ Sound(t, position[t], track[t], intent[t], exit[t], attempt[t])
        /\ intent[t].by <= committed
        /\ exit[t].state # "SELECTED" /\ position[t].state = "OPEN"
  BY Numbers DEF Init, Sound, Decides, Follows, Opened, RouteFollows, FilledBy, Trails,
     NoIntent, Intent
<1>3. Atomic => Restful(saved)
  BY <1>1, <1>2 DEF Init, Restful, database
<1>4. Typing
  BY <1>1, Numbers DEF Init, Typing
<1>5. SoundTables /\ Recent /\ InFlight
  BY <1>2 DEF Init, SoundTables, Recent, InFlight, Quiet, Starts
<1>6. Progress /\ AtTurn
  BY <1>2 DEF Init, Progress, AtTurn, Selected, Unrouted, Leaving, Watching
<1>7. Reversible
  BY <1>3 DEF Init, Reversible, Starts
<1> QED BY <1>4, <1>5, <1>6, <1>7 DEF IInv
-----------------------------------------------------------------------------
LEMMA Advances ==
    ASSUME NEW t \in Tracks, NEW here, NEW next, Advance(t, here, next)
    PROVE  /\ turn' \in Tracks
           /\ \/ t = NumTracks /\ stage' = next /\ turn' = 1
              \/ t # NumTracks /\ stage' = here /\ turn' = t + 1
           /\ UNCHANGED <<item, committed, expected, crashes, saved, Cursor, Here>>
BY Numbers DEF Advance, Tracks, Cursor, Here

LEMMA Stays ==
    ASSUME NEW s, Stay(s)
    PROVE  /\ stage' = s /\ turn' = turn
           /\ UNCHANGED <<item, committed, expected, crashes, saved, Cursor, Here>>
BY DEF Stay, Cursor, Here

LEMMA KeepsReversible ==
    ASSUME Reversible, UNCHANGED <<item, saved>>, stage \in Starts <=> stage' \in Starts
    PROVE  Reversible'
BY DEF Reversible

(* What is known of a track's rows, and of the item in flight.             *)
LEMMA Rows ==
    ASSUME IInv, NEW t \in Tracks
    PROVE  /\ position[t] \in Positions /\ track[t] \in Watched /\ intent[t] \in Intents
           /\ exit[t] \in Routes /\ attempt[t] \in Attempts /\ expected[t] \in Watches
           /\ Sound(t, position[t], track[t], intent[t], exit[t], attempt[t])
           /\ committed \in Nat /\ committed <= MaxItems /\ Cursor = committed + 1
           /\ item.kind \in {"MARKET", "CLOCK", "NONE"} /\ item.at \in Times
           /\ item.ret \in Returns \cup {0} /\ (item.kind = "NONE" <=> item = NoItem)
           /\ Here = [at |-> item.at, by |-> Cursor]
           /\ item # NoItem => Cursor \in 0 .. MaxItems /\ Here \in Marks
<1>1. Typed(database) /\ item \in Feed \cup {NoItem}
  BY DEF IInv, Typing
<1>2. /\ position[t] \in Positions /\ track[t] \in Watched /\ intent[t] \in Intents
      /\ exit[t] \in Routes /\ attempt[t] \in Attempts /\ expected[t] \in Watches
      /\ committed \in 0 .. MaxItems
  BY <1>1 DEF Typed, database
<1>3. committed \in Nat /\ committed <= MaxItems
  BY <1>2, Numbers
<1>4. /\ item.kind \in {"MARKET", "CLOCK", "NONE"} /\ item.at \in Times
      /\ item.ret \in Returns \cup {0} /\ (item.kind = "NONE" <=> item = NoItem)
  BY <1>1, ItemShape
<1>5. Sound(t, position[t], track[t], intent[t], exit[t], attempt[t])
  BY DEF IInv, SoundTables
<1>6. Here = [at |-> item.at, by |-> Cursor]
  BY DEF Here, Mark
<1>7. item # NoItem => Cursor \in 0 .. MaxItems /\ Here \in Marks
  BY <1>3, <1>4, <1>6, Numbers DEF IInv, InFlight, Cursor, Marks
<1> QED BY <1>2, <1>3, <1>4, <1>5, <1>6, <1>7 DEF Cursor

LEMMA Instants ==
    ASSUME IInv, NEW t \in Tracks
    PROVE  /\ committed \in Nat /\ Cursor = committed + 1 /\ Cursor \in Nat /\ Cursor >= 1
           /\ item.at \in Times /\ item.at \in Nat /\ Here = [at |-> item.at, by |-> Cursor]
           /\ intent[t].at \in Nat /\ intent[t].by \in 0 .. MaxItems /\ intent[t].by \in Nat
           /\ track[t].fresh \in Marks /\ Marks \subseteq [at : Nat, by : 0 .. MaxItems]
<1>1. /\ committed \in Nat /\ Cursor = committed + 1 /\ item.at \in Times
      /\ Here = [at |-> item.at, by |-> Cursor] /\ intent[t] \in Intents
      /\ track[t].fresh \in Marks
  BY Rows DEF Watched
<1>2. Times \subseteq Nat /\ MaxItems \in Nat
  BY Numbers
<1>3. intent[t].at \in Nat /\ intent[t].by \in 0 .. MaxItems
  BY <1>1, <1>2 DEF Intents, NoIntent, Intent
<1>4. Marks \subseteq [at : Nat, by : 0 .. MaxItems]
  BY <1>2 DEF Marks
<1>5. Cursor \in Nat /\ Cursor >= 1 /\ item.at \in Nat
  <2>1. committed \in Nat /\ Cursor = committed + 1
    BY <1>1
  <2>2. Cursor \in Nat /\ Cursor >= 1
    BY <2>1
  <2>3. item.at \in Times /\ Times \subseteq Nat
    BY <1>1, <1>2
  <2> QED BY <2>2, <2>3
<1>6. intent[t].by \in Nat
  BY <1>2, <1>3
<1> QED BY <1>1, <1>3, <1>4, <1>5, <1>6

(* Steps that leave the tables alone.                                      *)
LEMMA QuietStep ==
    ASSUME IInv, UNCHANGED tables, UNCHANGED <<committed, expected, item, saved, crashes>>,
           stage' \in {"see", "apply", "execute", "commit", "recover", "rebind"},
           turn' \in Tracks
    PROVE  /\ Typing' /\ SoundTables' /\ Recent' /\ UNCHANGED <<Unrouted, Selected, Unbound>>
BY DEF IInv, Typing, SoundTables, Recent, Typed, database, tables, Cursor, Unrouted,
       Leaving, Selected, Unbound

LEMMA PassingStep ==
    ASSUME IInv,
           \/ Bound \/ Restart \/ Recovered
           \/ \E t \in Tracks : \/ Ignore(t) \/ SkipUnusable(t) \/ Hold(t)
                                \/ NothingToRequest(t) \/ NoAttempt(t)
    PROVE  IInv'
<1> USE DEF Quiet, Starts, Watching
<1>1. CASE Bound
  <2>1. /\ UNCHANGED tables /\ stage = "bind" /\ stage' = "see" /\ turn' = turn
        /\ UNCHANGED <<item, committed, expected, crashes, saved, Cursor, Here>>
        /\ Unbound = {}
    BY <1>1, Stays DEF Bound
  <2>2. Typing' /\ SoundTables' /\ Recent' /\ UNCHANGED <<Unrouted, Selected, Unbound>>
    BY <2>1, QuietStep DEF IInv, Typing
  <2>3. InFlight' /\ Progress' /\ AtTurn'
    BY <2>1, <2>2 DEF IInv, InFlight, Progress, AtTurn
  <2>4. Reversible'
    BY <2>1, KeepsReversible DEF IInv
  <2> QED BY <2>2, <2>3, <2>4 DEF IInv
<1>2. CASE Restart \/ Recovered
  <2>1. /\ UNCHANGED tables /\ turn' = turn
        /\ \/ stage = "down" /\ stage' = "recover"
           \/ stage = "recover" /\ stage' = "rebind" /\ Selected = {}
        /\ UNCHANGED <<item, committed, expected, crashes, saved, Cursor, Here>>
    BY <1>2, Stays DEF Restart, Recovered
  <2>2. Typing' /\ SoundTables' /\ Recent' /\ UNCHANGED <<Unrouted, Selected, Unbound>>
    BY <2>1, QuietStep DEF IInv, Typing
  <2>3. InFlight' /\ Progress' /\ AtTurn'
    BY <2>1, <2>2 DEF IInv, InFlight, Progress, AtTurn
  <2>4. Reversible'
    BY <2>1, KeepsReversible DEF IInv
  <2> QED BY <2>2, <2>3, <2>4 DEF IInv
<1>3. ASSUME NEW t \in Tracks,
             \/ Ignore(t) \/ SkipUnusable(t) \/ Hold(t) \/ NothingToRequest(t) \/ NoAttempt(t)
      PROVE  IInv'
  <2>1. PICK here \in {"see", "apply", "execute"}, next \in {"apply", "execute", "commit"} :
          /\ UNCHANGED tables /\ turn = t /\ Advance(t, here, next)
          /\ \/ stage \in {"see", "fresh", "rule"} /\ here = "see" /\ next = "apply"
             \/ stage = "apply" /\ here = "apply" /\ next = "execute"
             \/ stage = "execute" /\ here = "execute" /\ next = "commit" /\ t \notin Unrouted
    BY <1>3 DEF Ignore, SkipUnusable, Hold, NothingToRequest, NoAttempt, At
  <2>2. /\ turn' \in Tracks
        /\ \/ t = NumTracks /\ stage' = next /\ turn' = 1
           \/ t # NumTracks /\ stage' = here /\ turn' = t + 1
        /\ UNCHANGED <<item, committed, expected, crashes, saved, Cursor, Here>>
    BY <2>1, Advances
  <2>3. Typing' /\ SoundTables' /\ Recent' /\ UNCHANGED <<Unrouted, Selected, Unbound>>
    BY <2>1, <2>2, QuietStep DEF IInv, Typing
  <2>4. InFlight'
    BY <2>1, <2>2 DEF IInv, InFlight
  <2>5. Progress'
    <3>1. \A u \in Tracks : u \in Nat /\ u <= NumTracks /\ u >= 1
      BY Numbers DEF Tracks
    <3>2. Unrouted \subseteq Tracks
      BY DEF Unrouted
    <3> QED BY <2>1, <2>2, <2>3, <3>1, <3>2, Numbers DEF IInv, Progress
  <2>6. AtTurn'
    BY <2>1, <2>2 DEF AtTurn
  <2>7. Reversible'
    BY <2>1, <2>2, KeepsReversible DEF IInv
  <2> QED BY <2>3, <2>4, <2>5, <2>6, <2>7 DEF IInv
<1> QED BY <1>1, <1>2, <1>3

(* Steps that change one row of one track and nothing else.                *)
Moves == {"bind", "see", "fresh", "rule", "apply", "execute", "select", "close", "commit",
          "recover", "rebind"}

LEMMA PositionStep ==
    ASSUME IInv, NEW t \in Tracks, NEW p \in Positions,
           position' = [position EXCEPT ![t] = p], UNCHANGED <<track, intent, exit, attempt>>,
           UNCHANGED <<committed, expected, item, saved, crashes>>,
           Sound(t, p, track[t], intent[t], exit[t], attempt[t]),
           turn' \in Tracks, stage' \in Moves
    PROVE  /\ Typing' /\ SoundTables' /\ Recent'
           /\ position'[t] = p
           /\ Unrouted' = {u \in Tracks :
                            IF u = t THEN p.state \in {"EXIT_PENDING", "CLOSED"}
                                            /\ exit[t].state = "NONE"
                                     ELSE u \in Unrouted}
           /\ UNCHANGED <<Selected, Unbound>>
<1>1. /\ position \in [Tracks -> Positions] /\ track \in [Tracks -> Watched]
      /\ intent \in [Tracks -> Intents] /\ exit \in [Tracks -> Routes]
      /\ attempt \in [Tracks -> Attempts] /\ committed \in 0 .. MaxItems
      /\ expected \in [Tracks -> Watches]
  BY DEF IInv, Typing, Typed, database
<1>2. position'[t] = p /\ \A u \in Tracks \ {t} : position'[u] = position[u]
  BY <1>1
<1>3. Typing'
  BY <1>1 DEF IInv, Typing, Typed, database, Moves
<1>4. SoundTables'
  BY <1>2 DEF IInv, SoundTables
<1>5. Recent'
  <2>1. committed \in Nat /\ Cursor' = Cursor
    BY <1>1, Numbers DEF Cursor
  <2> QED BY <1>2, <2>1 DEF IInv, Recent
<1>6. Unrouted' = {u \in Tracks :
                    IF u = t THEN p.state \in {"EXIT_PENDING", "CLOSED"}
                                    /\ exit[t].state = "NONE"
                             ELSE u \in Unrouted}
  BY <1>2 DEF Unrouted, Leaving
<1>7. Selected' = {u \in Tracks : IF u = t THEN exit[t].state = "SELECTED" ELSE u \in Selected}
  BY <1>2 DEF Selected
<1>8. Unbound' = {u \in Tracks : IF u = t THEN ~track[t].bound ELSE u \in Unbound}
  BY <1>2 DEF Unbound
<1> QED BY <1>2, <1>3, <1>4, <1>5, <1>6, <1>7, <1>8 DEF Unrouted, Selected, Unbound, Leaving

LEMMA TrackStep ==
    ASSUME IInv, NEW t \in Tracks, NEW r \in Watched,
           track' = [track EXCEPT ![t] = r], UNCHANGED <<position, intent, exit, attempt>>,
           UNCHANGED <<committed, expected, item, saved, crashes>>,
           Sound(t, position[t], r, intent[t], exit[t], attempt[t]),
           turn' \in Tracks, stage' \in Moves
    PROVE  /\ Typing' /\ SoundTables' /\ Recent'
           /\ track'[t] = r
           /\ UNCHANGED <<Unrouted, Selected>>
           /\ r.bound = track[t].bound => UNCHANGED Unbound
<1>1. /\ position \in [Tracks -> Positions] /\ track \in [Tracks -> Watched]
      /\ intent \in [Tracks -> Intents] /\ exit \in [Tracks -> Routes]
      /\ attempt \in [Tracks -> Attempts] /\ committed \in 0 .. MaxItems
      /\ expected \in [Tracks -> Watches]
  BY DEF IInv, Typing, Typed, database
<1>2. track'[t] = r /\ \A u \in Tracks \ {t} : track'[u] = track[u]
  BY <1>1
<1>3. Typing'
  BY <1>1 DEF IInv, Typing, Typed, database, Moves
<1>4. SoundTables'
  BY <1>2 DEF IInv, SoundTables
<1>5. Recent'
  <2>1. committed \in Nat /\ Cursor' = Cursor
    BY <1>1, Numbers DEF Cursor
  <2> QED BY <1>2, <2>1 DEF IInv, Recent
<1>6. Unrouted' = {u \in Tracks :
                    IF u = t THEN position[t].state \in {"EXIT_PENDING", "CLOSED"}
                                    /\ exit[t].state = "NONE"
                             ELSE u \in Unrouted}
  BY <1>2 DEF Unrouted, Leaving
<1>7. Selected' = {u \in Tracks : IF u = t THEN exit[t].state = "SELECTED" ELSE u \in Selected}
  BY <1>2 DEF Selected
<1>8. Unbound' = {u \in Tracks : IF u = t THEN ~r.bound ELSE u \in Unbound}
  BY <1>2 DEF Unbound
<1> QED BY <1>2, <1>3, <1>4, <1>5, <1>6, <1>7, <1>8 DEF Unrouted, Selected, Unbound, Leaving

LEMMA IntentStep ==
    ASSUME IInv, NEW t \in Tracks, NEW n \in Intents,
           intent' = [intent EXCEPT ![t] = n], UNCHANGED <<position, track, exit, attempt>>,
           UNCHANGED <<committed, expected, item, saved, crashes>>,
           Sound(t, position[t], track[t], n, exit[t], attempt[t]),
           n.by = 0 \/ (n.by = Cursor /\ item.kind = "MARKET" /\ n.at = item.at),
           turn' \in Tracks, stage' \in Moves
    PROVE  /\ Typing' /\ SoundTables' /\ Recent'
           /\ intent'[t] = n
           /\ UNCHANGED <<Unrouted, Selected, Unbound>>
<1>1. /\ position \in [Tracks -> Positions] /\ track \in [Tracks -> Watched]
      /\ intent \in [Tracks -> Intents] /\ exit \in [Tracks -> Routes]
      /\ attempt \in [Tracks -> Attempts] /\ committed \in 0 .. MaxItems
      /\ expected \in [Tracks -> Watches]
  BY DEF IInv, Typing, Typed, database
<1>2. intent'[t] = n /\ \A u \in Tracks \ {t} : intent'[u] = intent[u]
  BY <1>1
<1>3. Typing'
  BY <1>1 DEF IInv, Typing, Typed, database, Moves
<1>4. SoundTables'
  BY <1>2 DEF IInv, SoundTables
<1>5. Recent'
  <2>1. committed \in Nat /\ Cursor' = Cursor
    BY <1>1, Numbers DEF Cursor
  <2> QED BY <1>2, <2>1 DEF IInv, Recent
<1>6. Unrouted' = {u \in Tracks :
                    IF u = t THEN position[t].state \in {"EXIT_PENDING", "CLOSED"}
                                    /\ exit[t].state = "NONE"
                             ELSE u \in Unrouted}
  BY <1>2 DEF Unrouted, Leaving
<1>7. Selected' = {u \in Tracks : IF u = t THEN exit[t].state = "SELECTED" ELSE u \in Selected}
  BY <1>2 DEF Selected
<1>8. Unbound' = {u \in Tracks : IF u = t THEN ~track[t].bound ELSE u \in Unbound}
  BY <1>2 DEF Unbound
<1> QED BY <1>2, <1>3, <1>4, <1>5, <1>6, <1>7, <1>8 DEF Unrouted, Selected, Unbound, Leaving

LEMMA RouteStep ==
    ASSUME IInv, NEW t \in Tracks, NEW x \in Routes,
           exit' = [exit EXCEPT ![t] = x], UNCHANGED <<position, track, intent, attempt>>,
           UNCHANGED <<committed, expected, item, saved, crashes>>,
           Sound(t, position[t], track[t], intent[t], x, attempt[t]),
           turn' \in Tracks, stage' \in Moves
    PROVE  /\ Typing' /\ SoundTables' /\ Recent'
           /\ exit'[t] = x
           /\ Unrouted' = {u \in Tracks :
                            IF u = t THEN Leaving(t) /\ x.state = "NONE" ELSE u \in Unrouted}
           /\ Selected' = {u \in Tracks : IF u = t THEN x.state = "SELECTED" ELSE u \in Selected}
           /\ UNCHANGED Unbound
<1>1. /\ position \in [Tracks -> Positions] /\ track \in [Tracks -> Watched]
      /\ intent \in [Tracks -> Intents] /\ exit \in [Tracks -> Routes]
      /\ attempt \in [Tracks -> Attempts] /\ committed \in 0 .. MaxItems
      /\ expected \in [Tracks -> Watches]
  BY DEF IInv, Typing, Typed, database
<1>2. exit'[t] = x /\ \A u \in Tracks \ {t} : exit'[u] = exit[u]
  BY <1>1
<1>3. Typing'
  BY <1>1 DEF IInv, Typing, Typed, database, Moves
<1>4. SoundTables'
  BY <1>2 DEF IInv, SoundTables
<1>5. Recent'
  <2>1. committed \in Nat /\ Cursor' = Cursor
    BY <1>1, Numbers DEF Cursor
  <2> QED BY <1>2, <2>1 DEF IInv, Recent
<1>6. Unrouted' = {u \in Tracks :
                    IF u = t THEN position[t].state \in {"EXIT_PENDING", "CLOSED"}
                                    /\ x.state = "NONE"
                             ELSE u \in Unrouted}
  BY <1>2 DEF Unrouted, Leaving
<1>7. Selected' = {u \in Tracks : IF u = t THEN x.state = "SELECTED" ELSE u \in Selected}
  BY <1>2 DEF Selected
<1>8. Unbound' = {u \in Tracks : IF u = t THEN ~track[t].bound ELSE u \in Unbound}
  BY <1>2 DEF Unbound
<1> QED BY <1>2, <1>3, <1>4, <1>5, <1>6, <1>7, <1>8 DEF Unrouted, Selected, Unbound, Leaving

LEMMA AttemptStep ==
    ASSUME IInv, NEW t \in Tracks, NEW a \in Attempts,
           attempt' = [attempt EXCEPT ![t] = a], UNCHANGED <<position, track, intent, exit>>,
           UNCHANGED <<committed, expected, item, saved, crashes>>,
           Sound(t, position[t], track[t], intent[t], exit[t], a),
           turn' \in Tracks, stage' \in Moves
    PROVE  /\ Typing' /\ SoundTables' /\ Recent'
           /\ attempt'[t] = a
           /\ UNCHANGED <<Unrouted, Selected, Unbound>>
<1>1. /\ position \in [Tracks -> Positions] /\ track \in [Tracks -> Watched]
      /\ intent \in [Tracks -> Intents] /\ exit \in [Tracks -> Routes]
      /\ attempt \in [Tracks -> Attempts] /\ committed \in 0 .. MaxItems
      /\ expected \in [Tracks -> Watches]
  BY DEF IInv, Typing, Typed, database
<1>2. attempt'[t] = a /\ \A u \in Tracks \ {t} : attempt'[u] = attempt[u]
  BY <1>1
<1>3. Typing'
  BY <1>1 DEF IInv, Typing, Typed, database, Moves
<1>4. SoundTables'
  BY <1>2 DEF IInv, SoundTables
<1>5. Recent'
  <2>1. committed \in Nat /\ Cursor' = Cursor
    BY <1>1, Numbers DEF Cursor
  <2> QED BY <1>2, <2>1 DEF IInv, Recent
<1>6. Unrouted' = {u \in Tracks :
                    IF u = t THEN position[t].state \in {"EXIT_PENDING", "CLOSED"}
                                    /\ exit[t].state = "NONE"
                             ELSE u \in Unrouted}
  BY <1>2 DEF Unrouted, Leaving
<1>7. Selected' = {u \in Tracks : IF u = t THEN exit[t].state = "SELECTED" ELSE u \in Selected}
  BY <1>2 DEF Selected
<1>8. Unbound' = {u \in Tracks : IF u = t THEN ~track[t].bound ELSE u \in Unbound}
  BY <1>2 DEF Unbound
<1> QED BY <1>2, <1>3, <1>4, <1>5, <1>6, <1>7, <1>8 DEF Unrouted, Selected, Unbound, Leaving

LEMMA TurnIsTrack == \A t \in Tracks : t \in Nat /\ 1 <= t /\ t <= NumTracks
BY Numbers DEF Tracks

(* bind_signal.                                                            *)
LEMMA BindStep ==
    ASSUME IInv, NEW t \in Tracks, BindTrack(t)
    PROVE  IInv'
<1> DEFINE r == [track[t] EXCEPT !.bound = TRUE]
<1>1. /\ stage \in {"bind", "rebind"} /\ stage' = stage /\ turn' = turn
      /\ UNCHANGED <<position, intent, exit, attempt>>
      /\ UNCHANGED <<item, committed, expected, crashes, saved, Cursor, Here>>
  BY Stays DEF BindTrack
<1>2. track' = [track EXCEPT ![t] = r]
  BY DEF BindTrack, IInv, Typing, Typed, database, Watched
<1>3. r \in Watched
  BY Rows DEF Watched
<1>4. Sound(t, position[t], r, intent[t], exit[t], attempt[t])
  BY Rows DEF Sound, RouteFollows, FilledBy, Trails, PriceOf, Watched
<1>5. turn' \in Tracks
  BY <1>1 DEF IInv, Typing
<1> HIDE DEF r
<1>6. Typing' /\ SoundTables' /\ Recent' /\ UNCHANGED <<Unrouted, Selected>>
  BY <1>1, <1>2, <1>3, <1>4, <1>5, TrackStep DEF Moves
<1>7. InFlight' /\ Progress' /\ AtTurn'
  BY <1>1, <1>6 DEF IInv, InFlight, Progress, AtTurn, Quiet, Starts, Watching
<1>8. Reversible'
  BY <1>1, KeepsReversible DEF IInv
<1> QED BY <1>6, <1>7, <1>8 DEF IInv

(* on_market_observation marks the observation as seen.                    *)
LEMMA SeeStep ==
    ASSUME IInv, NEW t \in Tracks, SeeObservation(t)
    PROVE  IInv'
<1> DEFINE r == [track[t] EXCEPT !.seen = Here]
<1>1. /\ stage = "see" /\ turn = t /\ stage' = "fresh" /\ turn' = turn
      /\ UNCHANGED <<position, intent, exit, attempt>>
      /\ UNCHANGED <<item, committed, expected, crashes, saved, Cursor, Here>>
      /\ intent[t] = NoIntent /\ ~PastFallback(t) /\ News(t)
  BY Stays DEF SeeObservation, At
<1>2. track' = [track EXCEPT ![t] = r]
  BY DEF SeeObservation, IInv, Typing, Typed, database, Watched
<1>3. Here \in Marks /\ r \in Watched
  BY <1>1, Rows DEF Watched, News
<1>4. Sound(t, position[t], r, intent[t], exit[t], attempt[t])
  BY Rows DEF Sound, RouteFollows, FilledBy, Trails, PriceOf, Watched
<1>5. turn' \in Tracks
  BY <1>1
<1>6. r.seen = Here /\ r.bound = track[t].bound
  BY Rows DEF Watched
<1> HIDE DEF r
<1>7. /\ Typing' /\ SoundTables' /\ Recent' /\ UNCHANGED <<Unrouted, Selected, Unbound>>
      /\ track'[t] = r
  BY <1>1, <1>2, <1>3, <1>4, <1>5, <1>6, TrackStep DEF Moves
<1>8. InFlight' /\ Progress'
  BY <1>1, <1>7 DEF IInv, InFlight, Progress, Quiet, Starts, Watching
<1>9. item.kind = "MARKET" /\ After(Here, EntryMark) /\ item.at <= Deadline(t)
  <2>1. item.at \in Nat /\ Deadline(t) \in Nat
    BY Rows, Numbers
  <2> QED BY <1>1, <2>1 DEF News, PastFallback
<1>10. AtTurn'
  BY <1>1, <1>6, <1>7, <1>9 DEF AtTurn, After, EntryMark, Deadline
<1>11. Reversible'
  BY <1>1, KeepsReversible DEF IInv, Starts
<1> QED BY <1>7, <1>8, <1>10, <1>11 DEF IInv

(* A usable observation is the last fresh mark.                            *)
LEMMA FreshStep ==
    ASSUME IInv, NEW t \in Tracks, RecordFresh(t)
    PROVE  IInv'
<1> DEFINE r == [track[t] EXCEPT !.fresh = Here]
<1>1. /\ stage = "fresh" /\ turn = t /\ stage' = "rule" /\ turn' = turn
      /\ UNCHANGED <<position, intent, exit, attempt>>
      /\ UNCHANGED <<item, committed, expected, crashes, saved, Cursor, Here>>
  BY Stays DEF RecordFresh, At
<1>2. track' = [track EXCEPT ![t] = r]
  BY DEF RecordFresh, IInv, Typing, Typed, database, Watched
<1>3. r \in Watched
  BY <1>1, Rows DEF Watched, IInv, InFlight, Quiet, Starts
<1>4. intent[t] = NoIntent
  BY <1>1 DEF IInv, AtTurn
<1>5. Sound(t, position[t], r, intent[t], exit[t], attempt[t])
  BY <1>4, Rows DEF Sound, Follows, RouteFollows, FilledBy, Trails, Watched, Positions
<1>6. turn' \in Tracks
  BY <1>1
<1>7. r.seen = track[t].seen /\ r.bound = track[t].bound
  BY Rows DEF Watched
<1> HIDE DEF r
<1>8. /\ Typing' /\ SoundTables' /\ Recent' /\ UNCHANGED <<Unrouted, Selected, Unbound>>
      /\ track'[t] = r
  BY <1>1, <1>2, <1>3, <1>5, <1>6, <1>7, TrackStep DEF Moves
<1>9. InFlight' /\ Progress'
  BY <1>1, <1>8 DEF IInv, InFlight, Progress, Quiet, Starts, Watching
<1>10. AtTurn'
  BY <1>1, <1>7, <1>8 DEF IInv, AtTurn, After, EntryMark, Deadline
<1>11. Reversible'
  BY <1>1, KeepsReversible DEF IInv, Starts
<1> QED BY <1>8, <1>9, <1>10, <1>11 DEF IInv

(* The trail becomes active or its peak rises.                             *)
LEMMA TrailStep ==
    ASSUME IInv, NEW t \in Tracks, MoveTrail(t)
    PROVE  IInv'
<1> DEFINE r == [track[t] EXCEPT !.active = TRUE, !.peak = item.ret]
<1>1. /\ stage = "rule" /\ turn = t /\ Advance(t, "see", "apply")
      /\ UNCHANGED <<position, intent, exit, attempt>>
      /\ Activates(t) \/ RaisesPeak(t)
  BY DEF MoveTrail, At
<1>2. /\ turn' \in Tracks
      /\ \/ t = NumTracks /\ stage' = "apply" /\ turn' = 1
         \/ t # NumTracks /\ stage' = "see" /\ turn' = t + 1
      /\ UNCHANGED <<item, committed, expected, crashes, saved, Cursor, Here>>
  BY <1>1, Advances
<1>3. track' = [track EXCEPT ![t] = r]
  BY DEF MoveTrail, IInv, Typing, Typed, database, Watched
<1>4. r \in Watched
  BY Rows DEF Watched
<1>5. item.ret # 0
  <2>1. /\ item.ret \in Nat /\ track[t].peak \in Nat
        /\ Target[t] \in Nat \ {0}
    BY Rows, Numbers DEF Watched
  <2> QED BY <1>1, <2>1 DEF Activates, RaisesPeak
<1>6. Sound(t, position[t], r, intent[t], exit[t], attempt[t])
  BY <1>5, Rows DEF Sound, RouteFollows, FilledBy, Trails, PriceOf, Watched
<1>7. r.bound = track[t].bound
  BY Rows DEF Watched
<1> HIDE DEF r
<1>8. Typing' /\ SoundTables' /\ Recent' /\ UNCHANGED <<Unrouted, Selected, Unbound>>
  BY <1>1, <1>2, <1>3, <1>4, <1>6, <1>7, TrackStep DEF Moves
<1>9. InFlight' /\ Progress' /\ AtTurn'
  BY <1>1, <1>2, <1>8 DEF IInv, InFlight, Progress, AtTurn, Quiet, Starts, Watching
<1>10. Reversible'
  BY <1>1, <1>2, KeepsReversible DEF IInv, Starts
<1> QED BY <1>8, <1>9, <1>10 DEF IInv

(* on_clock and on_market_observation decide to leave.                     *)
LEMMA DecideStep ==
    ASSUME IInv, NEW t \in Tracks, FireFallback(t) \/ ExitByRule(t)
    PROVE  IInv'
<1>1. PICK n \in Intents :
        /\ intent' = [intent EXCEPT ![t] = n] /\ n # NoIntent
        /\ \/ n = FallbackOf(t)
           \/ n = Intent(RuleOf(t), item.at, Cursor) /\ stage = "rule"
        /\ stage \in {"see", "rule"} /\ turn = t /\ Advance(t, "see", "apply")
        /\ intent[t] = NoIntent
        /\ UNCHANGED <<position, track, exit, attempt>>
  <2>1. CASE FireFallback(t)
    BY <2>1, Numbers DEF FireFallback, At
  <2>2. CASE ExitByRule(t)
    <3>1. stage = "rule" /\ turn = t /\ intent[t] = NoIntent /\ item.kind = "MARKET"
      BY <2>2 DEF ExitByRule, At, IInv, AtTurn
    <3>2. /\ Intent(RuleOf(t), item.at, Cursor) \in Intents
          /\ Intent(RuleOf(t), item.at, Cursor) # NoIntent
      BY <3>1, Rows, Numbers DEF Intent, Intents, NoIntent, Reasons, RuleOf
    <3> QED BY <2>2, <3>1, <3>2 DEF ExitByRule, At, RuleOf
  <2> QED BY <2>1, <2>2
<1>2. /\ turn' \in Tracks
      /\ \/ t = NumTracks /\ stage' = "apply" /\ turn' = 1
         \/ t # NumTracks /\ stage' = "see" /\ turn' = t + 1
      /\ UNCHANGED <<item, committed, expected, crashes, saved, Cursor, Here>>
  BY <1>1, Advances
<1>3. track[t].bound
  BY <1>1 DEF IInv, Progress, Unbound
<1>4. Decides(t, n)
  <2>1. CASE n = FallbackOf(t)
    BY <2>1 DEF Decides
  <2>2. CASE n = Intent(RuleOf(t), item.at, Cursor) /\ stage = "rule"
    <3>1. item.at <= Deadline(t) /\ After(Here, EntryMark)
      BY <1>1, <2>2 DEF IInv, AtTurn
    <3>2. /\ item.at \in Times /\ item.at \in Nat /\ Cursor \in Nat /\ Cursor >= 1
          /\ OpenAt \in Nat /\ Here = [at |-> item.at, by |-> Cursor]
      BY Instants, EntryAssumption
    <3>3. OpenAt <= item.at
      BY <3>1, <3>2 DEF After, EntryMark, Mark
    <3> QED BY <2>2, <3>1, <3>2, <3>3 DEF Decides, Intent
  <2> QED BY <1>1, <2>1, <2>2
<1>5. Sound(t, position[t], track[t], n, exit[t], attempt[t])
  BY <1>1, <1>3, <1>4, Rows
     DEF Sound, Follows, RouteFollows, FilledBy, Trails, Positions
<1>6. n.by = 0 \/ (n.by = Cursor /\ item.kind = "MARKET" /\ n.at = item.at)
  BY <1>1, Numbers DEF Intent, IInv, AtTurn
<1>7. Typing' /\ SoundTables' /\ Recent' /\ UNCHANGED <<Unrouted, Selected, Unbound>>
  BY <1>1, <1>2, <1>5, <1>6, IntentStep DEF Moves
<1>8. InFlight' /\ Progress' /\ AtTurn'
  BY <1>1, <1>2, <1>7 DEF IInv, InFlight, Progress, AtTurn, Quiet, Starts, Watching
<1>9. Reversible'
  BY <1>1, <1>2, KeepsReversible DEF IInv, Starts
<1> QED BY <1>7, <1>8, <1>9 DEF IInv

(* request_exit in the lifecycle.                                          *)
LEMMA RequestStep ==
    ASSUME IInv, NEW t \in Tracks, RequestExit(t)
    PROVE  IInv'
<1> DEFINE p == Requested(t)
<1>1. /\ stage = "apply" /\ turn = t /\ Advance(t, "apply", "execute")
      /\ position' = [position EXCEPT ![t] = p]
      /\ UNCHANGED <<track, intent, exit, attempt>>
      /\ intent[t] # NoIntent /\ position[t].state = "OPEN"
  BY DEF RequestExit, At
<1>2. /\ turn' \in Tracks
      /\ \/ t = NumTracks /\ stage' = "execute" /\ turn' = 1
         \/ t # NumTracks /\ stage' = "apply" /\ turn' = t + 1
      /\ UNCHANGED <<item, committed, expected, crashes, saved, Cursor, Here>>
  BY <1>1, Advances
<1>3. p = AsksFor(intent[t]) /\ p.state = "EXIT_PENDING"
  BY DEF Requested, AsksFor
<1>4. p \in Positions
  BY <1>1, Rows DEF Requested, Positions, Intents, NoIntent, Intent, Reasons
<1>5. Sound(t, p, track[t], intent[t], exit[t], attempt[t])
  <2>1. exit[t].state = "NONE"
    BY <1>1, Rows DEF Sound, RouteFollows, Routes
  <2> QED BY <1>1, <1>3, <2>1, Rows DEF Sound, Follows, RouteFollows, FilledBy
<1> HIDE DEF p
<1>6. /\ Typing' /\ SoundTables' /\ Recent' /\ UNCHANGED <<Selected, Unbound>>
      /\ Unrouted' \subseteq Unrouted \cup {t}
  BY <1>1, <1>2, <1>4, <1>5, PositionStep DEF Moves
<1>7. InFlight' /\ AtTurn'
  BY <1>1, <1>2 DEF IInv, InFlight, AtTurn, Quiet, Starts
<1>8. Progress'
  <2>1. Unrouted' \subseteq Tracks
    BY DEF Unrouted
  <2> QED BY <1>1, <1>2, <1>6, <2>1, TurnIsTrack DEF IInv, Progress, Watching
<1>9. Reversible'
  BY <1>1, <1>2, KeepsReversible DEF IInv, Starts
<1> QED BY <1>6, <1>7, <1>8, <1>9 DEF IInv

(* bind_position opens the route with its price reference.                 *)
LEMMA OpenStep ==
    ASSUME IInv, NEW t \in Tracks, OpenRoute(t)
    PROVE  IInv'
<1> DEFINE x == [state |-> "WAITING", ref |-> Reference(t), fill |-> NoMark]
<1>1. /\ (stage = "execute" /\ turn = t) \/ stage = "rebind"
      /\ stage' = stage /\ turn' = turn /\ t \in Unrouted /\ intent[t] # NoIntent
      /\ exit' = [exit EXCEPT ![t] = x]
      /\ UNCHANGED <<position, track, intent, attempt>>
      /\ UNCHANGED <<item, committed, expected, crashes, saved, Cursor, Here>>
  BY Stays DEF OpenRoute, At
<1>2. Reference(t) = PriceOf(intent[t], track[t])
  BY DEF Reference, PriceOf
<1>3. x \in Routes
  <2>1. Reference(t) \in [at : Nat, by : 0 .. MaxItems] /\ NoMark \in Marks
    <3>1. /\ intent[t].at \in Nat /\ intent[t].by \in 0 .. MaxItems
          /\ track[t].fresh \in Marks /\ Marks \subseteq [at : Nat, by : 0 .. MaxItems]
      BY Instants
    <3>2. SignalAt \in Nat /\ 0 \in 0 .. MaxItems /\ 0 \in Times
      BY Numbers
    <3> QED BY <3>1, <3>2 DEF Reference, Mark, NoMark, SignalMark, Marks
  <2> QED BY <2>1 DEF Routes
<1>4. position[t].state = "EXIT_PENDING"
  BY <1>1, Rows DEF Unrouted, Leaving, Sound, RouteFollows
<1>5. Sound(t, position[t], track[t], intent[t], x, attempt[t])
  BY <1>2, <1>4, Rows DEF Sound, Follows, RouteFollows, FilledBy
<1>6. turn' \in Tracks
  BY <1>1 DEF IInv, Typing
<1>7. x.state = "WAITING"
  OBVIOUS
<1> HIDE DEF x
<1>8. /\ Typing' /\ SoundTables' /\ Recent' /\ UNCHANGED <<Unbound>>
      /\ Unrouted' \subseteq Unrouted /\ Selected' \subseteq Selected
  BY <1>1, <1>3, <1>5, <1>6, <1>7, RouteStep DEF Moves
<1>9. InFlight' /\ Progress' /\ AtTurn'
  BY <1>1, <1>8 DEF IInv, InFlight, Progress, AtTurn, Quiet, Starts, Watching
<1>10. Reversible'
  BY <1>1, KeepsReversible DEF IInv
<1> QED BY <1>8, <1>9, <1>10 DEF IInv

(* _attempt_with_impact records its attempt.                               *)
LEMMA AttemptingStep ==
    ASSUME IInv, NEW t \in Tracks, PersistAttempt(t)
    PROVE  IInv'
<1>1. PICK a \in Attempts :
        /\ attempt' = [attempt EXCEPT ![t] = a]
        /\ item.exec = "FILLS" => a = [at |-> item.at, by |-> Cursor, verdict |-> "ACCEPTED"]
        /\ a.verdict = "ACCEPTED" <=> item.exec = "FILLS"
  <2>1. item # NoItem
    BY Rows DEF PersistAttempt, Attemptable
  <2> DEFINE a == [at |-> item.at, by |-> Cursor,
                   verdict |-> IF item.exec = "FILLS" THEN "ACCEPTED" ELSE "REJECTED"]
  <2>2. a \in Attempts
    BY <2>1, Rows DEF Attempts, Verdicts
  <2>3. attempt' = [attempt EXCEPT ![t] = a]
    BY DEF PersistAttempt
  <2> QED BY <2>2, <2>3
<1>2. /\ stage = "execute" /\ turn = t /\ Attemptable(t)
      /\ IF item.exec = "FILLS" THEN Stay("select") ELSE Advance(t, "execute", "commit")
      /\ UNCHANGED <<position, track, intent, exit>>
  BY DEF PersistAttempt, At
<1>3. /\ turn' \in Tracks
      /\ \/ item.exec = "FILLS" /\ stage' = "select" /\ turn' = t
         \/ item.exec # "FILLS" /\ t = NumTracks /\ stage' = "commit" /\ turn' = 1
         \/ item.exec # "FILLS" /\ t # NumTracks /\ stage' = "execute" /\ turn' = t + 1
      /\ UNCHANGED <<item, committed, expected, crashes, saved, Cursor, Here>>
  BY <1>2, Advances, Stays
<1>4. Sound(t, position[t], track[t], intent[t], exit[t], a)
  BY <1>2, Rows DEF Sound, FilledBy, Attemptable
<1>5. /\ Typing' /\ SoundTables' /\ Recent' /\ UNCHANGED <<Unrouted, Selected, Unbound>>
      /\ attempt'[t] = a
  BY <1>1, <1>2, <1>3, <1>4, AttemptStep DEF Moves
<1>6. InFlight'
  BY <1>2, <1>3 DEF IInv, InFlight, Quiet, Starts
<1>7. Progress'
  <2>1. t \notin Unrouted /\ Unrouted \subseteq Tracks
    BY <1>2 DEF Attemptable, Unrouted
  <2> QED BY <1>2, <1>3, <1>5, <2>1, TurnIsTrack DEF IInv, Progress, Watching
<1>8. AtTurn'
  BY <1>1, <1>2, <1>3, <1>5 DEF AtTurn, Attemptable, After
<1>9. Reversible'
  BY <1>2, <1>3, KeepsReversible DEF IInv, Starts
<1> QED BY <1>5, <1>6, <1>7, <1>8, <1>9 DEF IInv

(* The accepted attempt is staged as the route's fill.                     *)
LEMMA StageStep ==
    ASSUME IInv, NEW t \in Tracks, StageSelectedFill(t)
    PROVE  IInv'
<1> DEFINE x == [exit[t] EXCEPT !.state = "SELECTED", !.fill = Here]
<1>1. /\ stage = "select" /\ turn = t /\ stage' = "close" /\ turn' = turn
      /\ UNCHANGED <<position, track, intent, attempt>>
      /\ UNCHANGED <<item, committed, expected, crashes, saved, Cursor, Here>>
  BY Stays DEF StageSelectedFill, At
<1>2. exit' = [exit EXCEPT ![t] = x]
  BY DEF StageSelectedFill, IInv, Typing, Typed, database, Routes
<1>3. /\ position[t].state = "EXIT_PENDING" /\ exit[t].state = "WAITING"
      /\ item.kind = "MARKET" /\ item.at >= intent[t].at + Latency
      /\ After(Here, exit[t].ref)
      /\ attempt[t] = [at |-> item.at, by |-> Cursor, verdict |-> "ACCEPTED"]
  BY <1>1 DEF IInv, AtTurn
<1>4. Here \in Marks /\ x \in Routes
  BY <1>1, Rows DEF Routes, IInv, InFlight, Quiet, Starts
<1>5. x.state = "SELECTED" /\ x.fill = Here /\ x.ref = exit[t].ref
  BY Rows DEF Routes
<1>6. Cursor # intent[t].by
  <2>1. CASE intent[t].by <= committed
    BY <2>1, Instants
  <2>2. CASE intent[t].by = Cursor /\ intent[t].at = item.at
    <3>1. exit[t].ref = PriceOf(intent[t], track[t])
      BY <1>3, Rows DEF Sound, RouteFollows
    <3>2. intent[t].why # "FALLBACK"
      <4>1. Cursor # 0
        BY Instants
      <4>2. intent[t] # FallbackOf(t)
        BY <2>2, <4>1, Numbers
      <4> QED BY <2>2, <4>1, <4>2, Rows
              DEF Sound, Decides, NoIntent, Intent, RuleOf
    <3>3. exit[t].ref = Here
      BY <2>2, <3>1, <3>2, Instants DEF PriceOf, Mark
    <3> QED BY <1>3, <3>3, Instants DEF After
  <2> QED BY <2>1, <2>2 DEF IInv, Recent
<1>7. Sound(t, position[t], track[t], intent[t], x, attempt[t])
  <2>1. FilledBy(track[t], intent[t], x, attempt[t])
    <3>1. Here = [at |-> item.at, by |-> Cursor]
      BY Rows
    <3>2. exit[t].ref = PriceOf(intent[t], track[t])
      BY <1>3, Rows DEF Sound, RouteFollows
    <3> QED BY <1>3, <1>5, <1>6, <3>1, <3>2 DEF FilledBy
  <2> QED BY <1>3, <1>5, <2>1, Rows DEF Sound, Follows, RouteFollows
<1>8. turn' \in Tracks
  BY <1>1
<1> HIDE DEF x
<1>9. /\ Typing' /\ SoundTables' /\ Recent' /\ UNCHANGED <<Unbound>>
      /\ Unrouted' \subseteq Unrouted /\ Selected' = Selected \cup {t}
  <2>1. /\ Typing' /\ SoundTables' /\ Recent' /\ UNCHANGED <<Unbound>>
        /\ Unrouted' = {u \in Tracks :
                         IF u = t THEN Leaving(t) /\ x.state = "NONE" ELSE u \in Unrouted}
        /\ Selected' = {u \in Tracks : IF u = t THEN x.state = "SELECTED" ELSE u \in Selected}
    BY <1>1, <1>2, <1>4, <1>7, <1>8, RouteStep DEF Moves
  <2>2. Selected \subseteq Tracks
    BY DEF Selected
  <2> QED BY <1>5, <2>1, <2>2
<1>10. InFlight' /\ Progress' /\ AtTurn'
  BY <1>1, <1>9 DEF IInv, InFlight, Progress, AtTurn, Quiet, Starts, Watching
<1>11. Reversible'
  BY <1>1, KeepsReversible DEF IInv, Starts
<1> QED BY <1>9, <1>10, <1>11 DEF IInv

(* _finalize_selected_route closes the position, then finishes the route.  *)
LEMMA FinalizeFacts ==
    ASSUME IInv, NEW t \in Tracks, Finalizes(t)
    PROVE  /\ (stage = "close" /\ turn = t) \/ stage = "recover"
           /\ exit[t].state = "SELECTED"
BY DEF Finalizes, At, IsFirst, IInv, Progress, Selected

LEMMA CloseStep ==
    ASSUME IInv, NEW t \in Tracks, ClosePosition(t)
    PROVE  IInv'
<1> DEFINE p == Closed(t)
<1>1. /\ (stage = "close" /\ turn = t) \/ stage = "recover"
      /\ exit[t].state = "SELECTED" /\ position[t].state = "EXIT_PENDING"
      /\ stage' = stage /\ turn' = turn
      /\ position' = [position EXCEPT ![t] = p]
      /\ UNCHANGED <<track, intent, exit, attempt>>
      /\ UNCHANGED <<item, committed, expected, crashes, saved, Cursor, Here>>
  BY Stays, FinalizeFacts DEF ClosePosition
<1>2. p = ClosedBy(intent[t], exit[t]) /\ p.state = "CLOSED"
  BY DEF Closed, ClosedBy
<1>3. intent[t] # NoIntent
  BY <1>1, Rows DEF Sound, Follows
<1>4. p \in Positions
  BY <1>3, Rows, Numbers
     DEF Closed, Positions, Intents, NoIntent, Intent, Reasons, Routes, Marks
<1>5. Sound(t, p, track[t], intent[t], exit[t], attempt[t])
  BY <1>1, <1>2, <1>3, Rows DEF Sound, Follows, RouteFollows
<1>6. turn' \in Tracks
  BY <1>1 DEF IInv, Typing
<1> HIDE DEF p
<1>7. /\ Typing' /\ SoundTables' /\ Recent' /\ UNCHANGED <<Selected, Unbound>>
      /\ Unrouted' \subseteq Unrouted
  BY <1>1, <1>4, <1>5, <1>6, PositionStep, ZenonT(90) DEF Moves
<1>8. InFlight' /\ Progress' /\ AtTurn'
  BY <1>1, <1>7 DEF IInv, InFlight, Progress, AtTurn, Quiet, Starts, Watching
<1>9. Reversible'
  BY <1>1, KeepsReversible DEF IInv
<1> QED BY <1>7, <1>8, <1>9 DEF IInv

LEMMA FinishStep ==
    ASSUME IInv, NEW t \in Tracks, FinishRoute(t)
    PROVE  IInv'
<1> DEFINE x == [exit[t] EXCEPT !.state = "FILLED"]
<1>1. /\ (stage = "close" /\ turn = t) \/ stage = "recover"
      /\ exit[t].state = "SELECTED" /\ position[t] = Closed(t)
      /\ IF stage = "close" THEN Advance(t, "execute", "commit") ELSE Stay(stage)
      /\ UNCHANGED <<position, track, intent, attempt>>
  BY FinalizeFacts DEF FinishRoute
<1>2. /\ turn' \in Tracks
      /\ \/ stage = "recover" /\ stage' = "recover" /\ turn' = turn
         \/ stage = "close" /\ t = NumTracks /\ stage' = "commit" /\ turn' = 1
         \/ stage = "close" /\ t # NumTracks /\ stage' = "execute" /\ turn' = t + 1
      /\ UNCHANGED <<item, committed, expected, crashes, saved, Cursor, Here>>
  <2>1. CASE stage = "close"
    BY <1>1, <2>1, Advances
  <2>2. CASE stage = "recover"
    BY <1>1, <2>2, Stays DEF IInv, Typing
  <2> QED BY <1>1, <2>1, <2>2
<1>3. exit' = [exit EXCEPT ![t] = x]
  BY DEF FinishRoute, IInv, Typing, Typed, database, Routes
<1>4. x \in Routes /\ x.state = "FILLED" /\ x.fill = exit[t].fill /\ x.ref = exit[t].ref
  BY Rows DEF Routes
<1>5. position[t].state = "CLOSED"
  BY <1>1 DEF Closed
<1>6. Sound(t, position[t], track[t], intent[t], x, attempt[t])
  BY <1>1, <1>4, <1>5, Rows, ZenonT(60) DEF Sound, Follows, RouteFollows, FilledBy, ClosedBy
<1> HIDE DEF x
<1>7. /\ Typing' /\ SoundTables' /\ Recent' /\ UNCHANGED <<Unbound>>
      /\ Unrouted' \subseteq Unrouted /\ Selected' = Selected \ {t}
  BY <1>1, <1>2, <1>3, <1>4, <1>6, RouteStep DEF Moves, Selected
<1>8. InFlight'
  BY <1>1, <1>2 DEF IInv, InFlight, Quiet, Starts
<1>9. Progress'
  <2>1. Unrouted \subseteq Tracks
    BY DEF Unrouted
  <2> QED BY <1>1, <1>2, <1>7, <2>1, TurnIsTrack DEF IInv, Progress, Watching
<1>10. AtTurn'
  BY <1>1, <1>2 DEF AtTurn
<1>11. Reversible'
  BY <1>1, <1>2, KeepsReversible DEF IInv, Starts
<1> QED BY <1>7, <1>8, <1>9, <1>10, <1>11 DEF IInv

(* Between two items the tables are what a batch may be rolled back to.    *)
LEMMA IdleIsRestful ==
    ASSUME IInv, Selected = {}, Unrouted = {},
           \A t \in Tracks : intent[t].by <= committed
    PROVE  Restful(database)
<1>1. Typed(database)
  BY DEF IInv, Typing
<1>2. ASSUME NEW t \in Tracks
      PROVE  /\ Sound(t, position[t], track[t], intent[t], exit[t], attempt[t])
             /\ exit[t].state # "SELECTED"
             /\ position[t].state = "OPEN" \/ exit[t].state # "NONE"
             /\ intent[t].by <= committed
  BY Rows DEF Selected, Unrouted, Leaving, Positions
<1>3. /\ database[1] = position /\ database[2] = track /\ database[3] = intent
      /\ database[4] = exit /\ database[5] = attempt /\ database[6] = committed
  BY DEF database
<1> QED BY <1>1, <1>2, <1>3 DEF Restful

LEMMA RecentAtRest ==
    ASSUME IInv, item.kind # "MARKET"
    PROVE  \A t \in Tracks : intent[t].by <= committed
BY DEF IInv, Recent

LEMMA DeliverStep ==
    ASSUME IInv, NEW i \in Feed, Deliver(i)
    PROVE  IInv'
<1>1. /\ stage = "idle" /\ item = NoItem /\ committed < MaxItems /\ item' = i
      /\ UNCHANGED <<database, crashes>>
      /\ turn' = 1 /\ turn' \in Tracks
      /\ \/ stage' = "bind"
         \/ stage' = "commit"
      /\ i # NoItem /\ i.kind \in {"MARKET", "CLOCK"}
  BY FeedShape, Numbers DEF Deliver, Entered, IInv, InFlight
<1>2. UNCHANGED <<position, track, intent, exit, attempt, committed, Unrouted, Selected>>
  BY <1>1 DEF database, Unrouted, Selected, Leaving
<1>3. \A t \in Tracks : intent[t].by <= committed
  BY <1>1, RecentAtRest DEF NoItem, Item
<1>4. Restful(database)
  <2>1. Selected = {} /\ Unrouted = {}
    BY <1>1 DEF IInv, Progress, Watching
  <2> QED BY <1>3, <2>1, IdleIsRestful
<1>5. Typing' /\ SoundTables' /\ Recent'
  BY <1>1, <1>2, <1>3 DEF IInv, Typing, SoundTables, Recent
<1>6. InFlight' /\ Progress' /\ AtTurn'
  BY <1>1, <1>2 DEF IInv, InFlight, Progress, AtTurn, Quiet, Starts, Watching
<1>7. Reversible'
  <2>1. Atomic => Restful(saved)
    BY <1>1 DEF IInv, Reversible, Starts, NoItem, Item
  <2>2. Atomic => saved' \in {saved, database}
    BY DEF Deliver
  <2> QED BY <1>1, <1>4, <2>1, <2>2 DEF Reversible, Starts
<1> QED BY <1>5, <1>6, <1>7 DEF IInv

(* What an item decides of a track keeps its type.                         *)
LEMMA ResolveType ==
    ASSUME IInv, item # NoItem, NEW t \in Tracks, NEW w \in Watches
    PROVE  Resolve(t, w, item, Here) \in Watches
<1>1. /\ Here \in Marks /\ Here.by = Cursor /\ Cursor \in 0 .. MaxItems /\ item.at \in Nat
      /\ item.ret \in Returns \cup {0} /\ FallbackOf(t) \in Intents
  BY Rows, Instants, Numbers
<1>2. /\ Intent("TAKE_PROFIT", item.at, Cursor) \in Intents
      /\ Intent("TRAIL", item.at, Cursor) \in Intents
  BY <1>1 DEF Intent, Intents, Reasons
<1>3. [w EXCEPT !.intent = FallbackOf(t)] \in Watches
  BY <1>1 DEF Watches
<1>4. [w EXCEPT !.seen = Here] \in Watches
  BY <1>1 DEF Watches
<1>5. Judge(t, w, item, Here) \in Watches
  <2>1. [w EXCEPT !.seen = Here, !.intent = Intent("TAKE_PROFIT", item.at, Cursor)] \in Watches
    BY <1>1, <1>2 DEF Watches
  <2>2. [w EXCEPT !.seen = Here, !.intent = Intent("TRAIL", item.at, Cursor)] \in Watches
    BY <1>1, <1>2 DEF Watches
  <2>3. [w EXCEPT !.seen = Here, !.active = TRUE, !.peak = item.ret] \in Watches
    BY <1>1 DEF Watches
  <2>4. [w EXCEPT !.seen = Here, !.peak = item.ret] \in Watches
    BY <1>1 DEF Watches
  <2> QED BY <1>1, <1>4, <2>1, <2>2, <2>3, <2>4 DEF Judge
<1> QED BY <1>3, <1>4, <1>5 DEF Resolve

LEMMA CommitStep ==
    ASSUME IInv, CommitCursor
    PROVE  IInv'
<1>1. /\ stage = "commit" /\ item # NoItem /\ committed' = Cursor
      /\ item' = NoItem /\ stage' = "idle" /\ turn' = 1 /\ turn' \in Tracks
      /\ UNCHANGED <<position, track, intent, exit, attempt, crashes>>
      /\ expected' = [t \in Tracks |-> Resolve(t, expected[t], item, Here)]
      /\ saved' = IF Atomic /\ item.kind = "CLOCK" THEN database' ELSE saved
  BY Numbers DEF CommitCursor, IInv, InFlight, tables, Quiet, Starts
<1>2. UNCHANGED <<Unrouted, Selected>>
  BY <1>1 DEF Unrouted, Selected, Leaving
<1>3. \A t \in Tracks : intent'[t].by <= committed'
  <2> TAKE t \in Tracks
  <2>1. intent[t].by <= committed \/ intent[t].by = Cursor
    BY DEF IInv, Recent
  <2>2. committed \in Nat /\ Cursor = committed + 1 /\ intent[t].by \in Nat
    BY Instants
  <2>3. intent[t].by <= Cursor
    BY <2>1, <2>2
  <2> QED BY <1>1, <2>3
<1>4. Typing'
  <2>1. committed' \in 0 .. MaxItems
    <3>1. committed < MaxItems
      BY <1>1 DEF IInv, InFlight
    <3> QED BY <1>1, <3>1, Numbers DEF IInv, Typing, Typed, database, Cursor
  <2>2. expected' \in [Tracks -> Watches]
    BY <1>1, Rows, ResolveType
  <2>3. Typed(database')
    BY <1>1, <2>1, <2>2 DEF IInv, Typing, Typed, database
  <2> QED BY <1>1, <2>3 DEF IInv, Typing
<1>5. SoundTables' /\ Recent'
  BY <1>1, <1>3 DEF IInv, SoundTables, Recent
<1>6. InFlight' /\ Progress' /\ AtTurn'
  BY <1>1, <1>2 DEF IInv, InFlight, Progress, AtTurn, Quiet, Starts, Watching
<1>7. Reversible'
  <2>1. ASSUME Atomic, item.kind # "CLOCK" PROVE Restful(saved)
    BY <1>1, <2>1 DEF IInv, Reversible, Starts
  <2>2. Restful(database')
    <3>1. Selected' = {} /\ Unrouted' = {} /\ Typed(database')
      BY <1>1, <1>2, <1>4 DEF IInv, Progress, Watching, Typing
    <3>2. ASSUME NEW t \in Tracks
          PROVE  /\ Sound(t, position'[t], track'[t], intent'[t], exit'[t], attempt'[t])
                 /\ exit'[t].state # "SELECTED"
                 /\ position'[t].state = "OPEN" \/ exit'[t].state # "NONE"
                 /\ intent'[t].by <= committed'
      BY <1>1, <1>3, <3>1, Rows DEF Selected, Unrouted, Leaving, Positions
    <3> QED BY <3>1, <3>2 DEF Restful, database
  <2> QED BY <1>1, <2>1, <2>2 DEF Reversible, Starts, NoItem, Item
<1> QED BY <1>4, <1>5, <1>6, <1>7 DEF IInv

LEMMA CrashStep ==
    ASSUME IInv, Crash
    PROVE  IInv'
<1>1. /\ stage # "down" /\ crashes < MaxCrashes /\ crashes' = crashes + 1
      /\ stage' = "down" /\ turn' = 1 /\ turn' \in Tracks
  BY Numbers DEF Crash
<1>2. crashes' \in 0 .. MaxCrashes
  BY <1>1, Numbers DEF IInv, Typing
<1>3. CASE RollsBack /\ RollBack /\ item' = NoItem
  <2>1. Restful(saved)
    BY <1>1, <1>3 DEF RollsBack, Starting, IInv, Reversible, Starts, NoItem, Item
  <2>2. Typed(database')
    BY <1>3, <2>1 DEF RollBack, Restful, Typed, database
  <2>3. Typing'
    BY <1>1, <1>2, <1>3, <2>2 DEF Typing
  <2>4. SoundTables' /\ Recent'
    BY <1>3, <2>1 DEF RollBack, Restful, SoundTables, Recent
  <2>5. InFlight' /\ Progress' /\ AtTurn' /\ Reversible'
    BY <1>1, <1>3 DEF InFlight, Progress, AtTurn, Reversible, Quiet, Starts, Watching, NoItem, Item
  <2> QED BY <2>3, <2>4, <2>5 DEF IInv
<1>4. CASE (~RollsBack \/ item = NoItem) /\ UNCHANGED <<database, item>>
  <2>1. UNCHANGED <<position, track, intent, exit, attempt, committed, item>>
    BY <1>4 DEF database
  <2>2. Typing' /\ SoundTables' /\ Recent'
    BY <1>1, <1>2, <1>4, <2>1 DEF IInv, Typing, SoundTables, Recent, Cursor
  <2>3. InFlight' /\ Progress' /\ AtTurn'
    BY <1>1, <2>1 DEF IInv, InFlight, Progress, AtTurn, Quiet, Starts, Watching
  <2>4. Reversible'
    <3>1. Atomic => item.kind # "MARKET"
      BY <1>1, <1>4 DEF RollsBack, Starting, IInv, Reversible, Starts, NoItem, Item
    <3> QED BY <1>1, <2>1, <3>1 DEF Reversible, Starts
  <2> QED BY <2>2, <2>3, <2>4 DEF IInv
<1> QED BY <1>3, <1>4 DEF Crash

LEMMA ReboundStep ==
    ASSUME IInv, Rebound
    PROVE  IInv'
<1>1. /\ stage = "rebind" /\ Unbound = {} /\ Unrouted = {}
      /\ UNCHANGED <<position, track, intent, exit, attempt, committed, item, crashes, database>>
      /\ turn' = 1 /\ turn' \in Tracks
      /\ IF item = NoItem THEN stage' = "idle" ELSE stage' \in {"bind", "commit"}
      /\ saved' = IF Atomic THEN database ELSE saved
  <2>1. item.kind = "NONE" <=> item = NoItem
    BY ItemShape DEF IInv, Typing
  <2> QED BY <2>1, Numbers DEF Rebound, Entered, database
<1>2. UNCHANGED <<Unrouted, Selected, Unbound>>
  BY <1>1 DEF Unrouted, Selected, Leaving, Unbound
<1>3. Typing' /\ SoundTables' /\ Recent'
  BY <1>1 DEF IInv, Typing, SoundTables, Recent, Cursor
<1>4. InFlight' /\ Progress' /\ AtTurn'
  BY <1>1, <1>2 DEF IInv, InFlight, Progress, AtTurn, Quiet, Starts, Watching
<1>5. Reversible'
  <2>1. ASSUME Atomic PROVE Restful(database)
    <3>1. item.kind # "MARKET"
      BY <1>1, <2>1 DEF IInv, Reversible, Starts
    <3>2. Selected = {} /\ Unrouted = {}
      BY <1>1 DEF IInv, Progress
    <3>3. \A t \in Tracks : intent[t].by <= committed
      BY <3>1, RecentAtRest
    <3> QED BY <3>2, <3>3, IdleIsRestful
  <2> QED BY <1>1, <2>1 DEF Reversible, Starts
<1> QED BY <1>3, <1>4, <1>5 DEF IInv

LEMMA InductiveStep == IInv /\ [Next]_vars => IInv'
<1> SUFFICES ASSUME IInv, [Next]_vars PROVE IInv'
  OBVIOUS
<1>1. CASE UNCHANGED vars \/ SourceEnds
  <2>1. UNCHANGED <<position, track, intent, exit, attempt, committed, expected, item, stage,
                    turn, crashes, saved, database>>
    BY <1>1 DEF SourceEnds, vars, database, process
  <2>2. Typing' /\ SoundTables' /\ Recent' /\ InFlight'
    BY <2>1 DEF IInv, Typing, SoundTables, Recent, InFlight, Cursor
  <2>3. Progress' /\ AtTurn'
    BY <2>1 DEF IInv, Progress, AtTurn, Selected, Unrouted, Leaving, Unbound, Here, Cursor
  <2>4. Reversible'
    BY <2>1 DEF IInv, Reversible
  <2> QED BY <2>2, <2>3, <2>4 DEF IInv
<1>2. CASE Handler
  BY <1>2, PassingStep, CommitStep, ReboundStep, BindStep, SeeStep, FreshStep, TrailStep,
     DecideStep, RequestStep, OpenStep, AttemptingStep, StageStep, CloseStep, FinishStep
     DEF Handler
<1> QED BY <1>1, <1>2, DeliverStep, CrashStep, PassingStep DEF Next

(* The tables, the item in flight and the place of the handler agree.      *)
THEOREM Invariance == Spec => []IInv
BY InitIInv, InductiveStep, PTL DEF Spec

(* Tables, item and handler keep their types.                              *)
THEOREM TypeCorrect == Spec => []TypeOK
<1>1. IInv => TypeOK
  <2> SUFFICES ASSUME IInv PROVE TypeOK
    OBVIOUS
  <2>1. /\ position \in [Tracks -> Positions] /\ track \in [Tracks -> Watched]
        /\ intent \in [Tracks -> Intents] /\ exit \in [Tracks -> Routes]
        /\ attempt \in [Tracks -> Attempts] /\ committed \in 0 .. MaxItems
    BY DEF IInv, Typing, Typed, database
  <2> QED BY <2>1 DEF IInv, Typing, TypeOK, Positions, Watched, Routes, Attempts
<1> QED BY <1>1, Invariance, PTL

LEMMA RaisesNowhere == IInv => NeverRaises
<1> SUFFICES ASSUME IInv PROVE NeverRaises
  OBVIOUS
<1>1. ASSUME NEW t \in Tracks
      PROVE  /\ Leaving(t) => intent[t] # NoIntent /\ track[t].bound
             /\ position[t].state = "EXIT_PENDING" => position[t] = Requested(t)
             /\ exit[t].state # "NONE" => exit[t].ref = Reference(t)
             /\ track[t].active <=> track[t].peak # 0
  BY <1>1, Rows
     DEF Leaving, Sound, Follows, Trails, RouteFollows, Requested, AsksFor, Reference, PriceOf
<1>2. ASSUME NEW t \in Tracks, intent[t] # NoIntent, position[t].state = "OPEN"
      PROVE  position[t].at <= intent[t].at
  <2>1. position[t] = Opened /\ Decides(t, intent[t])
    BY <1>2, Rows DEF Sound, Follows
  <2>2. /\ FallbackOf(t).at = FireAt(t) /\ OpenAt < FireAt(t)
        /\ OpenAt \in Nat /\ FireAt(t) \in Nat
    BY Numbers DEF FallbackOf, Intent
  <2> QED BY <1>2, <2>1, <2>2 DEF Decides, Opened
<1>3. stage = "select" => exit[turn].state = "WAITING"
  BY DEF IInv, AtTurn
<1>4. ASSUME NEW t \in Selected
      PROVE  \/ position[t].state = "EXIT_PENDING" /\ position[t].at <= exit[t].fill.at
             \/ position[t] = Closed(t)
  <2>1. t \in Tracks /\ exit[t].state = "SELECTED"
    BY DEF Selected
  <2>2. position[t].state \in {"EXIT_PENDING", "CLOSED"}
    BY <2>1, Rows DEF Sound, RouteFollows, Positions
  <2>3. CASE position[t].state = "CLOSED"
    BY <2>1, <2>3, Rows DEF Sound, Follows, Closed, ClosedBy
  <2>4. CASE position[t].state = "EXIT_PENDING"
    <3>0. position[t] = AsksFor(intent[t])
      BY <2>1, <2>4, Rows DEF Sound, Follows
    <3>1. position[t].at = intent[t].at
      BY <3>0 DEF AsksFor
    <3>4. exit[t].fill.at >= intent[t].at + Latency
      BY <2>1, Rows DEF Sound, FilledBy
    <3>2. intent[t].at \in Nat /\ Latency \in Nat
      BY <2>1, Instants, EntryAssumption
    <3>3. exit[t].fill.at \in Nat
      BY <2>1, Rows, Instants DEF Routes
    <3> QED BY <2>4, <3>1, <3>2, <3>3, <3>4
  <2> QED BY <2>2, <2>3, <2>4
<1> QED BY <1>1, <1>2, <1>3, <1>4 DEF NeverRaises

(* No check of the lifecycle, the orchestrator or the executor ever meets  *)
(* tables it would raise on, under either binding, wherever crashes fall   *)
(* (request_exit, close_position, bind_position, _evaluate).               *)
THEOREM ChecksPass == Spec => []NeverRaises
BY RaisesNowhere, Invariance, PTL

(* A close is that of its accepted attempt, later than the latency and     *)
(* than the price it is judged against, and between two items position     *)
(* and route tell the same story (_attempt_with_impact,                    *)
(* _finalize_selected_route).                                              *)
THEOREM ClosesAreAttempts == Spec => []ClosedAtSelected
<1>1. IInv => ClosedAtSelected
  <2> SUFFICES ASSUME IInv PROVE ClosedAtSelected
    OBVIOUS
  <2>1. ASSUME NEW t \in Tracks, exit[t].state \in {"SELECTED", "FILLED"}
        PROVE  /\ attempt[t] = [at |-> exit[t].fill.at, by |-> exit[t].fill.by,
                                verdict |-> "ACCEPTED"]
               /\ exit[t].fill.at >= intent[t].at + Latency
               /\ After(exit[t].fill, Reference(t))
               /\ exit[t].fill.by # intent[t].by
    BY <2>1, Rows DEF Sound, FilledBy, Reference, PriceOf
  <2>2. ASSUME stage = "idle", NEW t \in Tracks
        PROVE  /\ position[t].state = "CLOSED" <=> exit[t].state = "FILLED"
               /\ position[t].state = "EXIT_PENDING" <=> exit[t].state = "WAITING"
    <3>1. Selected = {} /\ Unrouted = {}
      BY <2>2 DEF IInv, Progress, Watching
    <3>2. exit[t].state # "SELECTED" /\ (Leaving(t) => exit[t].state # "NONE")
      BY <3>1 DEF Selected, Unrouted
    <3> QED BY <3>2, Rows DEF Leaving, Sound, RouteFollows, Routes, Positions
  <2> QED BY <2>1, <2>2 DEF ClosedAtSelected
<1> QED BY <1>1, Invariance, PTL
-----------------------------------------------------------------------------
(* When a batch is one commit the rules are followed.  What is known of a  *)
(* track when nothing crashes is what it knows between two items; in       *)
(* between it is as before the item or as the item decides.                *)
View(r, n) == [seen |-> r.seen, active |-> r.active, peak |-> r.peak, intent |-> n]
Known(t)   == View(track[t], intent[t])
Outcome(t) == Resolve(t, expected[t], item, Here)

Already(t) == Known(t) = Outcome(t)
NotYet(t)  == Known(t) = expected[t] \/ (item.kind = "CLOCK" /\ Already(t))
Judging(t) == /\ Known(t) = [expected[t] EXCEPT !.seen = Here]
              /\ expected[t].seen.by # 0 => After(Here, expected[t].seen)

Late == {"apply", "execute", "select", "close", "commit"}

Faithful ==
    /\ item = NoItem => \A t \in Tracks : Known(t) = expected[t]
    /\ item # NoItem /\ stage \in {"bind"} \cup Starts => \A t \in Tracks : NotYet(t)
    /\ stage \in {"see", "fresh", "rule"} =>
         \A t \in Tracks : (t < turn => Already(t)) /\ (t > turn => NotYet(t))
    /\ stage = "see" => NotYet(turn)
    /\ stage \in {"fresh", "rule"} => Judging(turn)
    /\ stage = "rule" => Usable
    /\ stage \in Late => \A t \in Tracks : Already(t)

Accepted ==
    \A t \in Tracks :
        attempt[t].verdict = "ACCEPTED" =>
            exit[t].state \in {"SELECTED", "FILLED"} \/ (stage = "select" /\ t = turn)

FaithfulSaved ==
    stage \notin Starts /\ item.kind # "CLOCK" =>
        \A t \in Tracks :
            /\ View(saved[2][t], saved[3][t]) = saved[7][t]
            /\ saved[5][t].verdict = "ACCEPTED" => saved[4][t].state \in {"SELECTED", "FILLED"}

FInv == IInv /\ Faithful /\ Accepted /\ FaithfulSaved

(* Steps that decide nothing.                                              *)
LEMMA Steady ==
    ASSUME IInv, Faithful,
           \A t \in Tracks : Known(t)' = Known(t),
           UNCHANGED <<expected, item, Here>>,
           \/ stage' = stage /\ turn' = turn /\ stage # "idle"
           \/ stage \in Late /\ stage' \in Late
           \/ stage \in Starts /\ stage' \in Starts
           \/ stage = "bind" /\ stage' = "see" /\ turn' = 1
    PROVE  Faithful'
<1>1. \A t \in Tracks : Already(t)' = Already(t) /\ NotYet(t)' = NotYet(t)
  BY DEF Already, NotYet, Outcome
<1>2. \A t \in Tracks : Judging(t)' = Judging(t)
  BY DEF Judging
<1>3. \A t \in Tracks : t >= 1
  BY TurnIsTrack
<1>4. item # NoItem \/ stage \in Quiet
  BY DEF IInv, InFlight
<1>5. turn \in Tracks /\ 1 \in Tracks
  BY Numbers DEF IInv, Typing
<1>6. item = NoItem => \A t \in Tracks : Known(t)' = expected'[t]
  BY DEF Faithful
<1>7. CASE stage' = stage /\ turn' = turn /\ stage # "idle"
  <2>1. NotYet(turn)' = NotYet(turn) /\ Judging(turn)' = Judging(turn)
    BY <1>1, <1>2, <1>5, <1>7 DEF NotYet, Judging, Known, Already, Outcome
  <2>2. (item' # NoItem /\ stage' \in {"bind"} \cup Starts) => \A t \in Tracks : NotYet(t)'
    BY <1>1, <1>7 DEF Faithful
  <2> QED BY <1>1, <1>6, <1>7, <2>1, <2>2 DEF Faithful, Late, Usable
<1>8. CASE stage \in Late /\ stage' \in Late
  BY <1>1, <1>6, <1>8 DEF Faithful, Late, Starts
<1>9. CASE stage \in Starts /\ stage' \in Starts
  BY <1>1, <1>6, <1>9 DEF Faithful, Late, Starts
<1>10. CASE stage = "bind" /\ stage' = "see" /\ turn' = 1
  <2>1. item # NoItem /\ \A t \in Tracks : NotYet(t)'
    BY <1>1, <1>4, <1>10 DEF Faithful, Quiet, Starts
  <2>2. NotYet(turn)'
    BY <1>5, <1>10, <2>1 DEF NotYet, Known, Already, Outcome
  <2>3. \A t \in Tracks : ~(t < turn')
    BY <1>3, <1>10, TurnIsTrack
  <2> QED BY <1>6, <1>10, <2>1, <2>2, <2>3 DEF Faithful, Late, Starts
<1> QED BY <1>7, <1>8, <1>9, <1>10

(* A track the item has no news for keeps what it knows.                   *)
LEMMA StillExpected ==
    ASSUME IInv, NEW t \in Tracks, NotYet(t), intent[t] = NoIntent
    PROVE  Known(t) = expected[t]
<1> SUFFICES ASSUME item.kind = "CLOCK", Known(t) = Outcome(t)
             PROVE  Known(t) = expected[t]
  BY DEF NotYet, Already
<1>1. Known(t).intent = NoIntent /\ FallbackOf(t) # NoIntent
  BY Numbers DEF Known, View
<1>2. expected[t] \in Watches
  BY Rows
<1>3. Outcome(t).intent = NoIntent
  BY <1>1
<1>4. CASE expected[t].intent # NoIntent
  BY <1>3, <1>4 DEF Outcome, Resolve
<1>5. CASE expected[t].intent = NoIntent /\ item.at >= FireAt(t)
  BY <1>1, <1>2, <1>3, <1>5 DEF Outcome, Resolve, Watches
<1>6. CASE expected[t].intent = NoIntent /\ ~(item.at >= FireAt(t))
  BY <1>6 DEF Outcome, Resolve
<1> QED BY <1>4, <1>5, <1>6

(* The handler is through with the track at its turn.                      *)
LEMMA Decided ==
    ASSUME IInv, Faithful, NEW t \in Tracks, t = turn, stage \in {"see", "fresh", "rule"},
           Advance(t, "see", "apply"),
           \A u \in Tracks \ {t} : Known(u)' = Known(u),
           Known(t)' = Outcome(t)
    PROVE  Faithful'
<1>1. /\ turn' \in Tracks
      /\ \/ t = NumTracks /\ stage' = "apply" /\ turn' = 1
         \/ t # NumTracks /\ stage' = "see" /\ turn' = t + 1
      /\ UNCHANGED <<item, committed, expected, crashes, saved, Cursor, Here>>
  BY Advances
<1>2. \A u \in Tracks : Outcome(u)' = Outcome(u)
  BY <1>1 DEF Outcome
<1>3. Already(t)'
  BY <1>2 DEF Already
<1>4. \A u \in Tracks \ {t} : Already(u)' = Already(u) /\ NotYet(u)' = NotYet(u)
  BY <1>1, <1>2 DEF Already, NotYet
<1>5. item # NoItem
  BY DEF IInv, InFlight, Quiet, Starts
<1>6. \A u \in Tracks : (u < t => Already(u)) /\ (u > t => NotYet(u))
  BY DEF Faithful
<1>7. CASE t = NumTracks
  <2>1. \A u \in Tracks \ {t} : u < t
    BY <1>7, TurnIsTrack, Numbers
  <2>2. \A u \in Tracks : Already(u)'
    BY <1>3, <1>4, <1>6, <2>1
  <2> QED BY <1>1, <1>5, <1>7, <2>2 DEF Faithful, Starts
<1>8. CASE t # NumTracks
  <2>1. ASSUME NEW u \in Tracks
        PROVE  /\ u < t + 1 => Already(u)'
               /\ u >= t + 1 => NotYet(u)'
    <3>1. u \in Nat /\ t \in Nat
      BY TurnIsTrack
    <3>2. u < t \/ u = t \/ u > t
      BY <3>1
    <3> QED BY <1>3, <1>4, <1>6, <3>1, <3>2
  <2>2. t \in Nat /\ turn' = t + 1 /\ stage' = "see" /\ turn' \in Tracks /\ item' = item
    BY <1>1, <1>8, TurnIsTrack
  <2>3. NotYet(turn)'
    BY <2>1, <2>2 DEF NotYet, Known, Already, Outcome
  <2>4. \A u \in Tracks : (u < turn' => Already(u)') /\ (u > turn' => NotYet(u)')
    BY <2>1, <2>2, TurnIsTrack
  <2> QED BY <1>5, <2>2, <2>3, <2>4 DEF Faithful, Late, Starts
<1> QED BY <1>7, <1>8

(* ---------------------- the orchestrator's decisions ------------------- *)
LEMMA OnMarket ==
    ASSUME IInv, NEW t \in Tracks, NotYet(t), intent[t] = NoIntent, item.kind = "MARKET",
           After(Here, EntryMark)
    PROVE  /\ item.at > Deadline(t) => Outcome(t) = [expected[t] EXCEPT !.intent = FallbackOf(t)]
           /\ item.at <= Deadline(t) =>
                Outcome(t) = IF expected[t].seen.by # 0 /\ ~After(Here, expected[t].seen)
                             THEN expected[t]
                             ELSE IF item.exec = "UNUSABLE"
                             THEN [expected[t] EXCEPT !.seen = Here]
                             ELSE Judge(t, expected[t], item, Here)
<1>1. expected[t].intent = NoIntent
  <2>1. Known(t) = expected[t]
    BY StillExpected
  <2>2. Known(t).intent = intent[t]
    BY DEF Known, View
  <2> QED BY <2>1, <2>2
<1>2. item.at \in Nat /\ Deadline(t) \in Nat
  BY Instants, Numbers
<1> QED BY <1>1, <1>2 DEF Outcome, Resolve

LEMMA OnClock ==
    ASSUME IInv, NEW t \in Tracks, NotYet(t), intent[t] = NoIntent, item.kind = "CLOCK"
    PROVE  Outcome(t) = IF item.at >= FireAt(t)
                        THEN [expected[t] EXCEPT !.intent = FallbackOf(t)] ELSE expected[t]
<1>1. expected[t].intent = NoIntent
  <2>1. Known(t) = expected[t]
    BY StillExpected
  <2>2. Known(t).intent = intent[t]
    BY DEF Known, View
  <2> QED BY <2>1, <2>2
<1> QED BY <1>1 DEF Outcome, Resolve

LEMMA IgnoreDecides ==
    ASSUME IInv, Faithful, NEW t \in Tracks, Ignore(t)
    PROVE  Known(t) = Outcome(t)
<1>1. /\ NotYet(t) /\ stage = "see" /\ turn = t
      /\ intent[t] # NoIntent \/ (~PastFallback(t) /\ ~News(t))
  BY DEF Ignore, At, Faithful
<1>2. CASE intent[t] # NoIntent
  <2>1. CASE Known(t) = expected[t]
    <3>1. expected[t].intent # NoIntent
      BY <1>2, <2>1 DEF Known, View
    <3> QED BY <2>1, <3>1 DEF Outcome, Resolve
  <2> QED BY <1>1, <2>1 DEF NotYet, Already
<1>3. CASE intent[t] = NoIntent /\ ~PastFallback(t) /\ ~News(t)
  <2>1. Known(t) = expected[t] /\ expected[t].intent = NoIntent
    BY <1>1, <1>3, StillExpected DEF Known, View
  <2>2. item.kind \in {"MARKET", "CLOCK"}
    BY <1>1, Rows DEF IInv, InFlight, Quiet, Starts
  <2>3. CASE item.kind = "CLOCK"
    BY <1>1, <1>3, <2>1, <2>3, OnClock DEF PastFallback
  <2>4. CASE item.kind = "MARKET" /\ ~After(Here, EntryMark)
    BY <2>1, <2>4 DEF Outcome, Resolve
  <2>5. CASE item.kind = "MARKET" /\ After(Here, EntryMark)
    <3>1. item.at <= Deadline(t)
      <4>1. item.at \in Nat /\ Deadline(t) \in Nat
        BY Instants, Numbers
      <4> QED BY <1>3, <2>5, <4>1 DEF PastFallback
    <3>2. expected[t].seen = track[t].seen
      BY <2>1 DEF Known, View
    <3> QED BY <1>1, <1>3, <2>1, <2>5, <3>1, <3>2, OnMarket DEF News
  <2> QED BY <2>2, <2>3, <2>4, <2>5
<1> QED BY <1>1, <1>2, <1>3

LEMMA FallbackDecides ==
    ASSUME IInv, Faithful, NEW t \in Tracks, FireFallback(t)
    PROVE  Known(t)' = Outcome(t)
<1>1. /\ NotYet(t) /\ stage = "see" /\ turn = t /\ intent[t] = NoIntent /\ PastFallback(t)
      /\ track' = track /\ intent' = [intent EXCEPT ![t] = FallbackOf(t)]
  BY DEF FireFallback, At, Faithful
<1>2. Known(t) = expected[t]
  BY <1>1, StillExpected
<1>3. intent'[t] = FallbackOf(t)
  BY <1>1 DEF IInv, Typing, Typed, database
<1>4. Known(t)' = [Known(t) EXCEPT !.intent = FallbackOf(t)]
  BY <1>1, <1>3 DEF Known, View
<1>5. Outcome(t) = [expected[t] EXCEPT !.intent = FallbackOf(t)]
  <2>1. CASE item.kind = "CLOCK"
    BY <1>1, <2>1, OnClock DEF PastFallback
  <2>2. CASE item.kind = "MARKET"
    BY <1>1, <2>2, OnMarket DEF PastFallback
  <2> QED BY <1>1, <2>1, <2>2 DEF PastFallback
<1> QED BY <1>2, <1>4, <1>5

(* What a track at stage "fresh" or "rule" will come to.                   *)
LEMMA AtRule ==
    ASSUME IInv, Faithful, NEW t \in Tracks, t = turn, stage \in {"fresh", "rule"}
    PROVE  /\ Outcome(t) = IF item.exec = "UNUSABLE" THEN [expected[t] EXCEPT !.seen = Here]
                           ELSE Judge(t, expected[t], item, Here)
           /\ Known(t) = [expected[t] EXCEPT !.seen = Here]
           /\ expected[t].intent = NoIntent /\ expected[t] \in Watches
           /\ track[t].active = expected[t].active /\ track[t].peak = expected[t].peak
<1>1. /\ Known(t) = [expected[t] EXCEPT !.seen = Here]
      /\ expected[t].seen.by # 0 => After(Here, expected[t].seen)
      /\ intent[t] = NoIntent /\ item.kind = "MARKET" /\ After(Here, EntryMark)
      /\ item.at <= Deadline(t) /\ expected[t] \in Watches
  BY Rows DEF Faithful, Judging, IInv, AtTurn
<1>2. /\ expected[t].intent = NoIntent
      /\ track[t].active = expected[t].active /\ track[t].peak = expected[t].peak
  BY <1>1 DEF Known, View, Watches
<1>3. item.at \in Nat /\ Deadline(t) \in Nat
  BY Instants, Numbers
<1> QED BY <1>1, <1>2, <1>3 DEF Outcome, Resolve

LEMMA UnusableDecides ==
    ASSUME IInv, Faithful, NEW t \in Tracks, SkipUnusable(t)
    PROVE  Known(t) = Outcome(t)
<1>1. stage = "fresh" /\ turn = t /\ item.exec = "UNUSABLE"
  BY DEF SkipUnusable, At, Usable
<1> QED BY <1>1, AtRule

(* An activation, and a new peak, of an observation judged.                *)
LEMMA TrailJudged ==
    ASSUME NEW t \in Tracks, NEW w \in Watches, NEW i, NEW k, i.ret \in Nat, w.peak \in Nat,
           Mode[t] = "TRAIL",
           \/ w.active = FALSE /\ i.ret >= Target[t]
           \/ w.active = TRUE /\ i.ret > w.peak
    PROVE  Judge(t, w, i, k)
             = [seen |-> k, active |-> TRUE, peak |-> i.ret, intent |-> w.intent]
<1>1. w = [seen |-> w.seen, active |-> w.active, peak |-> w.peak, intent |-> w.intent]
  BY DEF Watches
<1>2. Giveback[t] \in Nat \ {0} /\ Mode[t] # "TP"
  BY SpecAssumption
<1>3. CASE w.active = FALSE /\ i.ret >= Target[t]
  <2>1. Judge(t, w, i, k) = [w EXCEPT !.seen = k, !.active = TRUE, !.peak = i.ret]
    BY <1>2, <1>3 DEF Judge
  <2> QED BY <1>1, <2>1
<1>4. CASE w.active = TRUE /\ i.ret > w.peak
  <2>1. ~(i.ret + Giveback[t] <= w.peak) /\ w.active
    BY <1>2, <1>4
  <2>2. Judge(t, w, i, k) = [w EXCEPT !.seen = k, !.peak = i.ret]
    BY <1>2, <1>4, <2>1 DEF Judge
  <2>3. PICK s, a, p, n : w = [seen |-> s, active |-> a, peak |-> p, intent |-> n]
    BY <1>1
  <2>4. PICK v : v = [w EXCEPT !.seen = k]
    OBVIOUS
  <2>5. v = [seen |-> k, active |-> a, peak |-> p, intent |-> n]
    BY <2>3, <2>4
  <2>6. [w EXCEPT !.seen = k, !.peak = i.ret] = [v EXCEPT !.peak = i.ret]
    BY <2>4
  <2>7. [v EXCEPT !.peak = i.ret]
          = [seen |-> k, active |-> a, peak |-> i.ret, intent |-> n]
    BY <2>5
  <2>8. a = TRUE /\ n = w.intent
    BY <1>4, <2>3
  <2> QED BY <2>2, <2>6, <2>7, <2>8
<1> QED BY <1>3, <1>4

LEMMA RuleDecides ==
    ASSUME IInv, Faithful, NEW t \in Tracks, ExitByRule(t) \/ MoveTrail(t) \/ Hold(t)
    PROVE  Known(t)' = Outcome(t)
<1> DEFINE w == expected[t]
<1>1. stage = "rule" /\ turn = t /\ item.exec # "UNUSABLE"
  BY DEF ExitByRule, MoveTrail, Hold, At, Faithful, Usable
<1>2. /\ Outcome(t) = Judge(t, w, item, Here) /\ Known(t) = [w EXCEPT !.seen = Here]
      /\ w.intent = NoIntent /\ w \in Watches
      /\ track[t].active = w.active /\ track[t].peak = w.peak
  BY <1>1, AtRule
<1>3. /\ item.ret \in Nat /\ w.peak \in Nat /\ Giveback[t] \in Nat \ {0}
      /\ Mode[t] \in {"TP", "TRAIL"} /\ Here.by = Cursor
  BY <1>2, Rows, Numbers DEF Watches
<1>4. /\ track \in [Tracks -> Watched] /\ intent \in [Tracks -> Intents]
  BY DEF IInv, Typing, Typed, database
<1>5. CASE ExitByRule(t)
  <2> DEFINE n == Intent(IF Mode[t] = "TP" THEN "TAKE_PROFIT" ELSE "TRAIL", item.at, Cursor)
  <2>1. track' = track /\ intent'[t] = n /\ (TakesProfit(t) \/ GivesBack(t))
    BY <1>4, <1>5 DEF ExitByRule
  <2>2. Known(t)' = [Known(t) EXCEPT !.intent = n]
    BY <2>1 DEF Known, View
  <2> HIDE DEF n
  <2>3. Judge(t, w, item, Here) = [w EXCEPT !.seen = Here, !.intent = n]
    <3>1. CASE TakesProfit(t)
      BY <1>3, <3>1 DEF TakesProfit, Judge, n
    <3>2. CASE GivesBack(t)
      <4>1. Mode[t] = "TRAIL" /\ w.active /\ item.ret + Giveback[t] <= w.peak
        BY <1>2, <3>2 DEF GivesBack
      <4>2. ~(item.ret > w.peak) /\ Mode[t] # "TP"
        BY <1>3, <4>1
      <4> QED BY <1>3, <4>1, <4>2 DEF Judge, n
    <3> QED BY <2>1, <3>1, <3>2
  <2> QED BY <1>2, <2>2, <2>3
<1>6. CASE MoveTrail(t)
  <2>1. /\ intent' = intent /\ track' = [track EXCEPT ![t].active = TRUE, ![t].peak = item.ret]
        /\ Activates(t) \/ RaisesPeak(t)
    BY <1>6 DEF MoveTrail
  <2>2. track'[t] = [track[t] EXCEPT !.active = TRUE, !.peak = item.ret]
    BY <1>4, <2>1 DEF Watched
  <2>3. Known(t)' = [seen |-> Here, active |-> TRUE, peak |-> item.ret, intent |-> w.intent]
    <3>1. track[t] \in Watched
      BY <1>4
    <3>2. /\ track'[t].seen = track[t].seen /\ track'[t].active = TRUE
          /\ track'[t].peak = item.ret
      BY <2>2, <3>1 DEF Watched
    <3>3. intent'[t] = intent[t]
      BY <2>1
    <3>4. /\ Known(t).seen = track[t].seen /\ Known(t).intent = intent[t]
      BY DEF Known, View
    <3>5. /\ Known(t).seen = Here /\ Known(t).intent = w.intent
      BY <1>2 DEF Watches
    <3> QED BY <3>2, <3>3, <3>4, <3>5 DEF Known, View
  <2>4. Mode[t] = "TRAIL" /\ Mode[t] # "TP"
    BY <2>1 DEF Activates, RaisesPeak
  <2>5. \/ w.active = FALSE /\ item.ret >= Target[t]
        \/ w.active = TRUE /\ item.ret > w.peak
    BY <1>2, <2>1 DEF Activates, RaisesPeak, Watches
  <2>6. Judge(t, w, item, Here)
          = [seen |-> Here, active |-> TRUE, peak |-> item.ret, intent |-> w.intent]
    <3>1. w \in Watches /\ item.ret \in Nat /\ w.peak \in Nat /\ Mode[t] = "TRAIL"
      BY <1>2, <1>3, <2>4
    <3> HIDE DEF w
    <3> QED BY <2>5, <3>1, TrailJudged
  <2> QED BY <1>2, <2>3, <2>6
<1>7. CASE Hold(t)
  <2>1. /\ track' = track /\ intent' = intent
        /\ ~(TakesProfit(t) \/ GivesBack(t) \/ Activates(t) \/ RaisesPeak(t))
    BY <1>7 DEF Hold, tables
  <2>2. Known(t)' = Known(t)
    BY <2>1 DEF Known
  <2>3. Judge(t, w, item, Here) = [w EXCEPT !.seen = Here]
    BY <1>2, <2>1 DEF TakesProfit, GivesBack, Activates, RaisesPeak, Judge
  <2> QED BY <1>2, <2>2, <2>3
<1> QED BY <1>5, <1>6, <1>7
-----------------------------------------------------------------------------
(* ------------------------- one step keeps FInv ------------------------- *)
LEMMA KeepsSaved ==
    ASSUME FaithfulSaved, UNCHANGED <<saved, item>>, stage \in Starts <=> stage' \in Starts
    PROVE  FaithfulSaved'
BY DEF FaithfulSaved

LEMMA KeepsAccepted ==
    ASSUME Accepted, UNCHANGED <<exit, attempt>>, stage # "select"
    PROVE  Accepted'
BY DEF Accepted

(* The orchestrator is through with a track.                               *)
LEMMA DecisionKept ==
    ASSUME FInv, NEW t \in Tracks,
           \/ Ignore(t) \/ FireFallback(t) \/ SkipUnusable(t) \/ ExitByRule(t) \/ MoveTrail(t)
           \/ Hold(t)
    PROVE  Faithful' /\ Accepted' /\ FaithfulSaved'
<1>1. /\ turn = t /\ stage \in {"see", "fresh", "rule"} /\ Advance(t, "see", "apply")
      /\ UNCHANGED <<exit, attempt>>
  BY DEF Ignore, FireFallback, SkipUnusable, ExitByRule, MoveTrail, Hold, At, tables
<1>2. track \in [Tracks -> Watched] /\ intent \in [Tracks -> Intents]
  BY DEF FInv, IInv, Typing, Typed, database
<1>3. \A u \in Tracks \ {t} : track'[u] = track[u] /\ intent'[u] = intent[u]
  BY <1>2 DEF Ignore, FireFallback, SkipUnusable, ExitByRule, MoveTrail, Hold, tables
<1>4. \A u \in Tracks \ {t} : Known(u)' = Known(u)
  BY <1>3 DEF Known
<1>5. Known(t)' = Outcome(t)
  <2>1. CASE Ignore(t) \/ SkipUnusable(t)
    <3>1. UNCHANGED <<track, intent>>
      BY <2>1 DEF Ignore, SkipUnusable, tables
    <3>2. Known(t)' = Known(t)
      BY <3>1 DEF Known
    <3> QED BY <2>1, <3>2, IgnoreDecides, UnusableDecides DEF FInv
  <2>2. CASE FireFallback(t)
    BY <2>2, FallbackDecides DEF FInv
  <2>3. CASE ExitByRule(t) \/ MoveTrail(t) \/ Hold(t)
    BY <2>3, RuleDecides DEF FInv
  <2> QED BY <2>1, <2>2, <2>3
<1>6. Faithful'
  BY <1>1, <1>4, <1>5, Decided DEF FInv
<1>7. UNCHANGED <<saved, item>> /\ stage' \in {"see", "apply"}
  BY <1>1, Advances
<1>8. Accepted' /\ FaithfulSaved'
  BY <1>1, <1>7, KeepsAccepted, KeepsSaved DEF FInv, Starts
<1> QED BY <1>6, <1>8

(* on_market_observation begins to judge an observation.                   *)
LEMMA SeeKept ==
    ASSUME FInv, NEW t \in Tracks, SeeObservation(t)
    PROVE  Faithful' /\ Accepted' /\ FaithfulSaved'
<1>1. /\ stage = "see" /\ turn = t /\ stage' = "fresh" /\ turn' = t
      /\ UNCHANGED <<position, intent, exit, attempt>>
      /\ UNCHANGED <<item, committed, expected, crashes, saved, Cursor, Here>>
      /\ intent[t] = NoIntent /\ News(t)
      /\ track' = [track EXCEPT ![t].seen = Here]
  BY Stays DEF SeeObservation, At
<1>2. track \in [Tracks -> Watched]
  BY DEF FInv, IInv, Typing, Typed, database
<1>3. \A u \in Tracks \ {t} : track'[u] = track[u]
  BY <1>1, <1>2
<1>4. \A u \in Tracks \ {t} : Known(u)' = Known(u)
  BY <1>1, <1>3 DEF Known
<1>5. \A u \in Tracks \ {t} : Already(u)' = Already(u) /\ NotYet(u)' = NotYet(u)
  BY <1>1, <1>4 DEF Already, NotYet, Outcome
<1>6. \A u \in Tracks : (u < t => Already(u)') /\ (u > t => NotYet(u)')
  <2>1. \A u \in Tracks : (u < t => Already(u)) /\ (u > t => NotYet(u))
    BY <1>1 DEF FInv, Faithful
  <2>2. ~(t < t) /\ ~(t > t)
    BY TurnIsTrack
  <2> QED BY <1>5, <2>1, <2>2
<1>7. Known(t) = expected[t]
  <2>1. NotYet(t)
    BY <1>1 DEF FInv, Faithful
  <2> QED BY <1>1, <2>1, StillExpected DEF FInv
<1>8. Judging(t)'
  <2>1. track'[t] = [track[t] EXCEPT !.seen = Here]
    BY <1>1, <1>2 DEF Watched
  <2>2. /\ track'[t].seen = Here /\ track'[t].active = track[t].active
        /\ track'[t].peak = track[t].peak /\ intent'[t] = intent[t]
    BY <1>1, <1>2, <2>1 DEF Watched
  <2>3. Known(t)' = [Known(t) EXCEPT !.seen = Here]
    BY <2>2 DEF Known, View
  <2>4. expected[t].seen = track[t].seen
    BY <1>7 DEF Known, View
  <2> QED BY <1>1, <1>7, <2>3, <2>4 DEF Judging, News
<1>9. item # NoItem
  BY <1>1 DEF FInv, IInv, InFlight, Quiet, Starts
<1>10. Judging(turn)'
  BY <1>1, <1>8 DEF Judging, Known
<1>11. Faithful'
  BY <1>1, <1>6, <1>9, <1>10 DEF Faithful, Late, Starts
<1>12. Accepted' /\ FaithfulSaved'
  BY <1>1, KeepsAccepted, KeepsSaved DEF FInv, Starts
<1> QED BY <1>11, <1>12

(* It is usable, and becomes the fresh mark.                               *)
LEMMA FreshKept ==
    ASSUME FInv, NEW t \in Tracks, RecordFresh(t)
    PROVE  Faithful' /\ Accepted' /\ FaithfulSaved'
<1>1. /\ stage = "fresh" /\ turn = t /\ stage' = "rule" /\ turn' = t /\ Usable
      /\ UNCHANGED <<position, intent, exit, attempt>>
      /\ UNCHANGED <<item, committed, expected, crashes, saved, Cursor, Here>>
      /\ track' = [track EXCEPT ![t].fresh = Here]
  BY Stays DEF RecordFresh, At
<1>2. track \in [Tracks -> Watched]
  BY DEF FInv, IInv, Typing, Typed, database
<1>3. \A u \in Tracks : /\ track'[u].seen = track[u].seen /\ track'[u].active = track[u].active
                        /\ track'[u].peak = track[u].peak /\ intent'[u] = intent[u]
  BY <1>1, <1>2 DEF Watched
<1>4. \A u \in Tracks : Known(u)' = Known(u)
  BY <1>3 DEF Known, View
<1>5. \A u \in Tracks : Already(u)' = Already(u) /\ NotYet(u)' = NotYet(u)
  BY <1>1, <1>4 DEF Already, NotYet, Outcome
<1>6. \A u \in Tracks : Judging(u)' = Judging(u)
  BY <1>1, <1>4 DEF Judging
<1>7. Judging(t)'
  BY <1>1, <1>6 DEF FInv, Faithful
<1>8. Judging(turn)'
  BY <1>1, <1>7 DEF Judging, Known
<1>9. item # NoItem /\ Usable'
  BY <1>1 DEF FInv, IInv, InFlight, Quiet, Starts, Usable
<1>10. Faithful'
  BY <1>1, <1>5, <1>8, <1>9 DEF FInv, Faithful, Late, Starts
<1>11. Accepted' /\ FaithfulSaved'
  BY <1>1, KeepsAccepted, KeepsSaved DEF FInv, Starts
<1> QED BY <1>10, <1>11

LEMMA BindKept ==
    ASSUME FInv, NEW t \in Tracks, BindTrack(t)
    PROVE  Faithful' /\ Accepted' /\ FaithfulSaved'
<1>1. /\ stage \in {"bind", "rebind"} /\ stage' = stage /\ turn' = turn
      /\ UNCHANGED <<position, intent, exit, attempt>>
      /\ UNCHANGED <<item, committed, expected, crashes, saved, Cursor, Here>>
      /\ track' = [track EXCEPT ![t].bound = TRUE]
  BY Stays DEF BindTrack
<1>2. track \in [Tracks -> Watched]
  BY DEF FInv, IInv, Typing, Typed, database
<1>3. \A u \in Tracks : /\ track'[u].seen = track[u].seen /\ track'[u].active = track[u].active
                        /\ track'[u].peak = track[u].peak /\ intent'[u] = intent[u]
  BY <1>1, <1>2 DEF Watched
<1>4. \A u \in Tracks : Known(u)' = Known(u)
  BY <1>3 DEF Known, View
<1>5. Faithful'
  BY <1>1, <1>4, Steady DEF FInv
<1>6. Accepted' /\ FaithfulSaved'
  BY <1>1, KeepsAccepted, KeepsSaved DEF FInv
<1> QED BY <1>5, <1>6

(* The bridge, the executor and the start of the process touch neither     *)
(* tracks nor intents.                                                     *)
LEMMA LaterKept ==
    ASSUME FInv, UNCHANGED <<track, intent, expected, item, Here>>,
           \/ stage' = stage /\ turn' = turn /\ stage # "idle"
           \/ stage \in Late /\ stage' \in Late
           \/ stage \in Starts /\ stage' \in Starts
           \/ stage = "bind" /\ stage' = "see" /\ turn' = 1
    PROVE  Faithful'
<1>1. \A t \in Tracks : Known(t)' = Known(t)
  BY DEF Known
<1> QED BY <1>1, Steady DEF FInv

LEMMA QuietKept ==
    ASSUME FInv, \/ Bound \/ Restart \/ Recovered
                 \/ \E t \in Tracks : RequestExit(t) \/ NothingToRequest(t) \/ NoAttempt(t)
    PROVE  Faithful' /\ Accepted' /\ FaithfulSaved'
<1>1. CASE Bound \/ Restart \/ Recovered
  <2>1. /\ UNCHANGED tables /\ turn' = turn
        /\ \/ stage = "bind" /\ stage' = "see"
           \/ stage \in Starts /\ stage' \in Starts
        /\ UNCHANGED <<item, committed, expected, crashes, saved, Cursor, Here>>
    BY <1>1, Stays DEF Bound, Restart, Recovered, Starts
  <2>2. stage = "bind" => turn = 1
    BY DEF FInv, IInv, InFlight
  <2>3. Faithful'
    BY <2>1, <2>2, LaterKept DEF tables
  <2>4. Accepted' /\ FaithfulSaved'
    BY <2>1, KeepsAccepted, KeepsSaved DEF FInv, tables, Starts
  <2> QED BY <2>3, <2>4
<1>2. ASSUME NEW t \in Tracks, RequestExit(t) \/ NothingToRequest(t) \/ NoAttempt(t)
      PROVE  Faithful' /\ Accepted' /\ FaithfulSaved'
  <2>1. PICK here \in {"apply", "execute"}, next \in {"execute", "commit"} :
          /\ UNCHANGED <<track, intent, exit, attempt>> /\ Advance(t, here, next)
          /\ stage \in {"apply", "execute"}
    BY <1>2 DEF RequestExit, NothingToRequest, NoAttempt, At, tables
  <2>2. /\ stage' \in {"apply", "execute", "commit"}
        /\ UNCHANGED <<item, committed, expected, crashes, saved, Cursor, Here>>
    BY <2>1, Advances
  <2>3. Faithful'
    BY <2>1, <2>2, LaterKept DEF Late
  <2>4. Accepted' /\ FaithfulSaved'
    BY <2>1, <2>2, KeepsAccepted, KeepsSaved DEF FInv, Starts
  <2> QED BY <2>3, <2>4
<1> QED BY <1>1, <1>2

(* bind_position opens the route of a position never attempted.            *)
LEMMA OpenKept ==
    ASSUME FInv, NEW t \in Tracks, OpenRoute(t)
    PROVE  Faithful' /\ Accepted' /\ FaithfulSaved'
<1>1. /\ stage \in {"execute", "rebind"} /\ stage' = stage /\ turn' = turn
      /\ UNCHANGED <<position, track, intent, attempt>>
      /\ UNCHANGED <<item, committed, expected, crashes, saved, Cursor, Here>>
      /\ exit[t].state = "NONE"
      /\ exit' = [exit EXCEPT ![t] = [state |-> "WAITING", ref |-> Reference(t),
                                      fill |-> NoMark]]
  BY Stays DEF OpenRoute, At, Unrouted
<1>2. Faithful'
  BY <1>1, LaterKept
<1>3. exit \in [Tracks -> Routes]
  BY DEF FInv, IInv, Typing, Typed, database
<1>4. attempt[t].verdict # "ACCEPTED"
  BY <1>1 DEF FInv, Accepted
<1>5. \A u \in Tracks \ {t} : exit'[u] = exit[u]
  BY <1>1, <1>3
<1>6. Accepted'
  BY <1>1, <1>4, <1>5 DEF FInv, Accepted
<1>7. FaithfulSaved'
  BY <1>1, KeepsSaved DEF FInv
<1> QED BY <1>2, <1>6, <1>7

(* on_market_observation of the executor persists its verdict.             *)
LEMMA AttemptKept ==
    ASSUME FInv, NEW t \in Tracks, PersistAttempt(t)
    PROVE  Faithful' /\ Accepted' /\ FaithfulSaved'
<1> DEFINE a == [at |-> item.at, by |-> Cursor,
                 verdict |-> IF item.exec = "FILLS" THEN "ACCEPTED" ELSE "REJECTED"]
<1>1. /\ stage = "execute" /\ turn = t
      /\ UNCHANGED <<position, track, intent, exit>>
      /\ attempt' = [attempt EXCEPT ![t] = a]
      /\ IF item.exec = "FILLS" THEN Stay("select") ELSE Advance(t, "execute", "commit")
  BY DEF PersistAttempt, At
<1>2. /\ UNCHANGED <<item, committed, expected, crashes, saved, Cursor, Here>>
      /\ item.exec = "FILLS" => stage' = "select" /\ turn' = t
      /\ item.exec # "FILLS" => stage' \in {"execute", "commit"}
  BY <1>1, Stays, Advances
<1>3. stage' \in Late /\ stage \in Late
  BY <1>1, <1>2 DEF Late
<1>4. Faithful'
  BY <1>1, <1>2, <1>3, LaterKept
<1>5. attempt \in [Tracks -> Attempts]
  BY DEF FInv, IInv, Typing, Typed, database
<1>6. attempt'[t] = a /\ \A u \in Tracks \ {t} : attempt'[u] = attempt[u]
  BY <1>1, <1>5
<1>7. attempt'[t].verdict = "ACCEPTED" => stage' = "select" /\ turn' = t
  <2>1. CASE item.exec = "FILLS"
    BY <1>2, <2>1
  <2>2. CASE item.exec # "FILLS"
    BY <1>6, <2>2
  <2> QED BY <2>1, <2>2
<1>8. Accepted'
  BY <1>1, <1>6, <1>7 DEF FInv, Accepted
<1>9. FaithfulSaved'
  BY <1>2, <1>3, KeepsSaved DEF FInv, Late, Starts
<1> QED BY <1>4, <1>8, <1>9

(* stage_selected_fill makes the accepted attempt the route's fill.        *)
LEMMA SelectKept ==
    ASSUME FInv, NEW t \in Tracks, StageSelectedFill(t)
    PROVE  Faithful' /\ Accepted' /\ FaithfulSaved'
<1>1. /\ stage = "select" /\ turn = t /\ stage' = "close" /\ turn' = t
      /\ UNCHANGED <<position, track, intent, attempt>>
      /\ UNCHANGED <<item, committed, expected, crashes, saved, Cursor, Here>>
      /\ exit' = [exit EXCEPT ![t].state = "SELECTED", ![t].fill = Here]
  BY Stays DEF StageSelectedFill, At
<1>2. Faithful'
  BY <1>1, LaterKept DEF Late
<1>3. exit \in [Tracks -> Routes]
  BY DEF FInv, IInv, Typing, Typed, database
<1>4. exit'[t].state = "SELECTED" /\ \A u \in Tracks \ {t} : exit'[u] = exit[u]
  BY <1>1, <1>3 DEF Routes
<1>5. Accepted'
  BY <1>1, <1>4 DEF FInv, Accepted
<1>6. FaithfulSaved'
  BY <1>1, KeepsSaved DEF FInv, Starts
<1> QED BY <1>2, <1>5, <1>6

(* _finalize_selected_route closes the position and finishes the route.    *)
LEMMA FinalizeKept ==
    ASSUME FInv, NEW t \in Tracks, ClosePosition(t) \/ FinishRoute(t)
    PROVE  Faithful' /\ Accepted' /\ FaithfulSaved'
<1>1. /\ stage \in {"close", "recover"} /\ UNCHANGED <<track, intent, attempt>>
  BY DEF ClosePosition, FinishRoute, Finalizes, At
<1>2. /\ UNCHANGED <<item, committed, expected, crashes, saved, Cursor, Here>>
      /\ \/ stage' = stage /\ turn' = turn
         \/ stage = "close" /\ stage' \in {"execute", "commit"}
  BY <1>1, Stays, Advances DEF ClosePosition, FinishRoute
<1>3. Faithful'
  BY <1>1, <1>2, LaterKept DEF Late
<1>4. exit \in [Tracks -> Routes]
  BY DEF FInv, IInv, Typing, Typed, database
<1>5. \A u \in Tracks : exit'[u].state = exit[u].state \/ exit'[u].state = "FILLED"
  <2>1. CASE ClosePosition(t)
    BY <2>1 DEF ClosePosition
  <2>2. CASE FinishRoute(t)
    BY <1>4, <2>2 DEF FinishRoute, Routes
  <2> QED BY <2>1, <2>2
<1>6. Accepted'
  BY <1>1, <1>5 DEF FInv, Accepted
<1>7. FaithfulSaved'
  BY <1>1, <1>2, KeepsSaved DEF FInv, Starts
<1> QED BY <1>3, <1>6, <1>7

(* ---------------------- items, commits and crashes --------------------- *)
(* Between two items the database is what a rollback may return to.        *)
LEMMA DatabaseFaithful ==
    ASSUME \A t \in Tracks : Known(t) = expected[t],
           Accepted, stage # "select"
    PROVE  \A t \in Tracks :
             /\ View(database[2][t], database[3][t]) = database[7][t]
             /\ database[5][t].verdict = "ACCEPTED" =>
                  database[4][t].state \in {"SELECTED", "FILLED"}
BY DEF Known, Accepted, database

LEMMA DeliverKept ==
    ASSUME FInv, Atomic, NEW i \in Feed, Deliver(i)
    PROVE  Faithful' /\ Accepted' /\ FaithfulSaved'
<1>1. /\ stage = "idle" /\ item = NoItem /\ item' = i /\ i # NoItem
      /\ UNCHANGED <<database, crashes, track, intent, exit, attempt, expected, position>>
      /\ stage' = IF Active THEN "bind" ELSE "commit"
      /\ i.kind \in {"MARKET", "CLOCK"}
      /\ saved' \in {saved, database}
      /\ i.kind = "MARKET" \/ saved' = database
  BY FeedShape DEF Deliver, Entered, FInv, IInv, InFlight, database
<1>2. \A t \in Tracks : Known(t) = expected[t] /\ Known(t)' = expected'[t]
  BY <1>1 DEF FInv, Faithful, Known
<1>3. ASSUME stage' = "bind" PROVE Faithful'
  <2>1. \A t \in Tracks : NotYet(t)'
    BY <1>2 DEF NotYet
  <2> QED BY <1>1, <1>3, <2>1 DEF Faithful, Late
<1>4. ASSUME stage' = "commit" PROVE Faithful'
  <2>1. ASSUME NEW t \in Tracks PROVE Already(t)'
    <3>1. position[t].state = "CLOSED"
      BY <1>1, <1>4 DEF Active
    <3>2. intent[t] # NoIntent
      BY <3>1, Rows DEF FInv, Sound, Follows
    <3>3. Known(t).intent = intent[t]
      BY DEF Known, View
    <3>4. expected'[t].intent # NoIntent
      BY <1>1, <1>2, <3>2, <3>3
    <3> QED BY <1>2, <3>4 DEF Already, Outcome, Resolve
  <2> QED BY <1>1, <1>4, <2>1 DEF Faithful, Starts
<1>5. Accepted'
  BY <1>1, KeepsAccepted DEF FInv
<1>6. FaithfulSaved'
  <2>1. \A t \in Tracks :
          /\ View(database[2][t], database[3][t]) = database[7][t]
          /\ database[5][t].verdict = "ACCEPTED" =>
               database[4][t].state \in {"SELECTED", "FILLED"}
    BY <1>1, <1>2, DatabaseFaithful DEF FInv
  <2>2. \A t \in Tracks :
          /\ View(saved[2][t], saved[3][t]) = saved[7][t]
          /\ saved[5][t].verdict = "ACCEPTED" => saved[4][t].state \in {"SELECTED", "FILLED"}
    BY <1>1 DEF FInv, FaithfulSaved, Starts, NoItem, Item
  <2>3. saved' = saved \/ saved' = database
    BY <1>1
  <2> QED BY <2>1, <2>2, <2>3 DEF FaithfulSaved
<1> QED BY <1>1, <1>3, <1>4, <1>5, <1>6

LEMMA CommitKept ==
    ASSUME FInv, Atomic, CommitCursor
    PROVE  Faithful' /\ Accepted' /\ FaithfulSaved'
<1>1. /\ stage = "commit" /\ item # NoItem /\ item' = NoItem /\ stage' = "idle"
      /\ UNCHANGED <<position, track, intent, exit, attempt, crashes>>
      /\ expected' = [t \in Tracks |-> Outcome(t)]
      /\ saved' = IF item.kind = "CLOCK" THEN database' ELSE saved
  BY DEF CommitCursor, FInv, IInv, InFlight, tables, Quiet, Starts, Outcome
<1>2. \A t \in Tracks : Known(t)' = expected'[t]
  <2> TAKE t \in Tracks
  <2>1. Known(t) = Outcome(t)
    BY <1>1 DEF FInv, Faithful, Late, Already
  <2>2. Known(t)' = Known(t)
    BY <1>1 DEF Known
  <2> QED BY <1>1, <2>1, <2>2
<1>3. Faithful'
  BY <1>1, <1>2 DEF Faithful, Late
<1>4. Accepted'
  BY <1>1, KeepsAccepted DEF FInv
<1>5. FaithfulSaved'
  <2>1. CASE item.kind = "CLOCK"
    BY <1>1, <1>2, <1>4, <2>1 DEF FaithfulSaved, Known, Accepted, database
  <2>2. CASE item.kind # "CLOCK"
    BY <1>1, <2>2 DEF FInv, FaithfulSaved, Starts
  <2> QED BY <2>1, <2>2
<1> QED BY <1>3, <1>4, <1>5

LEMMA CrashKept ==
    ASSUME FInv, Atomic, Crash
    PROVE  Faithful' /\ Accepted' /\ FaithfulSaved'
<1>1. stage # "down" /\ stage' = "down"
  BY DEF Crash
<1>2. FaithfulSaved'
  BY <1>1 DEF FaithfulSaved, Starts
<1>3. CASE RollsBack /\ RollBack /\ item' = NoItem
  <2>1. \A t \in Tracks :
          /\ View(saved[2][t], saved[3][t]) = saved[7][t]
          /\ saved[5][t].verdict = "ACCEPTED" => saved[4][t].state \in {"SELECTED", "FILLED"}
    BY <1>1, <1>3 DEF FInv, FaithfulSaved, RollsBack, Starting, Starts, NoItem, Item
  <2>2. \A t \in Tracks : Known(t)' = expected'[t]
    BY <1>3, <2>1 DEF RollBack, Known
  <2>3. Faithful'
    BY <1>1, <1>3, <2>2 DEF Faithful, Late
  <2>4. Accepted'
    BY <1>3, <2>1 DEF RollBack, Accepted
  <2> QED BY <1>2, <2>3, <2>4
<1>4. CASE (~RollsBack \/ item = NoItem) /\ UNCHANGED <<database, item>>
  <2>1. UNCHANGED <<track, intent, exit, attempt, expected, committed, item, Here>>
    BY <1>4 DEF database, Here, Cursor
  <2>2. \A t \in Tracks : /\ Known(t)' = Known(t) /\ NotYet(t)' = NotYet(t)
    BY <2>1 DEF Known, NotYet, Already, Outcome
  <2>3. item.kind \in {"MARKET", "CLOCK", "NONE"} /\ (item.kind = "NONE" <=> item = NoItem)
    BY ItemShape DEF FInv, IInv, Typing
  <2>4. item # NoItem => stage \in Starts \/ item.kind = "CLOCK"
    BY <1>1, <1>4, <2>3 DEF RollsBack, Starting, Starts
  <2>5. stage # "idle" \/ item = NoItem
    BY DEF FInv, IInv, InFlight
  <2>6. ASSUME item # NoItem PROVE \A t \in Tracks : NotYet(t)
    <3>1. CASE stage \in Starts
      BY <2>6, <3>1 DEF FInv, Faithful
    <3>2. CASE item.kind = "CLOCK" /\ stage \notin Starts
      <4>1. stage \notin {"fresh", "rule", "select", "idle"}
        BY <2>5, <2>6, <3>2 DEF FInv, IInv, AtTurn
      <4>2. CASE stage = "bind"
        BY <2>6, <4>2 DEF FInv, Faithful
      <4>3. CASE stage \in Late
        BY <3>2, <4>3 DEF FInv, Faithful, NotYet
      <4>4. CASE stage = "see"
        <5>1. \A t \in Tracks : (t < turn => Already(t)) /\ (t > turn => NotYet(t))
          BY <4>4 DEF FInv, Faithful
        <5>2. NotYet(turn) /\ turn \in Tracks
          BY <4>4 DEF FInv, Faithful, IInv, Typing
        <5>3. ASSUME NEW t \in Tracks PROVE NotYet(t)
          <6>1. t \in Nat /\ turn \in Nat
            BY <5>2, TurnIsTrack
          <6>2. t < turn \/ t = turn \/ t > turn
            BY <6>1
          <6> QED BY <3>2, <5>1, <5>2, <6>2 DEF NotYet
        <5> QED BY <5>3
      <4> QED BY <3>2, <4>1, <4>2, <4>3, <4>4 DEF FInv, IInv, Typing, Late, Starts
    <3> QED BY <2>4, <2>6, <3>1, <3>2
  <2>7. Faithful'
    <3>1. item = NoItem => \A t \in Tracks : Known(t) = expected[t]
      BY DEF FInv, Faithful
    <3> QED BY <1>1, <2>1, <2>2, <2>6, <3>1 DEF Faithful, Late
  <2>8. stage # "select"
    <3>1. SUFFICES ASSUME stage = "select" PROVE FALSE
      OBVIOUS
    <3>2. item.kind = "MARKET" /\ item # NoItem
      BY <3>1 DEF FInv, IInv, AtTurn, InFlight, Quiet, Starts
    <3> QED BY <2>4, <3>1, <3>2 DEF Starts
  <2>9. Accepted'
    BY <2>1, <2>8, KeepsAccepted DEF FInv
  <2> QED BY <1>2, <2>7, <2>9
<1> QED BY <1>3, <1>4 DEF Crash

LEMMA ReboundKept ==
    ASSUME FInv, Atomic, Rebound
    PROVE  Faithful' /\ Accepted' /\ FaithfulSaved'
<1>1. item.kind \in {"MARKET", "CLOCK", "NONE"} /\ (item.kind = "NONE" <=> item = NoItem)
  BY ItemShape DEF FInv, IInv, Typing
<1>2. /\ stage = "rebind" /\ UNCHANGED <<database, item, crashes>>
      /\ UNCHANGED <<position, track, intent, exit, attempt, expected, committed, Here>>
      /\ stage' = IF item = NoItem THEN "idle" ELSE IF Active THEN "bind" ELSE "commit"
      /\ saved' = database
  BY <1>1 DEF Rebound, Entered, database, Here, Cursor
<1>3. item.kind # "MARKET"
  BY <1>2 DEF FInv, IInv, Reversible, Starts
<1>4. Accepted'
  BY <1>2, KeepsAccepted DEF FInv
<1>5. \A t \in Tracks : /\ Known(t)' = Known(t) /\ NotYet(t)' = NotYet(t)
                        /\ Already(t)' = Already(t)
  BY <1>2 DEF Known, NotYet, Already, Outcome
<1>6. CASE item = NoItem
  <2>1. \A t \in Tracks : Known(t) = expected[t]
    BY <1>6 DEF FInv, Faithful
  <2>2. Faithful'
    BY <1>2, <1>5, <1>6, <2>1 DEF Faithful, Late
  <2>3. \A t \in Tracks :
          /\ View(database[2][t], database[3][t]) = database[7][t]
          /\ database[5][t].verdict = "ACCEPTED" =>
               database[4][t].state \in {"SELECTED", "FILLED"}
    BY <1>2, <2>1, DatabaseFaithful DEF FInv
  <2>4. FaithfulSaved'
    BY <1>2, <2>3 DEF FaithfulSaved
  <2> QED BY <1>4, <2>2, <2>4
<1>7. CASE item.kind = "CLOCK" /\ item # NoItem
  <2>1. \A t \in Tracks : NotYet(t)
    BY <1>2, <1>7 DEF FInv, Faithful, Starts
  <2>2. FaithfulSaved'
    BY <1>2, <1>7 DEF FaithfulSaved
  <2>3. ASSUME Active PROVE Faithful'
    BY <1>2, <1>5, <1>7, <2>1, <2>3 DEF Faithful, Late
  <2>4. ASSUME ~Active PROVE Faithful'
    <3>1. ASSUME NEW t \in Tracks PROVE Already(t)
      <4>1. position[t].state = "CLOSED"
        BY <2>4 DEF Active
      <4>2. intent[t] # NoIntent
        BY <4>1, Rows DEF FInv, Sound, Follows
      <4>3. Known(t).intent = intent[t]
        BY DEF Known, View
      <4>4. CASE Known(t) = expected[t]
        <5>1. expected[t].intent # NoIntent
          BY <4>2, <4>3, <4>4
        <5> QED BY <4>4, <5>1 DEF Already, Outcome, Resolve
      <4> QED BY <2>1, <4>4 DEF NotYet
    <3> QED BY <1>2, <1>5, <1>7, <2>4, <3>1 DEF Faithful, Starts
  <2> QED BY <1>4, <2>2, <2>3, <2>4
<1> QED BY <1>1, <1>3, <1>6, <1>7

LEMMA InitFInv == Init /\ Atomic => FInv
<1> SUFFICES ASSUME Init, Atomic PROVE FInv
  OBVIOUS
<1>1. IInv
  BY InitIInv
<1>2. \A t \in Tracks : Known(t) = expected[t] /\ attempt[t].verdict # "ACCEPTED"
  BY DEF Init, Known, View, Watch0
<1>3. item = NoItem /\ stage = "idle" /\ saved = database
  BY DEF Init
<1>4. Accepted
  BY <1>2 DEF Accepted
<1>5. \A t \in Tracks :
        /\ View(database[2][t], database[3][t]) = database[7][t]
        /\ database[5][t].verdict = "ACCEPTED" =>
             database[4][t].state \in {"SELECTED", "FILLED"}
  BY <1>2, <1>3, <1>4, DatabaseFaithful
<1>6. Faithful /\ FaithfulSaved
  BY <1>2, <1>3, <1>5 DEF Faithful, FaithfulSaved, Late
<1> QED BY <1>1, <1>4, <1>6 DEF FInv

LEMMA FaithfulStep == FInv /\ Atomic /\ [Next]_vars => FInv'
<1> SUFFICES ASSUME FInv, Atomic, [Next]_vars PROVE FInv'
  OBVIOUS
<1>1. IInv'
  BY InductiveStep DEF FInv
<1>2. CASE UNCHANGED vars \/ SourceEnds
  <2>1. UNCHANGED <<position, track, intent, exit, attempt, committed, expected, item, stage,
                    turn, crashes, saved>>
    BY <1>2 DEF SourceEnds, vars, database, process
  <2>2. Faithful' = Faithful /\ Accepted' = Accepted /\ FaithfulSaved' = FaithfulSaved
    BY <2>1 DEF Faithful, Accepted, FaithfulSaved, Known, NotYet, Already, Outcome, Judging,
       Here, Cursor, Usable
  <2> QED BY <1>1, <2>2 DEF FInv
<1>3. CASE Handler
  <2>1. Faithful' /\ Accepted' /\ FaithfulSaved'
    BY <1>3, QuietKept, CommitKept, ReboundKept, BindKept, DecisionKept, SeeKept, FreshKept,
       OpenKept, AttemptKept, SelectKept, FinalizeKept DEF Handler
  <2> QED BY <1>1, <2>1 DEF FInv
<1>4. CASE \E i \in Feed : Deliver(i)
  BY <1>1, <1>4, DeliverKept DEF FInv
<1>5. CASE Crash \/ Restart
  BY <1>1, <1>5, CrashKept, QuietKept DEF FInv
<1> QED BY <1>2, <1>3, <1>4, <1>5 DEF Next

(* When a batch is one commit the exit decisions are those of the rules on *)
(* the committed items: no crash loses or moves a trigger (binding v0.5    *)
(* over on_market_observation and on_clock).                               *)
THEOREM RuleFollowed == ASSUME Atomic PROVE Spec => []ExitRuleFollowed
<1>1. FInv => ExitRuleFollowed
  <2> SUFFICES ASSUME FInv, stage = "idle", NEW t \in Tracks
               PROVE  /\ intent[t] = expected[t].intent
                      /\ track[t].active = expected[t].active
                      /\ track[t].peak = expected[t].peak
    BY DEF ExitRuleFollowed
  <2>1. Known(t) = expected[t]
    BY DEF FInv, Faithful, IInv, InFlight
  <2>2. /\ Known(t).intent = intent[t] /\ Known(t).active = track[t].active
        /\ Known(t).peak = track[t].peak
    BY DEF Known, View
  <2> QED BY <2>1, <2>2
<1>2. Init => FInv
  BY InitFInv
<1>3. FInv /\ [Next]_vars => FInv'
  BY FaithfulStep
<1> QED BY <1>1, <1>2, <1>3, PTL DEF Spec

(* When a batch is one commit no accepted fill is left behind: between two *)
(* items a position whose attempt was accepted is closed (the executor's   *)
(* _attempt_with_impact to _finalize_selected_route).                      *)
THEOREM FillsApplied == ASSUME Atomic PROVE Spec => []AcceptedExitFills
<1>1. FInv => AcceptedExitFills
  <2> SUFFICES ASSUME FInv, stage = "idle", NEW t \in Tracks, attempt[t].verdict = "ACCEPTED"
               PROVE  position[t].state = "CLOSED"
    BY DEF AcceptedExitFills
  <2>1. exit[t].state \in {"SELECTED", "FILLED"}
    BY DEF FInv, Accepted
  <2>2. Selected = {}
    BY DEF FInv, IInv, Progress
  <2>3. exit[t].state = "FILLED"
    BY <2>1, <2>2 DEF Selected
  <2> QED BY <2>3, Rows DEF FInv, Sound, RouteFollows
<1>2. Init => FInv
  BY InitFInv
<1>3. FInv /\ [Next]_vars => FInv'
  BY FaithfulStep
<1> QED BY <1>1, <1>2, <1>3, PTL DEF Spec
-----------------------------------------------------------------------------
(* When every statement commits on its own nothing decided is taken back:  *)
(* the exit implements ExitPromise.                                        *)
hold == [t \in Tracks |-> Holding(t)]

LEMMA HoldsStill ==
    ASSUME UNCHANGED position,
           \A t \in Tracks : position[t].state = "OPEN" \/ intent'[t] = intent[t]
    PROVE  hold' = hold
<1>1. \A t \in Tracks : Holding(t)' = Holding(t)
  BY DEF Holding
<1> QED BY <1>1 DEF hold

LEMMA LeaveKept ==
    ASSUME IInv, NEW t \in Tracks, RequestExit(t)
    PROVE  Promise!Next
<1> DEFINE n == intent[t]
<1>1. /\ position[t].state = "OPEN" /\ position' = [position EXCEPT ![t] = Requested(t)]
      /\ n # NoIntent /\ UNCHANGED intent
  BY DEF RequestExit
<1>2. position \in [Tracks -> Positions]
  BY DEF IInv, Typing, Typed, database
<1>3. position'[t] = Requested(t) /\ \A u \in Tracks \ {t} : position'[u] = position[u]
  BY <1>1, <1>2
<1>4. hold[t] = Promise!Held(t)
  BY <1>1 DEF hold, Holding, Promise!Held
<1>5. Holding(t)' = Promise!Leaving(n.why, n.at)
  BY <1>1, <1>3 DEF Holding, Requested, Promise!Leaving
<1>6. ASSUME NEW u \in Tracks \ {t} PROVE Holding(u)' = Holding(u)
  <2>1. position'[u] = position[u] /\ intent'[u] = intent[u]
    BY <1>1, <1>3
  <2> QED BY <2>1 DEF Holding
<1>7. hold' = [hold EXCEPT ![t] = Promise!Leaving(n.why, n.at)]
  BY <1>5, <1>6 DEF hold
<1>8. /\ Decides(t, n) /\ Times \subseteq Nat /\ 0 \in Times
  BY Rows, Numbers DEF Sound
<1>9. CASE n = FallbackOf(t)
  <2>1. n.why = "FALLBACK" /\ n.at = Deadline(t) + 1
    BY <1>9 DEF FallbackOf, Intent, FireAt
  <2> HIDE DEF n
  <2>2. Promise!Leave(t, "FALLBACK", Deadline(t) + 1)
    BY <1>4, <1>7, <2>1 DEF Promise!Leave, hold
  <2> QED BY <1>8, <2>2 DEF Promise!Next
<1>10. CASE /\ n.why = RuleOf(t) /\ n.at \in Times /\ OpenAt <= n.at /\ n.at <= Deadline(t)
  <2>1. n.at \in OpenAt .. Deadline(t)
    <3>1. OpenAt \in Nat /\ Deadline(t) \in Nat /\ n.at \in Nat
      BY <1>8, <1>10, Numbers
    <3> HIDE DEF n
    <3> QED BY <1>10, <3>1
  <2> HIDE DEF n
  <2>2. Promise!Leave(t, RuleOf(t), n.at)
    BY <1>4, <1>7, <1>10, <2>1 DEF Promise!Leave, hold, RuleOf
  <2> QED BY <1>10, <2>2 DEF Promise!Next, RuleOf
<1> QED BY <1>1, <1>8, <1>9, <1>10 DEF Decides

LEMMA LeftRow ==
    ASSUME NEW w, NEW a, NEW b
    PROVE  Promise!Left(Promise!Leaving(w, a), b)
             = [state |-> "LEFT", why |-> w, asked |-> a, left |-> b]
<1>1. PICK z : z = 0
  OBVIOUS
<1>2. PICK s : s = "LEFT"
  OBVIOUS
<1>3. PICK o : o = "LEAVING"
  OBVIOUS
<1>4. PICK h : h = [state |-> o, why |-> w, asked |-> a, left |-> z]
  OBVIOUS
<1>5. PICK v : v = [h EXCEPT !.state = s]
  OBVIOUS
<1>6. v = [state |-> s, why |-> w, asked |-> a, left |-> z]
  BY <1>4, <1>5
<1>7. [v EXCEPT !.left = b] = [state |-> s, why |-> w, asked |-> a, left |-> b]
  BY <1>6
<1>8. Promise!Left(h, b) = [v EXCEPT !.left = b]
  BY <1>2, <1>5 DEF Promise!Left
<1>9. h = Promise!Leaving(w, a)
  BY <1>1, <1>3, <1>4 DEF Promise!Leaving
<1> QED BY <1>2, <1>7, <1>8, <1>9

LEMMA CloseKept ==
    ASSUME IInv, NEW t \in Tracks, ClosePosition(t)
    PROVE  Promise!Next
<1>1. /\ position[t].state = "EXIT_PENDING" /\ exit[t].state = "SELECTED"
      /\ position' = [position EXCEPT ![t] = Closed(t)] /\ UNCHANGED intent
  BY FinalizeFacts DEF ClosePosition
<1>2. position \in [Tracks -> Positions]
  BY DEF IInv, Typing, Typed, database
<1>3. position'[t] = Closed(t) /\ \A u \in Tracks \ {t} : position'[u] = position[u]
  BY <1>1, <1>2
<1>4. position[t] = AsksFor(intent[t])
  BY <1>1, Rows DEF Sound, Follows
<1>5. hold[t] = Promise!Leaving(intent[t].why, intent[t].at)
  BY <1>1, <1>4 DEF hold, Holding, AsksFor, Promise!Leaving
<1>6. Holding(t)' = [state |-> "LEFT", why |-> intent[t].why, asked |-> intent[t].at,
                     left |-> exit[t].fill.at]
  BY <1>1, <1>3 DEF Holding, Closed
<1>7. Promise!Left(hold[t], exit[t].fill.at)
        = [state |-> "LEFT", why |-> intent[t].why, asked |-> intent[t].at,
           left |-> exit[t].fill.at]
  BY <1>5, LeftRow
<1>8. ASSUME NEW u \in Tracks \ {t} PROVE Holding(u)' = Holding(u)
  <2>1. position'[u] = position[u] /\ intent'[u] = intent[u]
    BY <1>1, <1>3
  <2> QED BY <2>1 DEF Holding
<1>9. hold' = [hold EXCEPT ![t] = Promise!Left(hold[t], exit[t].fill.at)]
  BY <1>6, <1>7, <1>8 DEF hold
<1>10. exit[t].fill.at >= intent[t].at + Latency /\ exit[t].fill.at \in Times
  BY <1>1, Rows DEF Sound, FilledBy, Routes, Marks
<1>11. hold[t].state = "LEAVING" /\ hold[t].asked = intent[t].at
  BY <1>5 DEF Promise!Leaving
<1>12. Promise!Close(t, exit[t].fill.at)
  BY <1>9, <1>10, <1>11 DEF Promise!Close, hold
<1> QED BY <1>10, <1>12 DEF Promise!Next

(* Every other step leaves the position and what was asked alone.          *)
LEMMA StutterKept ==
    ASSUME IInv, ~Atomic, [Next]_vars,
           ~ \E t \in Tracks : RequestExit(t) \/ ClosePosition(t)
    PROVE  hold' = hold
<1>1. \A t \in Tracks : position[t].state = "OPEN" \/ intent[t] # NoIntent
  BY Rows DEF Sound, Follows, Positions
<1>2. UNCHANGED position
  BY DEF Next, Handler, vars, database, tables, Deliver, Bound, CommitCursor, Recovered,
     Rebound, BindTrack, Ignore, FireFallback, SeeObservation, SkipUnusable, RecordFresh,
     ExitByRule, MoveTrail, Hold, NothingToRequest, OpenRoute, NoAttempt, PersistAttempt,
     StageSelectedFill, FinishRoute, Crash, RollsBack, Restart, SourceEnds
<1>3. \A t \in Tracks : intent[t] = NoIntent \/ intent'[t] = intent[t]
  <2>1. CASE \E t \in Tracks : FireFallback(t) \/ ExitByRule(t)
    <3>1. PICK t \in Tracks : FireFallback(t) \/ ExitByRule(t)
      BY <2>1
    <3>2. intent[t] = NoIntent
      BY <3>1 DEF FireFallback, ExitByRule, At, IInv, AtTurn
    <3>3. intent \in [Tracks -> Intents]
      BY DEF IInv, Typing, Typed, database
    <3>4. \A u \in Tracks \ {t} : intent'[u] = intent[u]
      BY <3>1, <3>3 DEF FireFallback, ExitByRule
    <3> QED BY <3>2, <3>4
  <2>2. CASE ~ \E t \in Tracks : FireFallback(t) \/ ExitByRule(t)
    <3>1. UNCHANGED intent
      BY <2>2 DEF Next, Handler, vars, database, tables, Deliver, Bound, CommitCursor,
         Recovered, Rebound, BindTrack, Ignore, SeeObservation, SkipUnusable, RecordFresh,
         MoveTrail, Hold, NothingToRequest, OpenRoute, NoAttempt, PersistAttempt,
         StageSelectedFill, FinishRoute, Crash, RollsBack, Restart, SourceEnds
    <3> QED BY <3>1
  <2> QED BY <2>1, <2>2
<1> QED BY <1>1, <1>2, <1>3, HoldsStill

(* Every position leaves once, for its rule inside its window or its       *)
(* fallback one tick after it, is closed no earlier than the exit latency, *)
(* and never reopens, whatever statements a crash falls between            *)
(* (request_exit, close_position under the bindings v0.1 - v0.4).          *)
THEOREM KeepsPromise == ASSUME ~Atomic PROVE Spec => ExitPromised
<1>1. Init => Promise!Init
  <2> SUFFICES ASSUME Init PROVE hold = [t \in Tracks |-> Promise!Held(t)]
    BY DEF Promise!Init, hold
  <2>1. \A t \in Tracks : position[t].state = "OPEN"
    BY DEF Init
  <2>2. \A t \in Tracks : Holding(t) = Promise!Held(t)
    BY <2>1 DEF Holding, Promise!Held
  <2> QED BY <2>2 DEF hold
<1>2. IInv /\ [Next]_vars => [Promise!Next]_hold
  <2> SUFFICES ASSUME IInv, [Next]_vars PROVE Promise!Next \/ hold' = hold
    OBVIOUS
  <2>1. CASE \E t \in Tracks : RequestExit(t)
    BY <2>1, LeaveKept
  <2>2. CASE \E t \in Tracks : ClosePosition(t)
    BY <2>2, CloseKept
  <2>3. CASE ~ \E t \in Tracks : RequestExit(t) \/ ClosePosition(t)
    BY <2>3, StutterKept
  <2> QED BY <2>1, <2>2, <2>3
<1> QED BY <1>1, <1>2, Invariance, PTL DEF Spec, ExitPromised, Promise!Spec, hold
-----------------------------------------------------------------------------
(* ---------------------- the way to the fallback ------------------------ *)
(* At a tick past its fallback a track has an intent as soon as the        *)
(* orchestrator is past it, and is leaving as soon as the bridge is.       *)
Fired ==
    \A t \in Tracks :
        item.kind = "CLOCK" /\ item.at >= FireAt(t) =>
          /\ stage \in Late \/ (stage = "see" /\ t < turn) => intent[t] # NoIntent
          /\ \/ stage \in {"execute", "select", "close", "commit"}
             \/ stage = "apply" /\ t < turn
             => Leaving(t)


(* A row that leaves nothing behind: intents stay, leaving positions too.  *)
LEMMA FiredOn ==
    ASSUME Fired, UNCHANGED item,
           \A t \in Tracks : /\ intent[t] # NoIntent => intent'[t] # NoIntent
                             /\ Leaving(t) => Leaving(t)',
           \/ stage' \notin Late \cup {"see"}
           \/ stage' = stage /\ turn' = turn
           \/ stage' \in {"execute", "select", "close", "commit"}
              /\ stage \in {"execute", "select", "close"}
           \/ stage' = "see" /\ turn' \in Tracks /\ turn' = 1
    PROVE  Fired'
<1> SUFFICES ASSUME NEW t \in Tracks, item'.kind = "CLOCK", item'.at >= FireAt(t)
             PROVE  /\ stage' \in Late \/ (stage' = "see" /\ t < turn') => intent'[t] # NoIntent
                    /\ \/ stage' \in {"execute", "select", "close", "commit"}
                       \/ stage' = "apply" /\ t < turn'
                       => Leaving(t)'
  BY DEF Fired
<1>1. /\ stage \in Late \/ (stage = "see" /\ t < turn) => intent[t] # NoIntent
      /\ \/ stage \in {"execute", "select", "close", "commit"}
         \/ stage = "apply" /\ t < turn
         => Leaving(t)
  BY DEF Fired
<1>2. t \in Nat /\ ~(t < 1)
  BY TurnIsTrack
<1> QED BY <1>1, <1>2 DEF Late

LEMMA FiredSee ==
    ASSUME IInv, Fired, NEW t \in Tracks, Ignore(t) \/ FireFallback(t)
    PROVE  Fired'
<1>1. /\ stage = "see" /\ turn = t /\ UNCHANGED <<position, item>>
      /\ \/ stage' = "apply" /\ turn' = 1 /\ t = NumTracks
         \/ stage' = "see" /\ turn' = t + 1
  BY Advances DEF Ignore, FireFallback, At, tables
<1>2. intent \in [Tracks -> Intents] /\ FallbackOf(t) # NoIntent
  BY Numbers DEF IInv, Typing, Typed, database
<1>3. \A u \in Tracks \ {t} : intent'[u] = intent[u]
  BY <1>2 DEF Ignore, FireFallback, tables
<1>4. item.kind = "CLOCK" /\ item.at >= FireAt(t) => intent'[t] # NoIntent
  BY <1>2 DEF Ignore, FireFallback, tables, PastFallback
<1> SUFFICES ASSUME NEW u \in Tracks, item'.kind = "CLOCK", item'.at >= FireAt(u)
             PROVE  /\ stage' \in Late \/ (stage' = "see" /\ u < turn') => intent'[u] # NoIntent
                    /\ \/ stage' \in {"execute", "select", "close", "commit"}
                       \/ stage' = "apply" /\ u < turn'
                       => Leaving(u)'
  BY DEF Fired
<1>5. u \in Nat /\ t \in Nat /\ ~(u < 1) /\ u <= NumTracks /\ NumTracks \in Nat
  BY TurnIsTrack, Numbers
<1>6. u < t => intent[u] # NoIntent
  BY <1>1 DEF Fired
<1>7. stage' \in Late \/ u < turn' => u = t \/ u < t
  BY <1>1, <1>5 DEF Late
<1> QED BY <1>1, <1>3, <1>4, <1>5, <1>6, <1>7 DEF Late

LEMMA FiredApply ==
    ASSUME IInv, Fired, NEW t \in Tracks, RequestExit(t) \/ NothingToRequest(t)
    PROVE  Fired'
<1>1. /\ stage = "apply" /\ turn = t /\ UNCHANGED <<intent, item>>
      /\ \/ stage' = "execute" /\ turn' = 1 /\ t = NumTracks
         \/ stage' = "apply" /\ turn' = t + 1
  BY Advances DEF RequestExit, NothingToRequest, At, tables
<1>2. position \in [Tracks -> Positions]
  BY DEF IInv, Typing, Typed, database
<1>3. \A u \in Tracks \ {t} : position'[u] = position[u]
  BY <1>2 DEF RequestExit, NothingToRequest, tables
<1>4. intent[t] # NoIntent => Leaving(t)'
  <2>1. CASE RequestExit(t)
    <3>1. position'[t] = Requested(t)
      BY <1>2, <2>1 DEF RequestExit
    <3> QED BY <3>1 DEF Leaving, Requested
  <2>2. CASE NothingToRequest(t)
    <3>1. UNCHANGED position /\ (intent[t] # NoIntent => position[t].state # "OPEN")
      BY <2>2 DEF NothingToRequest, tables
    <3>2. position[t].state \in {"OPEN", "EXIT_PENDING", "CLOSED"}
      BY <1>2 DEF Positions
    <3> QED BY <3>1, <3>2 DEF Leaving
  <2> QED BY <2>1, <2>2
<1> SUFFICES ASSUME NEW u \in Tracks, item'.kind = "CLOCK", item'.at >= FireAt(u)
             PROVE  /\ stage' \in Late \/ (stage' = "see" /\ u < turn') => intent'[u] # NoIntent
                    /\ \/ stage' \in {"execute", "select", "close", "commit"}
                       \/ stage' = "apply" /\ u < turn'
                       => Leaving(u)'
  BY DEF Fired
<1>5. u \in Nat /\ t \in Nat /\ ~(u < 1) /\ u <= NumTracks /\ NumTracks \in Nat
  BY TurnIsTrack, Numbers
<1>6. intent[u] # NoIntent /\ (u < t => Leaving(u))
  BY <1>1 DEF Fired, Late
<1>7. stage' = "execute" \/ u < turn' => u = t \/ u < t
  BY <1>1, <1>5
<1>8. u # t => Leaving(u)' = Leaving(u)
  BY <1>3 DEF Leaving
<1> QED BY <1>1, <1>4, <1>5, <1>6, <1>7, <1>8

(* When nothing is open any more a tick has nothing to do.                 *)
LEMMA FiredPast ==
    ASSUME IInv, UNCHANGED <<position, intent>>, stage' = Entered(item').stage,
           turn' = 1
    PROVE  Fired'
<1>1. CASE stage' = "commit"
  <2>1. \A t \in Tracks : position[t].state = "CLOSED"
    BY <1>1 DEF Entered, Active
  <2>2. \A t \in Tracks : intent[t] # NoIntent
    BY <2>1, Rows DEF Sound, Follows
  <2> QED BY <2>1, <2>2 DEF Fired, Leaving
<1>2. CASE stage' # "commit"
  <2>1. stage' \in {"idle", "bind"}
    BY <1>2 DEF Entered
  <2> QED BY <2>1 DEF Fired, Late
<1> QED BY <1>1, <1>2

LEMMA FiredStep == IInv /\ Fired /\ [Next]_vars => Fired'
<1> SUFFICES ASSUME IInv, Fired, [Next]_vars PROVE Fired'
  OBVIOUS
<1>1. CASE UNCHANGED vars \/ SourceEnds
  <2>1. UNCHANGED <<position, intent, item, stage, turn>>
    BY <1>1 DEF SourceEnds, vars, database, process
  <2>2. \A t \in Tracks : Leaving(t)' = Leaving(t)
    BY <2>1 DEF Leaving
  <2> QED BY <2>1, <2>2, FiredOn
<1>2. CASE \E i \in Feed : Deliver(i)
  <2>1. UNCHANGED <<position, intent>> /\ stage' = Entered(item').stage /\ turn' = 1
    <3>1. PICK i \in Feed : Deliver(i)
      BY <1>2
    <3>2. UNCHANGED <<position, intent>> /\ item' = i /\ stage' = Entered(i).stage
          /\ turn' = Entered(i).turn
      BY <3>1 DEF Deliver, database
    <3> QED BY <3>2 DEF Entered
  <2> QED BY <2>1, FiredPast
<1>3. CASE Crash
  <2>1. stage' = "down"
    BY <1>3 DEF Crash
  <2> QED BY <2>1 DEF Fired, Late
<1>4. CASE Restart \/ Recovered
  <2>1. stage' \in {"recover", "rebind"}
    BY <1>4, Stays DEF Restart, Recovered
  <2> QED BY <2>1 DEF Fired, Late
<1>5. CASE Rebound
  <2>1. UNCHANGED <<position, intent, item>> /\ stage' = Entered(item).stage
        /\ turn' = Entered(item).turn
    BY <1>5 DEF Rebound, database
  <2>2. stage' = Entered(item').stage /\ turn' = 1
    BY <2>1 DEF Entered
  <2> QED BY <2>1, <2>2, FiredPast
<1>6. CASE CommitCursor
  <2>1. item'.kind = "NONE"
    BY <1>6 DEF CommitCursor, NoItem, Item
  <2> QED BY <2>1 DEF Fired
<1>7. CASE Bound
  <2>1. stage' = "see" /\ turn' = 1 /\ UNCHANGED <<position, intent, item>> /\ turn' \in Tracks
    BY <1>7, Stays, Numbers DEF Bound, tables, IInv, InFlight
  <2>2. \A t \in Tracks : Leaving(t)' = Leaving(t)
    BY <2>1 DEF Leaving
  <2> QED BY <2>1, <2>2, FiredOn
<1>8. ASSUME NEW t \in Tracks, BindTrack(t) \/ OpenRoute(t)
      PROVE  Fired'
  <2>1. UNCHANGED <<position, intent, item, stage, turn>>
    BY <1>8, Stays DEF BindTrack, OpenRoute
  <2>2. \A u \in Tracks : Leaving(u)' = Leaving(u)
    BY <2>1 DEF Leaving
  <2> QED BY <2>1, <2>2, FiredOn
<1>9. ASSUME NEW t \in Tracks, \/ SeeObservation(t) \/ SkipUnusable(t) \/ RecordFresh(t)
                               \/ ExitByRule(t) \/ MoveTrail(t) \/ Hold(t)
      PROVE  Fired'
  <2>1. item.kind = "MARKET"
    BY <1>9 DEF SeeObservation, News, SkipUnusable, RecordFresh, ExitByRule, MoveTrail, Hold,
       At, IInv, AtTurn
  <2>2. UNCHANGED item
    BY <1>9 DEF SeeObservation, SkipUnusable, RecordFresh, ExitByRule, MoveTrail, Hold,
       Advance, Stay
  <2> QED BY <2>1, <2>2 DEF Fired
<1>10. ASSUME NEW t \in Tracks,
              NoAttempt(t) \/ PersistAttempt(t) \/ StageSelectedFill(t) \/ FinishRoute(t)
       PROVE  Fired'
  <2>1. UNCHANGED <<position, intent, item>>
    BY <1>10 DEF NoAttempt, PersistAttempt, StageSelectedFill, FinishRoute, tables,
       Advance, Stay
  <2>2. \/ stage \in {"execute", "select", "close"}
           /\ stage' \in {"execute", "select", "close", "commit"}
        \/ stage = "recover" /\ stage' = "recover"
    BY <1>10 DEF NoAttempt, PersistAttempt, StageSelectedFill, FinishRoute, Finalizes, At,
       Advance, Stay
  <2>3. \A u \in Tracks : Leaving(u)' = Leaving(u)
    BY <2>1 DEF Leaving
  <2>4. CASE stage' = "recover"
    BY <2>4 DEF Fired, Late
  <2> QED BY <2>1, <2>2, <2>3, <2>4, FiredOn
<1>11. ASSUME NEW t \in Tracks, ClosePosition(t)
       PROVE  Fired'
  <2>1. UNCHANGED <<intent, item, stage, turn>>
    BY <1>11, Stays DEF ClosePosition
  <2>2. position \in [Tracks -> Positions]
    BY DEF IInv, Typing, Typed, database
  <2>3. \A u \in Tracks : u # t => position'[u] = position[u]
    BY <1>11, <2>2 DEF ClosePosition
  <2>4. position'[t].state = "CLOSED"
    BY <1>11, <2>2 DEF ClosePosition, Closed
  <2>5. \A u \in Tracks : Leaving(u) => Leaving(u)'
    BY <2>3, <2>4 DEF Leaving
  <2> QED BY <2>1, <2>5, FiredOn
<1> QED
  BY <1>1, <1>2, <1>3, <1>4, <1>5, <1>6, <1>7, <1>8, <1>9, <1>10, <1>11, FiredSee, FiredApply
  DEF Next, Handler

(* A tick past every fallback has every position leaving or closed by the  *)
(* time it is committed, whatever crashed before or while it was handled   *)
(* and whatever triggers were lost (on_clock, request_exit).               *)
THEOREM LeavingAtCommit ==
    Spec => [](stage = "commit" /\ PastFallbacks => \A t \in Tracks : Leaving(t))
<1>1. Init => Fired
  BY DEF Init, Fired, Late
<1>2. Fired => (stage = "commit" /\ PastFallbacks => \A t \in Tracks : Leaving(t))
  BY DEF Fired, PastFallbacks
<1> QED BY <1>1, <1>2, FiredStep, Invariance, PTL DEF Spec
-----------------------------------------------------------------------------
(* In which order the rows of a track are written.                         *)
Phase(s) == CASE s \in {"OPEN", "NONE"} -> 0 [] s \in {"EXIT_PENDING", "WAITING"} -> 1
              [] s \in {"CLOSED", "SELECTED"} -> 2 [] s = "FILLED" -> 3

Forward(old, new) == new = old \/ Phase(old.state) < Phase(new.state)

OnlyForward ==
    /\ committed <= committed'
    /\ \A t \in Tracks :
         /\ Forward(position[t], position'[t])
         /\ exit'[t].ref = exit[t].ref \/ exit[t].state = "NONE"
         /\ Phase(exit[t].state) <= Phase(exit'[t].state)
         /\ intent[t] # NoIntent => intent'[t] = intent[t]
         /\ track[t].bound => track'[t].bound
         /\ track[t].active => track'[t].active
         /\ track[t].peak <= track'[t].peak

LEMMA Phases ==
    /\ Phase("OPEN") = 0 /\ Phase("NONE") = 0 /\ Phase("EXIT_PENDING") = 1
    /\ Phase("WAITING") = 1 /\ Phase("CLOSED") = 2 /\ Phase("SELECTED") = 2
    /\ Phase("FILLED") = 3
BY DEF Phase

LEMMA TablesForward ==
    ASSUME IInv, UNCHANGED tables, committed <= committed'
    PROVE  OnlyForward
<1>1. \A t \in Tracks : /\ track[t].peak \in Nat
                        /\ exit[t].state \in {"NONE", "WAITING", "SELECTED", "FILLED"}
  BY Rows, Numbers DEF Watched, Routes
<1>2. \A t \in Tracks : Phase(exit[t].state) \in Nat
  BY <1>1, Phases
<1> QED BY <1>1, <1>2 DEF OnlyForward, Forward, tables

LEMMA PositionForward ==
    ASSUME IInv, NEW t \in Tracks, RequestExit(t) \/ ClosePosition(t)
    PROVE  OnlyForward
<1>1. /\ position \in [Tracks -> Positions] /\ committed \in Nat
      /\ UNCHANGED <<track, intent, exit, committed>>
  BY Rows DEF IInv, Typing, Typed, database, RequestExit, ClosePosition, Advance, Stay
<1>2. \A u \in Tracks : u # t => position'[u] = position[u]
  BY <1>1 DEF RequestExit, ClosePosition
<1>3. Phase(position[t].state) < Phase(position'[t].state)
  <2>1. CASE RequestExit(t)
    <3>1. position[t].state = "OPEN" /\ position'[t].state = "EXIT_PENDING"
      BY <1>1, <2>1 DEF RequestExit, Requested
    <3> QED BY <3>1, Phases
  <2>2. CASE ClosePosition(t)
    <3>1. position[t].state = "EXIT_PENDING" /\ position'[t].state = "CLOSED"
      BY <1>1, <2>2 DEF ClosePosition, Closed
    <3> QED BY <3>1, Phases
  <2> QED BY <2>1, <2>2
<1>4. \A u \in Tracks : /\ track[u].peak \in Nat
                        /\ exit[u].state \in {"NONE", "WAITING", "SELECTED", "FILLED"}
  BY Rows, Numbers DEF Watched, Routes
<1>5. \A u \in Tracks : Phase(exit[u].state) \in Nat
  BY <1>4, Phases
<1> QED BY <1>1, <1>2, <1>3, <1>4, <1>5 DEF OnlyForward, Forward

LEMMA RouteForward ==
    ASSUME IInv, NEW t \in Tracks, OpenRoute(t) \/ StageSelectedFill(t) \/ FinishRoute(t)
    PROVE  /\ OnlyForward
           /\ Phase(exit[t].state) < Phase(exit'[t].state)
<1>1. /\ exit \in [Tracks -> Routes] /\ committed \in Nat
      /\ UNCHANGED <<position, track, intent, committed>>
  BY Rows DEF IInv, Typing, Typed, database, OpenRoute, StageSelectedFill, FinishRoute,
     Advance, Stay
<1>2. \A u \in Tracks : u # t => exit'[u] = exit[u]
  BY <1>1 DEF OpenRoute, StageSelectedFill, FinishRoute
<1>3. /\ Phase(exit[t].state) < Phase(exit'[t].state)
      /\ exit'[t].ref = exit[t].ref \/ exit[t].state = "NONE"
  <2>1. CASE OpenRoute(t)
    <3>1. exit[t].state = "NONE" /\ exit'[t].state = "WAITING"
      BY <1>1, <2>1 DEF OpenRoute, Unrouted
    <3> QED BY <3>1, Phases
  <2>2. CASE StageSelectedFill(t)
    <3>1. exit[t].state = "WAITING"
      BY <2>2 DEF StageSelectedFill, At, IInv, AtTurn
    <3>2. exit'[t].state = "SELECTED" /\ exit'[t].ref = exit[t].ref
      BY <1>1, <2>2 DEF StageSelectedFill, Routes
    <3> QED BY <3>1, <3>2, Phases
  <2>3. CASE FinishRoute(t)
    <3>1. exit[t].state = "SELECTED"
      BY <2>3, FinalizeFacts DEF FinishRoute
    <3>2. exit'[t].state = "FILLED" /\ exit'[t].ref = exit[t].ref
      BY <1>1, <2>3 DEF FinishRoute, Routes
    <3> QED BY <3>1, <3>2, Phases
  <2> QED BY <2>1, <2>2, <2>3
<1>4. \A u \in Tracks : /\ track[u].peak \in Nat
                        /\ exit[u].state \in {"NONE", "WAITING", "SELECTED", "FILLED"}
                        /\ exit'[u].state \in {"NONE", "WAITING", "SELECTED", "FILLED"}
  <2>1. exit'[t].state \in {"WAITING", "SELECTED", "FILLED"}
    BY <1>1 DEF OpenRoute, StageSelectedFill, FinishRoute, Routes
  <2> QED BY <1>2, <2>1, Rows, Numbers DEF Watched, Routes
<1>5. \A u \in Tracks : Phase(exit[u].state) \in Nat /\ Phase(exit'[u].state) \in Nat
  BY <1>4, Phases
<1> QED BY <1>1, <1>2, <1>3, <1>4, <1>5 DEF OnlyForward, Forward

LEMMA TrackForward ==
    ASSUME IInv, NEW t \in Tracks,
           \/ BindTrack(t) \/ SeeObservation(t) \/ RecordFresh(t) \/ MoveTrail(t)
    PROVE  OnlyForward
<1>1. /\ track \in [Tracks -> Watched] /\ committed \in Nat
      /\ UNCHANGED <<position, intent, exit, committed>>
  BY Rows DEF IInv, Typing, Typed, database, BindTrack, SeeObservation, RecordFresh, MoveTrail,
     Advance, Stay
<1>2. \A u \in Tracks : u # t => track'[u] = track[u]
  BY <1>1 DEF BindTrack, SeeObservation, RecordFresh, MoveTrail
<1>3. \A u \in Tracks : /\ track[u].peak \in Nat
                        /\ exit[u].state \in {"NONE", "WAITING", "SELECTED", "FILLED"}
  BY Rows, Numbers DEF Watched, Routes
<1>4. /\ track[t].bound => track'[t].bound
      /\ track[t].active => track'[t].active
      /\ track[t].peak <= track'[t].peak
  <2>1. CASE BindTrack(t) \/ SeeObservation(t) \/ RecordFresh(t)
    <3>1. /\ track'[t].active = track[t].active /\ track'[t].peak = track[t].peak
          /\ track[t].bound => track'[t].bound
      BY <1>1, <2>1 DEF BindTrack, SeeObservation, RecordFresh, Watched
    <3> QED BY <1>3, <3>1
  <2>2. CASE MoveTrail(t)
    <3>1. /\ track'[t].active /\ track'[t].peak = item.ret
          /\ track'[t].bound = track[t].bound
      BY <1>1, <2>2 DEF MoveTrail, Watched
    <3>2. ~track[t].active => track[t].peak = 0
      BY Rows DEF Sound, Trails, Watched
    <3>3. item.ret \in Nat
      BY Rows, Numbers
    <3> QED BY <1>3, <2>2, <3>1, <3>2, <3>3 DEF MoveTrail, Activates, RaisesPeak
  <2> QED BY <2>1, <2>2
<1>5. \A u \in Tracks : Phase(exit[u].state) \in Nat
  BY <1>3, Phases
<1> QED BY <1>1, <1>2, <1>3, <1>4, <1>5 DEF OnlyForward, Forward

LEMMA IntentForward ==
    ASSUME IInv, NEW t \in Tracks, FireFallback(t) \/ ExitByRule(t)
    PROVE  OnlyForward
<1>1. /\ intent \in [Tracks -> Intents] /\ committed \in Nat
      /\ UNCHANGED <<position, track, exit, committed>>
  BY Rows DEF IInv, Typing, Typed, database, FireFallback, ExitByRule, Advance
<1>2. \A u \in Tracks : u # t => intent'[u] = intent[u]
  BY <1>1 DEF FireFallback, ExitByRule
<1>3. intent[t] = NoIntent
  BY DEF FireFallback, ExitByRule, At, IInv, AtTurn
<1>4. \A u \in Tracks : /\ track[u].peak \in Nat
                        /\ exit[u].state \in {"NONE", "WAITING", "SELECTED", "FILLED"}
  BY Rows, Numbers DEF Watched, Routes
<1>5. \A u \in Tracks : Phase(exit[u].state) \in Nat
  BY <1>4, Phases
<1> QED BY <1>1, <1>2, <1>3, <1>4, <1>5 DEF OnlyForward, Forward

LEMMA StepForward ==
    ASSUME IInv, [Next]_vars
    PROVE  OnlyForward \/ (Atomic /\ Crash)
<1>1. committed \in Nat
  <2>1. 1 \in Tracks
    BY Numbers
  <2> QED BY <2>1, Rows
<1>2. CASE UNCHANGED vars \/ SourceEnds
  BY <1>1, <1>2, TablesForward DEF SourceEnds, vars, database, tables
<1>3. CASE \E i \in Feed : Deliver(i)
  <2>1. UNCHANGED <<tables, committed>>
    BY <1>3 DEF Deliver, database, tables
  <2> QED BY <1>1, <2>1, TablesForward
<1>4. CASE Crash
  <2>1. CASE ~Atomic
    <3>1. UNCHANGED <<tables, committed>>
      BY <1>4, <2>1 DEF Crash, RollsBack, database, tables
    <3> QED BY <1>1, <3>1, TablesForward
  <2> QED BY <1>4, <2>1
<1>5. CASE CommitCursor
  <2>1. UNCHANGED tables /\ committed' = committed + 1
    BY <1>5 DEF CommitCursor, Cursor
  <2> QED BY <1>1, <2>1, TablesForward
<1>6. CASE \/ Bound \/ Recovered \/ Rebound \/ Restart
           \/ \E t \in Tracks : \/ Ignore(t) \/ SkipUnusable(t) \/ Hold(t)
                                \/ NothingToRequest(t) \/ NoAttempt(t)
  <2>1. UNCHANGED <<tables, committed>>
    BY <1>6 DEF Bound, Recovered, Rebound, Restart, Ignore, SkipUnusable, Hold,
       NothingToRequest, NoAttempt, Advance, Stay, database, tables
  <2> QED BY <1>1, <2>1, TablesForward
<1>7. ASSUME NEW t \in Tracks, PersistAttempt(t)
      PROVE  OnlyForward
  <2>1. UNCHANGED <<position, track, intent, exit, committed>>
    BY <1>7 DEF PersistAttempt, Advance, Stay
  <2>2. \A u \in Tracks : /\ track[u].peak \in Nat
                          /\ exit[u].state \in {"NONE", "WAITING", "SELECTED", "FILLED"}
    BY Rows, Numbers DEF Watched, Routes
  <2>3. \A u \in Tracks : Phase(exit[u].state) \in Nat
    BY <2>2, Phases
  <2> QED BY <1>1, <2>1, <2>2, <2>3 DEF OnlyForward, Forward
<1> QED
  BY <1>2, <1>3, <1>4, <1>5, <1>6, <1>7, PositionForward, RouteForward, TrackForward,
     IntentForward DEF Next, Handler

(* Nothing the exit has decided is taken back: an intent once made stands, *)
(* a position only leaves and closes, a route keeps the price it is judged *)
(* against, a trail never loses its peak, through every crash, but for the *)
(* batch that binding v0.5 rolls back.                                     *)
THEOREM NothingTakenBack == Spec => [][OnlyForward \/ (Atomic /\ Crash)]_vars
<1>1. IInv /\ [Next]_vars => [OnlyForward \/ (Atomic /\ Crash)]_vars
  BY StepForward
<1> QED BY <1>1, Invariance, PTL DEF Spec
-----------------------------------------------------------------------------
(* What the handler needs to go on, stage by stage.                        *)
HandlerReady ==
    \/ stage \in {"bind", "see", "fresh", "rule", "select", "commit"}
    \/ /\ stage = "apply"
       /\ intent[turn] # NoIntent /\ position[turn].state = "OPEN" =>
            position[turn].at <= intent[turn].at
    \/ stage = "execute" /\ (turn \in Unrouted => intent[turn] # NoIntent)
    \/ /\ stage = "close"
       /\ \/ position[turn].state = "EXIT_PENDING" /\ position[turn].at <= exit[turn].fill.at
          \/ position[turn] = Closed(turn)
    \/ /\ stage = "recover"
       /\ \/ Selected = {}
          \/ \E t \in Tracks :
               /\ IsFirst(t, Selected)
               /\ \/ position[t].state = "EXIT_PENDING" /\ position[t].at <= exit[t].fill.at
                  \/ position[t] = Closed(t)
    \/ /\ stage = "rebind"
       /\ \/ \E t \in Tracks : IsFirst(t, Unbound)
          \/ Unbound = {} /\ \E t \in Tracks : IsFirst(t, Unrouted) /\ intent[t] # NoIntent
          \/ Unbound = {} /\ Unrouted = {}

LEMMA FirstExists ==
    ASSUME NEW S, S \subseteq Tracks, S # {}
    PROVE  \E t \in Tracks : IsFirst(t, S)
<1>1. S \subseteq Nat
  BY DEF Tracks
<1>2. PICK t \in S : \A u \in S : t <= u
  BY <1>1, LeastExists
<1> QED BY <1>2 DEF IsFirst

LEMMA ReadyAlways == IInv => (stage \notin {"idle", "down"} => HandlerReady)
<1> SUFFICES ASSUME IInv, stage \notin {"idle", "down"} PROVE HandlerReady
  OBVIOUS
<1>1. NeverRaises
  BY RaisesNowhere
<1>2. /\ turn \in Tracks
      /\ stage \in {"bind", "see", "fresh", "rule", "apply", "execute", "select", "close",
                    "commit", "recover", "rebind"}
  BY DEF IInv, Typing
<1>3. \A t \in Unrouted : intent[t] # NoIntent
  BY <1>1 DEF NeverRaises, Unrouted
<1>4. CASE stage = "apply"
  BY <1>1, <1>2, <1>4 DEF HandlerReady, NeverRaises
<1>5. CASE stage = "execute"
  BY <1>3, <1>5 DEF HandlerReady
<1>6. CASE stage = "close"
  <2>1. turn \in Selected
    BY <1>6 DEF IInv, Progress
  <2> QED BY <1>1, <1>6, <2>1 DEF HandlerReady, NeverRaises
<1>7. CASE stage = "recover"
  <2>1. CASE Selected = {}
    BY <1>7, <2>1 DEF HandlerReady
  <2>2. CASE Selected # {}
    <3>1. PICK t \in Tracks : IsFirst(t, Selected)
      BY <2>2, FirstExists DEF Selected
    <3>2. \/ position[t].state = "EXIT_PENDING" /\ position[t].at <= exit[t].fill.at
          \/ position[t] = Closed(t)
      BY <1>1, <3>1 DEF NeverRaises, IsFirst
    <3> QED BY <1>7, <3>1, <3>2 DEF HandlerReady
  <2> QED BY <2>1, <2>2
<1>8. CASE stage = "rebind"
  <2>1. CASE Unbound # {}
    <3>1. PICK t \in Tracks : IsFirst(t, Unbound)
      BY <2>1, FirstExists DEF Unbound
    <3> QED BY <1>8, <3>1 DEF HandlerReady
  <2>2. CASE Unbound = {} /\ Unrouted # {}
    <3>1. PICK t \in Tracks : IsFirst(t, Unrouted)
      BY <2>2, FirstExists DEF Unrouted
    <3> QED BY <1>3, <1>8, <2>2, <3>1 DEF HandlerReady, IsFirst
  <2>3. CASE Unbound = {} /\ Unrouted = {}
    BY <1>8, <2>3 DEF HandlerReady
  <2> QED BY <2>1, <2>2, <2>3
<1> QED BY <1>2, <1>4, <1>5, <1>6, <1>7, <1>8 DEF HandlerReady

(* The handler is never stuck: in the middle of an item and of a restart,  *)
(* at every stage, one of its actions can go on, whatever crashes have     *)
(* left behind: request_exit, bind_position, close_position and the        *)
(* recovery of selected fills raise nowhere.                               *)
THEOREM HandlerNeverStuck == Spec => [](stage \notin {"idle", "down"} => HandlerReady)
BY ReadyAlways, Invariance, PTL
-----------------------------------------------------------------------------
(* Where the handler is: its loop, the track, and the step within it.      *)
Loop(s) == CASE s = "recover" -> 0 [] s = "rebind" -> 1 [] s = "bind" -> 2
             [] s \in {"see", "fresh", "rule"} -> 3 [] s = "apply" -> 4
             [] s \in {"execute", "select", "close"} -> 5 [] s = "commit" -> 6
             [] s \in {"idle", "down"} -> 7
Within(s) == CASE s \in {"fresh", "select"} -> 1 [] s \in {"rule", "close"} -> 2 [] OTHER -> 0

HandlerGoesOn ==
    \/ Loop(stage) < Loop(stage')
    \/ Loop(stage') = Loop(stage) /\ turn < turn'
    \/ Loop(stage') = Loop(stage) /\ turn' = turn /\ Within(stage) < Within(stage')
    \/ /\ stage' = stage /\ turn' = turn
       /\ \E t \in Tracks :
            \/ ~track[t].bound /\ track'[t].bound
            \/ Phase(position[t].state) < Phase(position'[t].state)
            \/ Phase(exit[t].state) < Phase(exit'[t].state)

LEMMA Loops ==
    /\ Loop("recover") = 0 /\ Loop("rebind") = 1 /\ Loop("bind") = 2
    /\ \A s \in {"see", "fresh", "rule"} : Loop(s) = 3
    /\ Loop("apply") = 4
    /\ \A s \in {"execute", "select", "close"} : Loop(s) = 5
    /\ Loop("commit") = 6 /\ Loop("idle") = 7
    /\ \A s \in {"see", "execute"} : Within(s) = 0
    /\ \A s \in {"fresh", "select"} : Within(s) = 1
    /\ \A s \in {"rule", "close"} : Within(s) = 2
<1>1. /\ Loop("recover") = 0 /\ Loop("rebind") = 1 /\ Loop("bind") = 2
      /\ Loop("see") = 3 /\ Loop("fresh") = 3 /\ Loop("rule") = 3 /\ Loop("apply") = 4
      /\ Loop("execute") = 5 /\ Loop("select") = 5 /\ Loop("close") = 5
      /\ Loop("commit") = 6 /\ Loop("idle") = 7
  BY DEF Loop
<1>2. /\ Within("see") = 0 /\ Within("execute") = 0 /\ Within("fresh") = 1
      /\ Within("select") = 1 /\ Within("rule") = 2 /\ Within("close") = 2
  BY DEF Within
<1> QED BY <1>1, <1>2

LEMMA AdvanceGoesOn ==
    ASSUME NEW t \in Tracks, NEW here, NEW next, Advance(t, here, next), turn = t,
           Loop(here) = Loop(stage), Loop(stage) < Loop(next)
    PROVE  HandlerGoesOn
<1>1. \/ stage' = next
      \/ stage' = here /\ turn' = turn + 1
  BY DEF Advance
<1>2. turn \in Nat
  BY TurnIsTrack
<1> QED BY <1>1, <1>2 DEF HandlerGoesOn

LEMMA HandlerStep ==
    ASSUME IInv, Handler
    PROVE  HandlerGoesOn
<1>1. CASE Bound \/ CommitCursor \/ Recovered \/ Rebound
  <2>1. \/ stage = "bind" /\ stage' = "see"
        \/ stage = "commit" /\ stage' = "idle"
        \/ stage = "recover" /\ stage' = "rebind"
        \/ stage = "rebind" /\ stage' \in {"idle", "bind", "commit"}
    BY <1>1 DEF Bound, CommitCursor, Recovered, Rebound, Stay, Entered
  <2> QED BY <2>1, Loops DEF HandlerGoesOn
<1>2. ASSUME NEW t \in Tracks, BindTrack(t)
      PROVE  HandlerGoesOn
  <2>1. stage' = stage /\ turn' = turn /\ ~track[t].bound
    BY <1>2 DEF BindTrack, Stay, IsFirst, Unbound
  <2>2. track'[t].bound
    BY <1>2 DEF BindTrack, IInv, Typing, Typed, database, Watched
  <2> QED BY <2>1, <2>2 DEF HandlerGoesOn
<1>3. ASSUME NEW t \in Tracks, \/ Ignore(t) \/ FireFallback(t) \/ SkipUnusable(t)
                               \/ ExitByRule(t) \/ MoveTrail(t) \/ Hold(t)
      PROVE  HandlerGoesOn
  <2>1. stage \in {"see", "fresh", "rule"} /\ turn = t /\ Advance(t, "see", "apply")
    BY <1>3 DEF Ignore, FireFallback, SkipUnusable, ExitByRule, MoveTrail, Hold, At
  <2>2. Loop("see") = Loop(stage) /\ Loop(stage) < Loop("apply")
    BY <2>1, Loops
  <2> QED BY <2>1, <2>2, AdvanceGoesOn
<1>4. ASSUME NEW t \in Tracks, RequestExit(t) \/ NothingToRequest(t)
      PROVE  HandlerGoesOn
  <2>1. stage = "apply" /\ turn = t /\ Advance(t, "apply", "execute")
    BY <1>4 DEF RequestExit, NothingToRequest, At
  <2>2. Loop(stage) < Loop("execute")
    BY <2>1, Loops
  <2> QED BY <2>1, <2>2, AdvanceGoesOn
<1>5. ASSUME NEW t \in Tracks,
             \/ SeeObservation(t) \/ RecordFresh(t) \/ StageSelectedFill(t)
             \/ PersistAttempt(t) /\ item.exec = "FILLS"
      PROVE  HandlerGoesOn
  <2>1. /\ turn' = turn
        /\ \/ stage = "see" /\ stage' = "fresh"
           \/ stage = "fresh" /\ stage' = "rule"
           \/ stage = "execute" /\ stage' = "select"
           \/ stage = "select" /\ stage' = "close"
    BY <1>5 DEF SeeObservation, RecordFresh, StageSelectedFill, PersistAttempt, At, Stay
  <2> QED BY <2>1, Loops DEF HandlerGoesOn
<1>6. ASSUME NEW t \in Tracks, NoAttempt(t) \/ (PersistAttempt(t) /\ item.exec # "FILLS")
      PROVE  HandlerGoesOn
  <2>1. stage = "execute" /\ turn = t /\ Advance(t, "execute", "commit")
    BY <1>6 DEF NoAttempt, PersistAttempt, At
  <2>2. Loop(stage) < Loop("commit")
    BY <2>1, Loops
  <2> QED BY <2>1, <2>2, AdvanceGoesOn
<1>7. ASSUME NEW t \in Tracks, OpenRoute(t)
      PROVE  HandlerGoesOn
  <2>1. stage' = stage /\ turn' = turn
    BY <1>7 DEF OpenRoute, Stay
  <2>2. Phase(exit[t].state) < Phase(exit'[t].state)
    BY <1>7, RouteForward
  <2> QED BY <2>1, <2>2 DEF HandlerGoesOn
<1>8. ASSUME NEW t \in Tracks, ClosePosition(t)
      PROVE  HandlerGoesOn
  <2>1. /\ stage' = stage /\ turn' = turn /\ position[t].state = "EXIT_PENDING"
        /\ position'[t].state = "CLOSED"
    BY <1>8 DEF ClosePosition, Stay, Closed, IInv, Typing, Typed, database
  <2> QED BY <2>1, Phases DEF HandlerGoesOn
<1>9. ASSUME NEW t \in Tracks, FinishRoute(t)
      PROVE  HandlerGoesOn
  <2>1. CASE stage = "close"
    <3>1. turn = t /\ Advance(t, "execute", "commit")
      BY <1>9, <2>1 DEF FinishRoute, Finalizes, At
    <3>2. Loop("execute") = Loop(stage) /\ Loop(stage) < Loop("commit")
      BY <2>1, Loops
    <3> QED BY <3>1, <3>2, AdvanceGoesOn
  <2>2. CASE stage # "close"
    <3>1. stage' = stage /\ turn' = turn
      BY <1>9, <2>2 DEF FinishRoute, Stay
    <3>2. Phase(exit[t].state) < Phase(exit'[t].state)
      BY <1>9, RouteForward
    <3> QED BY <3>1, <3>2 DEF HandlerGoesOn
  <2> QED BY <2>1, <2>2
<1> QED BY <1>1, <1>2, <1>3, <1>4, <1>5, <1>6, <1>7, <1>8, <1>9 DEF Handler

(* Every step of the handler goes on: to a later loop, a later track, a    *)
(* later step of it, or to a row it writes where it was.  Since rows only  *)
(* advance, an item takes finitely many steps, however it was interrupted. *)
THEOREM HandlerProgress == Spec => [][Handler => HandlerGoesOn]_vars
<1>1. IInv /\ [Next]_vars => [Handler => HandlerGoesOn]_vars
  BY HandlerStep
<1> QED BY <1>1, Invariance, PTL DEF Spec
=============================================================================
