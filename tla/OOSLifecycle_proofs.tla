------------------------ MODULE OOSLifecycle_proofs ------------------------
(***************************************************************************)
(* Proofs about OOSLifecycle, for any number of launchers, segments, rows, *)
(* extensions, exceptions and killed processes: no two processes are past  *)
(* their claims, and the journal always passes its own verification.  The  *)
(* invariant is about the journal as a value (Good), so that each function *)
(* that rewrites it has a lemma of its own.  The save of a stale copy is   *)
(* set apart: Steps are all the other steps, and what they keep is shown   *)
(* for a journal that was never cut off and, where it still holds, for one *)
(* that was (cut).                                                         *)
(***************************************************************************)
EXTENDS OOSLifecycle, SequenceTheorems, FiniteSetTheorems, TLAPS

Places == {"GONE", "SPAWNED", "CLAIMED", "LOOP", "MAIN", "MAIN_RECORD", "CATCHUP",
           "CATCHUP_RECORD", "CATCHUP_DRAIN", "CATCHUP_STOP", "FINAL", "FINAL_RECORD",
           "ENDING", "CLOSING"}
Fields  == {"life", "target", "cursor", "mark", "count", "coverage", "active", "segments"}
Actives == [segment : Nat, own : {"NONE", "PENDING", "OWNED"}, late : BOOLEAN,
            awaited : BOOLEAN]
Ends    == {"PENDING", "OWNED", "ENDED"}

(* The journal is well formed and agrees with itself.                      *)
Shaped(s) ==
    /\ DOMAIN s = Fields /\ s.life \in Lives
    /\ s.active \in Actives /\ s.segments \in Seq(Ends)
    /\ s.cursor \in Nat /\ s.mark \in Nat

Consistent(s) ==
    /\ s.active.own = "NONE" => s.active = NoProcess
    /\ s.life = "ACTIVE" => s.active # NoProcess
    /\ \A k \in DOMAIN s.segments :
          s.segments[k] \in {"PENDING", "OWNED"} =>
              s.active.segment = k /\ s.active.own = s.segments[k]
    /\ s.active # NoProcess => /\ s.active.segment \in DOMAIN s.segments
                               /\ s.segments[s.active.segment] = s.active.own
    /\ s.cursor <= s.mark

Good(s) == Shaped(s) /\ Consistent(s)

SeenFields == {"instant", "mark", "count", "covered", "stop", "failed"}

(* What the processes hold, and how far each copy of the cursor has come.  *)
Held ==
    /\ worker \in [Segments -> Places]
    /\ DOMAIN seen = SeenFields /\ seen.mark \in Nat
    /\ DOMAIN source = {"rows", "activity", "gap"} /\ source.rows \in Nat
    /\ DOMAIN paper = {"cursor", "beyond"} /\ paper.cursor \in Nat

Behind == state.cursor <= paper.cursor /\ paper.cursor <= source.rows

(* Never two processes past their claims; each the owner the journal       *)
(* names, or the journal was cut off.                                      *)
Writers(cut) ==
    \A k \in Segments : worker[k] \notin {"GONE", "SPAWNED"} =>
        /\ cut \/ Owned(state, k)
        /\ \A j \in Segments : worker[j] \notin {"GONE", "SPAWNED"} => j = k

(* A journal a finalize may have saved over an open segment.               *)
Cut(s) == s.life = "FROZEN" /\ s.active = NoProcess

Kept(cut) == Good(state) /\ Held /\ Behind /\ Writers(cut)

(* The steps but the save of a stale copy; one that saves what the journal *)
(* still says is among them.                                               *)
Refrozen(s, t) ==
    DOMAIN t = Fields /\ t.life = "FROZEN" /\ \A f \in Fields \ {"life"} : t[f] = s[f]

Readopt ==
    /\ state.life \in {"STOPPED", "FROZEN"} /\ Refrozen(state, state')
    /\ copies' \subseteq copies
    /\ UNCHANGED <<world, paper, handoff, lock, stop, procs, faults, crashes>>

Commands ==
    \/ Status \/ RequestStop \/ Extend \/ WriteHandoff \/ Freeze \/ ReadForAdoption \/ Readopt

Steps ==
    \/ World \/ ClaimDeadline \/ GiveUp \/ WaiterDies \/ Commands \/ FinalizerDies
    \/ \E l \in Launchers : Resume(l) \/ Launching(l) \/ SpawnFails(l) \/ LauncherDies(l)
    \/ \E k \in Segments : Working(k) \/ OpenFails(k) \/ WorkerFails(k) \/ Killed(k)
-----------------------------------------------------------------------------
(* Min and Max of two numbers.                                             *)
LEMMA MinOfTwo ==
    ASSUME NEW a \in Nat, NEW b \in Nat
    PROVE  Min({a, b}) = IF a <= b THEN a ELSE b
<1>1. CASE a <= b
  <2>1. a \in {a, b} /\ \A y \in {a, b} : a <= y
    BY <1>1
  <2>2. \A x \in {a, b} : (\A y \in {a, b} : x <= y) => x = a
    BY <1>1
  <2> QED BY <1>1, <2>1, <2>2 DEF Min
<1>2. CASE ~(a <= b)
  <2>1. b \in {a, b} /\ \A y \in {a, b} : b <= y
    BY <1>2
  <2>2. \A x \in {a, b} : (\A y \in {a, b} : x <= y) => x = b
    BY <1>2
  <2> QED BY <1>2, <2>1, <2>2 DEF Min
<1> QED BY <1>1, <1>2

LEMMA MaxOfTwo ==
    ASSUME NEW a \in Nat, NEW b \in Nat
    PROVE  Max({a, b}) \in Nat
<1>1. \E x \in {a, b} : \A y \in {a, b} : x >= y
  <2>1. CASE a >= b
    BY <2>1
  <2>2. CASE ~(a >= b)
    BY <2>2
  <2> QED BY <2>1, <2>2
<1>2. Max({a, b}) \in {a, b}
  BY <1>1 DEF Max
<1> QED BY <1>2
-----------------------------------------------------------------------------
(* Closing the active segment leaves a journal without open segments.      *)
LEMMA ClosedGood ==
    ASSUME NEW s, Good(s), s.active.own # "NONE", NEW life \in {"STOPPED", "INVALID"}
    PROVE  /\ Good(Closed(s, life))
           /\ Closed(s, life).cursor = s.cursor
<1> DEFINE t == Closed(s, life)
<1>1. /\ DOMAIN t = Fields
      /\ t.life = life /\ t.active = NoProcess
      /\ t.cursor = s.cursor /\ t.mark = s.mark
      /\ t.segments = [s.segments EXCEPT ![s.active.segment] = "ENDED"]
  BY DEF Closed, Good, Shaped, Fields
<1>2. t.segments \in Seq(Ends) /\ DOMAIN t.segments = DOMAIN s.segments
  <2>1. s.segments \in Seq(Ends) /\ "ENDED" \in Ends
    BY DEF Good, Shaped, Ends
  <2>2. s.active.segment \in 1 .. Len(s.segments)
    BY <2>1 DEF Good, Consistent, NoProcess
  <2> QED BY <1>1, <2>1, <2>2, ExceptSeq
<1>3. NoProcess \in Actives
  BY DEF NoProcess, Actives
<1>4. Shaped(t)
  BY <1>1, <1>2, <1>3 DEF Good, Shaped, Lives
<1>5. ASSUME NEW k \in DOMAIN t.segments
      PROVE  t.segments[k] \notin {"PENDING", "OWNED"}
  <2>1. CASE k = s.active.segment
    BY <1>1, <1>2, <2>1
  <2>2. CASE k # s.active.segment
    BY <1>1, <1>2, <2>2 DEF Good, Consistent
  <2> QED BY <2>1, <2>2
<1>6. Consistent(t)
  BY <1>1, <1>5 DEF Good, Consistent, Shaped
<1> QED BY <1>1, <1>4, <1>6 DEF Good

(* Only the coverage of a journal may change with no further ado.          *)
LEMMA CoverageGood ==
    ASSUME NEW s, Good(s), NEW c
    PROVE  /\ Good([s EXCEPT !.coverage = c])
           /\ [s EXCEPT !.coverage = c].cursor = s.cursor
           /\ [s EXCEPT !.coverage = c].active = s.active
<1> DEFINE t == [s EXCEPT !.coverage = c]
<1>1. /\ DOMAIN t = Fields
      /\ t.life = s.life /\ t.active = s.active /\ t.segments = s.segments
      /\ t.cursor = s.cursor /\ t.mark = s.mark
  BY DEF Good, Shaped, Fields
<1>2. Shaped(t) /\ Consistent(t)
  BY <1>1 DEF Good, Shaped, Consistent
<1> QED BY <1>1, <1>2 DEF Good

(* A status call never closes the segment of a process that may write.     *)
LEMMA ReconciledGood ==
    ASSUME NEW cut \in BOOLEAN, Kept(cut), cut => Cut(state)
    PROVE  /\ Good(Reconciled(state))
           /\ Reconciled(state).cursor = state.cursor
           /\ \A k \in Segments : worker[k] \notin {"GONE", "SPAWNED"}
                                     => cut \/ Owned(Reconciled(state), k)
<1>1. CASE \/ state.active.own = "PENDING" /\ state.active.late
           \/ state.active.own = "OWNED" /\ ~Live(state.active.segment)
  <2>1. Reconciled(state) = Closed(state, "STOPPED")
    BY <1>1 DEF Reconciled
  <2>2. state.active.own # "NONE"
    BY <1>1
  <2>3. \A k \in Segments : worker[k] \in {"GONE", "SPAWNED"}
    BY <1>1 DEF Kept, Writers, Owned, Live, Cut, NoProcess
  <2> QED BY <2>1, <2>2, <2>3, ClosedGood DEF Kept
<1>2. CASE ~ \/ state.active.own = "PENDING" /\ state.active.late
             \/ state.active.own = "OWNED" /\ ~Live(state.active.segment)
  BY <1>2 DEF Reconciled, Kept, Writers
<1> QED BY <1>1, <1>2

(* A failed startup closes a pending segment, or its caller's own.         *)
LEMMA FailedStartupGood ==
    ASSUME NEW s, Good(s), NEW k, NEW mine \in BOOLEAN
    PROVE  /\ Good(FailedStartup(s, k, mine))
           /\ FailedStartup(s, k, mine).cursor = s.cursor
           /\ \A j : Owned(s, j) /\ ~(mine /\ j = k) => Owned(FailedStartup(s, k, mine), j)
<1>1. CASE Pending(s, k)
  <2>1. FailedStartup(s, k, mine) = Closed(s, "STOPPED")
    BY <1>1 DEF FailedStartup
  <2>2. s.active.own = "PENDING"
    BY <1>1 DEF Pending
  <2>3. \A j : ~Owned(s, j)
    BY <2>2 DEF Owned
  <2> QED BY <2>1, <2>2, <2>3, ClosedGood
<1>2. CASE Owned(s, k) /\ mine
  <2>1. ~Pending(s, k) /\ s.active.own # "NONE"
    BY <1>2 DEF Pending, Owned
  <2> DEFINE c == Closed(s, "INVALID")
  <2>2. FailedStartup(s, k, mine) = [c EXCEPT !.coverage = "OOS_INCOMPLETE"]
    BY <1>2, <2>1 DEF FailedStartup
  <2>3. \A j : Owned(s, j) => j = k
    BY <1>2 DEF Owned
  <2>4. Good(c) /\ c.cursor = s.cursor
    BY <2>1, ClosedGood
  <2> HIDE DEF c
  <2>5. /\ Good([c EXCEPT !.coverage = "OOS_INCOMPLETE"])
        /\ [c EXCEPT !.coverage = "OOS_INCOMPLETE"].cursor = c.cursor
    BY <2>4, CoverageGood
  <2> QED BY <1>2, <2>2, <2>3, <2>4, <2>5
<1>3. CASE ~Pending(s, k) /\ ~(Owned(s, k) /\ mine)
  <2>1. FailedStartup(s, k, mine) = s
    BY <1>3 DEF FailedStartup
  <2> QED BY <2>1
<1> QED BY <1>1, <1>2, <1>3

(* A record that contradicts nothing keeps the cursor below its mark.      *)
LEMMA RecordedGood ==
    ASSUME NEW s, Good(s), NEW k, NEW p, p.cursor \in Nat, p.mark \in Nat,
           ~Contradicts(s, k, p)
    PROVE  /\ Good(Recorded(s, p))
           /\ Recorded(s, p).cursor = p.cursor
           /\ Recorded(s, p).active = s.active
<1> DEFINE t == Recorded(s, p)
<1>1. /\ DOMAIN t = Fields
      /\ t.life = s.life /\ t.active = s.active /\ t.segments = s.segments
      /\ t.cursor = p.cursor /\ t.mark = p.mark
  BY DEF Recorded, Good, Shaped, Fields
<1>2. p.cursor <= p.mark
  BY DEF Contradicts
<1>3. Shaped(t) /\ Consistent(t)
  BY <1>1, <1>2 DEF Good, Shaped, Consistent
<1> QED BY <1>1, <1>3 DEF Good

(* A journal that differs in target, coverage or a life other than ACTIVE. *)
LEMMA AlikeGood ==
    ASSUME NEW s, Good(s), NEW t, DOMAIN t = Fields,
           t.active = s.active, t.segments = s.segments,
           t.cursor = s.cursor, t.mark = s.mark,
           t.life \in Lives, t.life = s.life \/ t.life # "ACTIVE"
    PROVE  Good(t)
BY DEF Good, Shaped, Consistent

(* The flags of the active process may change while there is one.          *)
LEMMA ActiveGood ==
    ASSUME NEW s, Good(s), NEW t, DOMAIN t = Fields,
           t.life = s.life, t.segments = s.segments,
           t.cursor = s.cursor, t.mark = s.mark,
           t.active \in Actives, t.active.own # "NONE",
           t.active.segment = s.active.segment, t.active.own = s.active.own
    PROVE  Good(t)
<1>1. s.active # NoProcess /\ t.active # NoProcess
  BY DEF NoProcess
<1> QED BY <1>1 DEF Good, Shaped, Consistent

(* A new segment is appended where none is active, so that none is open.   *)
LEMMA AppendedGood ==
    ASSUME NEW s, Good(s), s.active = NoProcess, NEW a \in Actives,
           a.segment = Len(s.segments) + 1, a.own = "PENDING",
           NEW t, DOMAIN t = Fields, t.life = "ACTIVE", t.active = a,
           t.segments = Append(s.segments, "PENDING"),
           t.cursor = s.cursor, t.mark = s.mark
    PROVE  Good(t)
<1>1. s.segments \in Seq(Ends) /\ "PENDING" \in Ends
  BY DEF Good, Shaped, Ends
<1>2. /\ t.segments \in Seq(Ends)
      /\ Len(t.segments) = Len(s.segments) + 1
      /\ \A k \in 1 .. Len(s.segments) : t.segments[k] = s.segments[k]
      /\ t.segments[Len(s.segments) + 1] = "PENDING"
  BY <1>1, AppendProperties
<1>3. \A k \in DOMAIN s.segments : s.segments[k] \notin {"PENDING", "OWNED"}
  BY DEF Good, Consistent, NoProcess
<1>4. DOMAIN t.segments = 1 .. Len(s.segments) + 1 /\ Len(s.segments) \in Nat
  BY <1>1, <1>2
<1>5. \A k \in DOMAIN t.segments : k # a.segment => t.segments[k] \notin {"PENDING", "OWNED"}
  BY <1>1, <1>2, <1>3, <1>4
<1>6. a # NoProcess
  BY DEF NoProcess
<1>7. Shaped(t)
  BY <1>2 DEF Good, Shaped, Lives
<1>8. Consistent(t)
  BY <1>2, <1>4, <1>5, <1>6 DEF Good, Consistent
<1> QED BY <1>7, <1>8 DEF Good

(* The claim turns the pending segment into an owned one.                  *)
LEMMA ClaimedGood ==
    ASSUME NEW s, Good(s), NEW k, Pending(s, k), NEW t, DOMAIN t = Fields,
           t.life = s.life, t.cursor = s.cursor, t.mark = s.mark,
           t.active \in Actives, t.active.segment = k, t.active.own = "OWNED",
           t.segments = [s.segments EXCEPT ![k] = "OWNED"]
    PROVE  Good(t)
<1>1. s.active # NoProcess /\ t.active # NoProcess /\ s.active.segment = k
  BY DEF Pending, NoProcess
<1>2. s.segments \in Seq(Ends) /\ k \in 1 .. Len(s.segments) /\ "OWNED" \in Ends
  BY <1>1 DEF Good, Shaped, Consistent, Ends
<1>3. /\ t.segments \in Seq(Ends) /\ Len(t.segments) = Len(s.segments)
      /\ \A j \in 1 .. Len(s.segments) :
            t.segments[j] = IF j = k THEN "OWNED" ELSE s.segments[j]
  BY <1>2, ExceptSeq
<1>4. DOMAIN t.segments = 1 .. Len(s.segments) /\ DOMAIN s.segments = 1 .. Len(s.segments)
  BY <1>2, <1>3
<1>5. Shaped(t)
  BY <1>3 DEF Good, Shaped
<1>6. Consistent(t)
  BY <1>1, <1>2, <1>3, <1>4 DEF Good, Consistent
<1> QED BY <1>5, <1>6 DEF Good
-----------------------------------------------------------------------------
(* The invariant holds at the start.                                       *)
LEMMA InitGood == \A cut \in BOOLEAN : Init => Kept(cut)
<1> SUFFICES ASSUME NEW cut \in BOOLEAN, Init PROVE Kept(cut)
  OBVIOUS
<1>1. NoProcess \in Actives
  BY DEF NoProcess, Actives
<1>2. state.segments \in Seq(Ends) /\ DOMAIN state.segments = {}
  BY DEF Init
<1>3. Shaped(state)
  BY <1>1, <1>2 DEF Init, Shaped, Fields, Lives
<1>4. Consistent(state)
  BY <1>2 DEF Init, Consistent, NoProcess
<1>5. Held
  BY DEF Init, Held, Places, SeenFields, Unread
<1> QED BY <1>3, <1>4, <1>5 DEF Init, Kept, Good, Behind, Writers

(* A process past its claim moves on, or away; the journal stays.          *)
LEMMA WorkerMoves ==
    ASSUME NEW cut \in BOOLEAN, Kept(cut), NEW k \in Segments, NEW pc \in Places,
           worker' = [worker EXCEPT ![k] = pc],
           worker[k] \notin {"GONE", "SPAWNED"} \/ pc \in {"GONE", "SPAWNED"},
           state'.active.segment = state.active.segment,
           state'.active.own = state.active.own
    PROVE  Writers(cut)' /\ worker' \in [Segments -> Places]
BY DEF Kept, Held, Writers, Owned

(* What the collector, the clock and the databases' readers do.            *)
LEMMA WorldStep ==
    ASSUME NEW cut \in BOOLEAN, Kept(cut), World PROVE Kept(cut)'
<1>1. UNCHANGED <<state, paper, worker, seen>>
  BY DEF World, Tick, InsertRow, OpenGap, ResolveGap, files, procs
<1>2. /\ DOMAIN source' = {"rows", "activity", "gap"}
      /\ source'.rows \in Nat /\ source.rows <= source'.rows
  <2> DEFINE a == Max({Start, now})
  <2>1. CASE InsertRow
    <3>1. source' = [source EXCEPT !.rows = @ + 1, !.activity = a]
      BY <2>1 DEF InsertRow
    <3> HIDE DEF a
    <3> QED BY <3>1 DEF Kept, Held
  <2>2. CASE Tick \/ OpenGap \/ ResolveGap
    BY <2>2 DEF Tick, OpenGap, ResolveGap, Kept, Held
  <2> QED BY <2>1, <2>2 DEF World
<1> QED BY <1>1, <1>2 DEF Kept, Held, Behind, Writers, Owned

(* The launcher's sections, its process and the claim deadline.            *)
LEMMA DeadlineStep ==
    ASSUME NEW cut \in BOOLEAN, Kept(cut), ClaimDeadline \/ WaiterDies PROVE Kept(cut)'
<1>1. /\ UNCHANGED <<source, paper, worker, seen>>
      /\ DOMAIN state' = Fields
      /\ state'.life = state.life /\ state'.segments = state.segments
      /\ state'.cursor = state.cursor /\ state'.mark = state.mark
      /\ state'.active.segment = state.active.segment
      /\ state'.active.own = state.active.own
  BY DEF ClaimDeadline, WaiterDies, world, procs, Kept, Good, Shaped, Fields, Actives
<1>2. state.active.own # "NONE"
  BY DEF ClaimDeadline, WaiterDies, Kept, Good, Consistent, NoProcess
<1>3. state'.active \in Actives
  <2>1. \/ state'.active = [state.active EXCEPT !.late = TRUE]
        \/ state'.active = [state.active EXCEPT !.awaited = FALSE]
    BY DEF ClaimDeadline, WaiterDies, Kept, Good, Shaped, Fields
  <2> QED BY <2>1 DEF Kept, Good, Shaped, Actives
<1>4. Good(state')
  BY <1>1, <1>2, <1>3, ActiveGood DEF Kept
<1> QED BY <1>1, <1>4 DEF Kept, Held, Behind, Writers, Owned

LEMMA ResumeStep ==
    ASSUME NEW cut \in BOOLEAN, Kept(cut), cut => Cut(state),
           NEW l \in Launchers, Resume(l)
    PROVE  Kept(cut)'
<1>1. state' = Reconciled(state) /\ UNCHANGED <<source, paper, worker, seen>>
  BY DEF Resume, world
<1> QED BY <1>1, ReconciledGood DEF Kept, Held, Behind, Writers, Owned

LEMMA PrepareStep ==
    ASSUME NEW cut \in BOOLEAN, Kept(cut), cut => Cut(state),
           NEW l \in Launchers, PrepareSegment(l)
    PROVE  Kept(cut)'
<1>1. UNCHANGED <<source, paper, worker, seen>>
  BY DEF PrepareSegment, world
<1>2. CASE MayPrepare(state)
  <2> DEFINE a == [segment |-> Len(state.segments) + 1, own |-> "PENDING",
                   late |-> FALSE, awaited |-> FALSE]
  <2>1. /\ state.active = NoProcess
        /\ state' = [state EXCEPT !.life = "ACTIVE",
                       !.segments = Append(@, "PENDING"), !.active = a]
    BY <1>2 DEF PrepareSegment, MayPrepare
  <2>2. a \in Actives
    BY DEF Kept, Good, Shaped, Actives
  <2>3. /\ DOMAIN state' = Fields /\ state'.life = "ACTIVE" /\ state'.active = a
        /\ state'.segments = Append(state.segments, "PENDING")
        /\ state'.cursor = state.cursor /\ state'.mark = state.mark
    BY <2>1 DEF Kept, Good, Shaped, Fields
  <2>4. Good(state')
    BY <2>1, <2>2, <2>3, AppendedGood DEF Kept
  <2>5. \A k \in Segments : worker[k] \in {"GONE", "SPAWNED"}
    BY <1>2, <2>1 DEF Kept, Writers, Owned, NoProcess, Cut, MayPrepare, Terminal
  <2> QED BY <1>1, <2>3, <2>4, <2>5 DEF Kept, Held, Behind, Writers
<1>3. CASE ~MayPrepare(state)
  <2>1. state' = state
    BY <1>3 DEF PrepareSegment
  <2> QED BY <1>1, <2>1 DEF Kept, Held, Behind, Writers, Owned
<1> QED BY <1>2, <1>3

LEMMA SpawnStep ==
    ASSUME NEW cut \in BOOLEAN, Kept(cut), NEW l \in Launchers, Spawn(l) PROVE Kept(cut)'
<1> DEFINE k == launcher[l].segment
           b == state.active.awaited \/ Pending(state, k)
<1>1. /\ UNCHANGED <<source, paper, seen>>
      /\ worker' = [worker EXCEPT ![k] = "SPAWNED"]
      /\ state' = [state EXCEPT !.active.awaited = b]
  BY DEF Spawn, world
<1>2. b \in BOOLEAN
  OBVIOUS
<1> HIDE DEF k, b
<1>3. /\ DOMAIN state' = Fields
      /\ state'.life = state.life /\ state'.segments = state.segments
      /\ state'.cursor = state.cursor /\ state'.mark = state.mark
      /\ state'.active = [state.active EXCEPT !.awaited = b]
  BY <1>1 DEF Kept, Good, Shaped, Fields
<1>4. /\ state'.active.segment = state.active.segment
      /\ state'.active.own = state.active.own
      /\ state'.active \in Actives
  BY <1>2, <1>3 DEF Kept, Good, Shaped, Actives
<1>5. ASSUME state.active.own # "NONE" PROVE Good(state')
  BY <1>3, <1>4, <1>5, ActiveGood DEF Kept
<1>6. ASSUME state.active.own = "NONE" PROVE Good(state')
  <2>1. state.active = NoProcess
    BY <1>6 DEF Kept, Good, Consistent
  <2>2. b = FALSE
    BY <2>1 DEF b, Pending, NoProcess
  <2>3. [NoProcess EXCEPT !.awaited = FALSE] = NoProcess
    <3>1. \A r, u \in Actives : r.segment = u.segment /\ r.own = u.own
                                  /\ r.late = u.late /\ r.awaited = u.awaited => r = u
      BY DEF Actives
    <3>2. NoProcess \in Actives /\ [NoProcess EXCEPT !.awaited = FALSE] \in Actives
      BY DEF Actives, NoProcess
    <3> QED BY <3>1, <3>2 DEF NoProcess
  <2>4. state'.active = NoProcess
    BY <1>3, <2>1, <2>2, <2>3
  <2>5. Good(state')
    BY <1>3, <2>1, <2>4, AlikeGood DEF Kept, Good, Shaped
  <2> QED BY <2>5
<1>7. worker' \in [Segments -> Places]
  BY <1>1 DEF Kept, Held, Places
<1>8. Writers(cut)'
  BY <1>1, <1>4 DEF Kept, Held, Writers, Owned
<1> QED BY <1>1, <1>3, <1>5, <1>6, <1>7, <1>8 DEF Kept, Held, Behind

LEMMA FailedStartStep ==
    ASSUME NEW cut \in BOOLEAN, Kept(cut), NEW k, NEW mine \in BOOLEAN,
           state' = FailedStartup(state, k, mine),
           UNCHANGED <<source, paper, seen>>,
           \/ worker' = worker /\ ~mine
           \/ worker' = [worker EXCEPT ![k] = "GONE"]
    PROVE  Kept(cut)'
<1>1. /\ Good(state') /\ state'.cursor = state.cursor
      /\ \A j : Owned(state, j) /\ ~(mine /\ j = k) => Owned(state', j)
  BY FailedStartupGood DEF Kept
<1>2. worker' \in [Segments -> Places]
  BY DEF Kept, Held, Places
<1>3. ASSUME NEW j \in Segments, worker'[j] \notin {"GONE", "SPAWNED"}
      PROVE  /\ cut \/ Owned(state', j)
             /\ \A i \in Segments : worker'[i] \notin {"GONE", "SPAWNED"} => i = j
  <2>1. worker[j] \notin {"GONE", "SPAWNED"} /\ ~(mine /\ j = k)
    BY <1>3 DEF Kept, Held
  <2>2. \A i \in Segments : worker'[i] \notin {"GONE", "SPAWNED"}
                                => worker[i] \notin {"GONE", "SPAWNED"}
    BY DEF Kept, Held
  <2> QED BY <1>1, <2>1, <2>2 DEF Kept, Writers
<1>4. \A j : Owned(state, j)' <=> Owned(state', j)
  BY DEF Owned
<1> QED BY <1>1, <1>2, <1>3, <1>4 DEF Kept, Held, Behind, Writers

LEMMA LauncherStep ==
    ASSUME NEW cut \in BOOLEAN, Kept(cut), NEW l \in Launchers,
           ClearStop(l) \/ SpawnFails(l) \/ LauncherBlocked(l) \/ LauncherDies(l)
    PROVE  Kept(cut)'
<1>1. CASE SpawnFails(l)
  <2>1. /\ state' = FailedStartup(state, launcher[l].segment, FALSE)
        /\ UNCHANGED <<source, paper, seen, worker>>
    BY <1>1 DEF SpawnFails, world
  <2> QED BY <2>1, FailedStartStep
<1>2. CASE ClearStop(l) \/ LauncherBlocked(l) \/ LauncherDies(l)
  <2>1. UNCHANGED <<source, paper, seen, worker, state>>
    BY <1>2 DEF ClearStop, LauncherBlocked, LauncherDies, world, files
  <2> QED BY <2>1 DEF Kept, Held, Behind, Writers, Owned
<1> QED BY <1>1, <1>2

LEMMA GiveUpStep ==
    ASSUME NEW cut \in BOOLEAN, Kept(cut), GiveUp PROVE Kept(cut)'
<1>1. /\ state' = FailedStartup(state, state.active.segment, FALSE)
      /\ UNCHANGED <<source, paper, seen>>
      /\ worker' = [worker EXCEPT ![state.active.segment] = "GONE"]
  BY DEF GiveUp, world
<1> QED BY <1>1, FailedStartStep

LEMMA RefusedStep ==
    ASSUME NEW cut \in BOOLEAN, Kept(cut), NEW k \in Segments,
           ClaimRejected(k) \/ OpenFails(k)
    PROVE  Kept(cut)'
<1>1. /\ state' = FailedStartup(state, k, TRUE)
      /\ UNCHANGED <<source, paper, seen>>
      /\ worker' = [worker EXCEPT ![k] = "GONE"]
  BY DEF ClaimRejected, OpenFails, Goes, world
<1> QED BY <1>1, FailedStartStep

LEMMA ClaimStep ==
    ASSUME NEW cut \in BOOLEAN, Kept(cut), cut => Cut(state),
           NEW k \in Segments, ClaimSegment(k)
    PROVE  Kept(cut)'
<1>1. /\ UNCHANGED <<source, paper>> /\ seen' = Unread
      /\ worker' = [worker EXCEPT ![k] = "CLAIMED"]
      /\ Pending(state, k)
  BY DEF ClaimSegment, Goes, world
<1>2. /\ DOMAIN state' = Fields
      /\ state'.life = state.life /\ state'.cursor = state.cursor
      /\ state'.mark = state.mark
      /\ state'.active = [state.active EXCEPT !.own = "OWNED", !.awaited = FALSE]
      /\ state'.segments = [state.segments EXCEPT ![k] = "OWNED"]
  BY DEF ClaimSegment, Kept, Good, Shaped, Fields
<1>3. /\ state'.active \in Actives /\ state'.active.segment = k
      /\ state'.active.own = "OWNED"
  BY <1>1, <1>2 DEF Kept, Good, Shaped, Actives, Pending
<1>4. Good(state')
  BY <1>1, <1>2, <1>3, ClaimedGood DEF Kept
<1>5. \A j \in Segments : worker[j] \in {"GONE", "SPAWNED"}
  BY <1>1 DEF Kept, Writers, Owned, Pending, Cut, NoProcess
<1>6. worker' \in [Segments -> Places] /\ Writers(cut)'
  BY <1>1, <1>3, <1>5 DEF Kept, Held, Places, Writers, Owned
<1>7. Held'
  BY <1>1, <1>6 DEF Kept, Held, Unread, SeenFields
<1> QED BY <1>1, <1>2, <1>4, <1>6, <1>7 DEF Kept, Behind

(* Steps of a worker that leave the journal and the databases alone.       *)
LEMMA QuietStep ==
    ASSUME NEW cut \in BOOLEAN, Kept(cut), NEW k \in Segments,
           \/ Open(k) \/ StopWhileArmed(k) \/ SeeCatchUp(k) \/ SeeEnd(k) \/ SeeRows(k)
           \/ WorkerFails(k) \/ RemoveStop(k) \/ WorkerBlocked(k) \/ Killed(k)
    PROVE  Kept(cut)'
<1>1. UNCHANGED <<source, paper, state>>
  BY DEF Open, StopWhileArmed, SeeCatchUp, SeeEnd, SeeRows, WorkerFails, RemoveStop,
         WorkerBlocked, Killed, Turn, world, files
<1>2. \E pc \in Places : /\ worker' = [worker EXCEPT ![k] = pc]
                         /\ worker[k] \notin {"GONE", "SPAWNED"} \/ pc = "GONE"
  BY DEF Open, StopWhileArmed, SeeCatchUp, SeeEnd, SeeRows, WorkerFails, RemoveStop,
         WorkerBlocked, Recording, Killed, Turn, Goes, Places
<1>3. Writers(cut)' /\ worker' \in [Segments -> Places]
  BY <1>1, <1>2, WorkerMoves
<1>4. DOMAIN seen' = SeenFields /\ seen'.mark \in Nat
  <2>1. \/ seen' = seen \/ seen' = Unread \/ seen' = [Unread EXCEPT !.failed = TRUE]
        \/ \E c, b : seen' = [Unread EXCEPT !.covered = c, !.stop = b]
        \/ \E i : seen' = [Unread EXCEPT !.instant = i]
        \/ \E i : seen' = [Unread EXCEPT !.instant = i, !.mark = source.rows]
    <3> HIDE DEF Unread
    <3> QED BY DEF Open, StopWhileArmed, SeeCatchUp, SeeEnd, SeeRows, WorkerFails,
                   RemoveStop, WorkerBlocked, Recording, Locking, Killed, Turn
  <2>2. DOMAIN Unread = SeenFields /\ Unread.mark \in Nat
    BY DEF Unread, SeenFields
  <2> QED BY <2>1, <2>2 DEF Kept, Held, SeenFields
<1> QED BY <1>1, <1>3, <1>4 DEF Kept, Held, Behind

(* A batch takes rows the source has; a drain takes them all.              *)
LEMMA WorkForward ==
    ASSUME NEW cut \in BOOLEAN, Kept(cut), NEW instant,
           paper' = Batch \/ paper' = Drained(instant), UNCHANGED <<state, source>>
    PROVE  Behind' /\ DOMAIN paper' = {"cursor", "beyond"} /\ paper'.cursor \in Nat
<1>1. CASE paper' = Drained(instant)
  <2>1. DOMAIN paper' = {"cursor", "beyond"} /\ paper'.cursor = source.rows
    BY <1>1 DEF Drained
  <2> QED BY <2>1 DEF Kept, Held, Behind, Good, Shaped
<1>2. CASE paper' = Batch
  <2> DEFINE m == Min({paper.cursor + BatchSize, source.rows})
  <2>1. paper' = [paper EXCEPT !.cursor = m]
    BY <1>2 DEF Batch
  <2>2. BatchSize \in Nat /\ paper.cursor + BatchSize \in Nat
    BY BoundAssumption DEF Kept, Held
  <2>3. m = IF paper.cursor + BatchSize <= source.rows THEN paper.cursor + BatchSize
            ELSE source.rows
    BY <2>2, MinOfTwo DEF Kept, Held
  <2> HIDE DEF m
  <2>4. DOMAIN paper' = {"cursor", "beyond"} /\ paper'.cursor = m
    BY <2>1 DEF Kept, Held
  <2> QED BY <2>2, <2>3, <2>4 DEF Kept, Held, Behind, Good, Shaped
<1> QED BY <1>1, <1>2

LEMMA WorkStep ==
    ASSUME NEW cut \in BOOLEAN, Kept(cut), NEW k \in Segments,
           MainWork(k) \/ CatchUpWork(k) \/ DrainCatchUp(k) \/ DrainFinal(k)
    PROVE  Kept(cut)'
<1>1. /\ UNCHANGED <<source, state>>
      /\ paper' = Batch \/ paper' = Drained(seen.instant)
  BY DEF MainWork, CatchUpWork, DrainCatchUp, DrainFinal, Drain, world, files
<1>2. \E pc \in Places : /\ worker' = [worker EXCEPT ![k] = pc]
                         /\ worker[k] \notin {"GONE", "SPAWNED"}
  BY DEF MainWork, CatchUpWork, DrainCatchUp, DrainFinal, Drain, Goes, Places
<1>3. Writers(cut)' /\ worker' \in [Segments -> Places]
  BY <1>1, <1>2, WorkerMoves
<1>4. DOMAIN seen' = SeenFields /\ seen'.mark \in Nat
  <2>1. seen' = seen \/ seen' = [seen EXCEPT !.mark = source.rows]
    BY DEF MainWork, CatchUpWork, DrainCatchUp, DrainFinal, Drain
  <2> QED BY <2>1 DEF Kept, Held, SeenFields
<1>5. Behind' /\ DOMAIN paper' = {"cursor", "beyond"} /\ paper'.cursor \in Nat
  BY <1>1, WorkForward
<1> QED BY <1>1, <1>3, <1>4, <1>5 DEF Kept, Held

(* A record writes the cursor of the paper database, or nothing.           *)
LEMMA RecordKeeps ==
    ASSUME NEW cut \in BOOLEAN, Kept(cut), NEW k \in Segments, NEW p,
           NEW next \in Places, NEW what,
           Record(k, p, next, what), worker[k] \notin {"GONE", "SPAWNED"},
           p.cursor = paper.cursor, p.mark \in Nat,
           DOMAIN what = SeenFields, what.mark \in Nat
    PROVE  Kept(cut)'
<1>1. UNCHANGED <<source, paper>>
  BY DEF Record, world
<1>2. CASE Contradicts(state, k, p)
  <2>1. /\ state' = state /\ seen' = [Unread EXCEPT !.failed = TRUE]
        /\ worker' = [worker EXCEPT ![k] = "ENDING"]
    BY <1>2 DEF Record, Goes
  <2>2. Writers(cut)' /\ worker' \in [Segments -> Places]
    <3>1. "ENDING" \in Places
      BY DEF Places
    <3> QED BY <2>1, <3>1, WorkerMoves
  <2>3. DOMAIN seen' = SeenFields /\ seen'.mark \in Nat
    BY <2>1 DEF SeenFields, Unread
  <2> QED BY <1>1, <2>1, <2>2, <2>3 DEF Kept, Held, Behind
<1>3. CASE ~Contradicts(state, k, p)
  <2>1. /\ state' = Recorded(state, p) /\ seen' = what
        /\ worker' = [worker EXCEPT ![k] = next]
    BY <1>3 DEF Record, Goes
  <2>2. /\ Good(state') /\ state'.cursor = paper.cursor
        /\ state'.active = state.active
    BY <1>3, <2>1, RecordedGood DEF Kept, Held
  <2>3. Writers(cut)' /\ worker' \in [Segments -> Places]
    BY <2>1, <2>2, WorkerMoves
  <2> QED BY <1>1, <2>1, <2>2, <2>3 DEF Kept, Held, Behind
<1> QED BY <1>2, <1>3

LEMMA RecordStep ==
    ASSUME NEW cut \in BOOLEAN, Kept(cut), NEW k \in Segments,
           RecordMain(k) \/ RecordCatchUp(k) \/ RecordCatchUpStop(k) \/ RecordFinal(k)
    PROVE  Kept(cut)'
<1>1. DOMAIN Unread = SeenFields /\ Unread.mark \in Nat
  BY DEF Unread, SeenFields
<1>2. DOMAIN seen = SeenFields /\ seen.mark \in Nat /\ paper.cursor \in Nat /\ source.rows \in Nat
  BY DEF Kept, Held
<1>3. {"LOOP", "ENDING", "CATCHUP_DRAIN"} \subseteq Places
  BY DEF Places
<1>4. CASE RecordMain(k)
  <2> DEFINE m == Max({paper.cursor, seen.mark})
             c == Covered(state.target)
  <2>1. m \in Nat
    BY <1>2, MaxOfTwo
  <2>2. /\ worker[k] \notin {"GONE", "SPAWNED"}
        /\ Record(k, MainProgress, "LOOP", Unread)
    BY <1>4 DEF RecordMain
  <2>3. MainProgress = [cursor |-> paper.cursor, mark |-> m, count |-> paper.cursor,
                        covered |-> c]
    BY DEF MainProgress
  <2> HIDE DEF m, c
  <2>4. MainProgress.cursor = paper.cursor /\ MainProgress.mark \in Nat
    BY <2>1, <2>3
  <2> QED BY <1>1, <1>3, <2>2, <2>4, RecordKeeps
<1>5. CASE RecordCatchUp(k)
  <2> DEFINE m == Max({paper.cursor, source.rows})
             w == IF seen.stop THEN [seen EXCEPT !.count = paper.cursor,
                                       !.instant = state.target]
                  ELSE Unread
             n == IF seen.stop THEN "CATCHUP_DRAIN" ELSE "LOOP"
  <2>1. m \in Nat
    BY <1>2, MaxOfTwo
  <2>2. worker[k] \notin {"GONE", "SPAWNED"} /\ Record(k, CatchUpProgress, n, w)
    BY <1>5 DEF RecordCatchUp
  <2>3. CatchUpProgress = [cursor |-> paper.cursor, mark |-> m, count |-> paper.cursor,
                           covered |-> seen.covered]
    BY DEF CatchUpProgress
  <2>4. DOMAIN w = SeenFields /\ w.mark \in Nat /\ n \in Places
    BY <1>1, <1>2, <1>3
  <2> HIDE DEF m, w, n
  <2>5. CatchUpProgress.cursor = paper.cursor /\ CatchUpProgress.mark \in Nat
    BY <2>1, <2>3
  <2> QED BY <2>2, <2>4, <2>5, RecordKeeps
<1>6. CASE RecordCatchUpStop(k)
  <2> DEFINE p == [cursor |-> paper.cursor, mark |-> seen.mark, count |-> seen.count,
                   covered |-> seen.covered]
  <2>1. worker[k] \notin {"GONE", "SPAWNED"} /\ Record(k, p, "ENDING", seen)
    BY <1>6 DEF RecordCatchUpStop
  <2>2. p.cursor = paper.cursor /\ p.mark \in Nat
    BY <1>2
  <2> HIDE DEF p
  <2> QED BY <1>2, <1>3, <2>1, <2>2, RecordKeeps
<1>7. CASE RecordFinal(k)
  <2>1. worker[k] \notin {"GONE", "SPAWNED"} /\ Record(k, FinalProgress, "ENDING", seen)
    BY <1>7 DEF RecordFinal
  <2>2. FinalProgress.cursor = paper.cursor /\ FinalProgress.mark \in Nat
    BY <1>2 DEF FinalProgress
  <2> QED BY <1>2, <1>3, <2>1, <2>2, RecordKeeps
<1> QED BY <1>4, <1>5, <1>6, <1>7

(* The worker that ends the active segment is the one past its claim.      *)
LEMMA EndStep ==
    ASSUME NEW cut \in BOOLEAN, Kept(cut), cut => Cut(state),
           NEW k \in Segments, EndSegment(k)
    PROVE  Kept(cut)'
<1>1. /\ UNCHANGED <<source, paper>> /\ seen' = Unread
      /\ worker' = [worker EXCEPT ![k] = "GONE"]
      /\ worker[k] = "CLOSING"
  BY DEF EndSegment, Goes, world
<1>2. cut \/ Owned(state, k)
  BY <1>1 DEF Kept, Writers
<1>3. Good(state') /\ state'.cursor = state.cursor
  <2>1. CASE state.active = NoProcess
    BY <2>1 DEF EndSegment, Kept
  <2>2. CASE state.active # NoProcess
    <3>1. state.active.own # "NONE"
      BY <2>2 DEF Kept, Good, Consistent
    <3>2. CASE state' = Closed(state, "STOPPED")
      BY <3>1, <3>2, ClosedGood DEF Kept
    <3>3. CASE state' = [Closed(state, "INVALID") EXCEPT !.coverage = "OOS_INCOMPLETE"]
      <4> DEFINE c == Closed(state, "INVALID")
      <4>1. Good(c) /\ c.cursor = state.cursor
        BY <3>1, ClosedGood DEF Kept
      <4>2. state' = [c EXCEPT !.coverage = "OOS_INCOMPLETE"]
        BY <3>3
      <4> HIDE DEF c
      <4> QED BY <4>1, <4>2, CoverageGood
    <3> QED BY <2>2, <3>2, <3>3 DEF EndSegment
  <2> QED BY <2>1, <2>2
<1>4. \A j \in Segments : j # k => worker[j] \in {"GONE", "SPAWNED"}
  BY <1>1 DEF Kept, Writers
<1>5. worker' \in [Segments -> Places] /\ Writers(cut)'
  BY <1>1, <1>4 DEF Kept, Held, Places, Writers
<1>6. Held'
  BY <1>1, <1>5 DEF Kept, Held, Unread, SeenFields
<1> QED BY <1>1, <1>3, <1>5, <1>6 DEF Kept, Behind

LEMMA Refreezes ==
    ASSUME NEW s, Good(s) PROVE Refrozen(s, [s EXCEPT !.life = "FROZEN"])
BY DEF Good, Shaped, Fields, Refrozen

LEMMA CommandsStep ==
    ASSUME NEW cut \in BOOLEAN, Kept(cut), cut => Cut(state), Commands \/ FinalizerDies
    PROVE  Kept(cut)'
<1>1. UNCHANGED <<source, paper, worker, seen>>
  BY DEF Commands, Status, RequestStop, Extend, WriteHandoff, Freeze, ReadForAdoption,
         Readopt, Frozen, FinalizerDies, world, procs
<1>2. CASE state' = Reconciled(state)
  BY <1>1, <1>2, ReconciledGood DEF Kept, Held, Behind, Writers, Owned
<1>3. CASE \/ state' = state
           \/ Refrozen(state, state')
           \/ state' = [state EXCEPT !.target = @ + 1, !.coverage = "COLLECTING"]
  <2>1. /\ DOMAIN state' = Fields /\ state'.active = state.active
        /\ state'.segments = state.segments
        /\ state'.cursor = state.cursor /\ state'.mark = state.mark
        /\ state'.life = state.life \/ state'.life = "FROZEN"
    BY <1>3 DEF Kept, Good, Shaped, Fields, Refrozen
  <2>2. state'.life \in Lives
    BY <2>1 DEF Kept, Good, Shaped, Lives
  <2>3. Good(state')
    BY <2>1, <2>2, AlikeGood DEF Kept
  <2> QED BY <1>1, <2>1, <2>3 DEF Kept, Held, Behind, Writers, Owned
<1>4. Refrozen(state, [state EXCEPT !.life = "FROZEN"])
  BY Refreezes DEF Kept
<1> QED
  BY <1>2, <1>3, <1>4 DEF Commands, Status, RequestStop, Extend, WriteHandoff, Freeze,
     ReadForAdoption, Readopt, FinalizerDies, files
-----------------------------------------------------------------------------
(* Every step keeps the invariant.                                         *)
LEMMA StepGood ==
    ASSUME NEW cut \in BOOLEAN, Kept(cut), cut => Cut(state), Steps \/ UNCHANGED vars
    PROVE  Kept(cut)'
<1>1. CASE World
  BY <1>1, WorldStep
<1>2. CASE ClaimDeadline \/ WaiterDies
  BY <1>2, DeadlineStep
<1>3. CASE GiveUp
  BY <1>3, GiveUpStep
<1>4. CASE Commands \/ FinalizerDies
  BY <1>4, CommandsStep
<1>5. ASSUME NEW l \in Launchers, Resume(l) \/ Launching(l) \/ SpawnFails(l) \/ LauncherDies(l)
      PROVE  Kept(cut)'
  BY <1>5, ResumeStep, PrepareStep, SpawnStep, LauncherStep DEF Launching
<1>6. ASSUME NEW k \in Segments, Working(k) \/ OpenFails(k) \/ WorkerFails(k) \/ Killed(k)
      PROVE  Kept(cut)'
  BY <1>6, ClaimStep, RefusedStep, QuietStep, WorkStep, RecordStep, EndStep DEF Working
<1>7. CASE UNCHANGED vars
  BY <1>7 DEF vars, world, files, procs, Kept, Held, Behind, Writers, Owned
<1> QED BY <1>1, <1>2, <1>3, <1>4, <1>5, <1>6, <1>7 DEF Steps
(* While the journal was never cut off, the owner it names is the writer.  *)
Sole == \A k \in Segments : worker[k] \notin {"GONE", "SPAWNED"} => Owned(state, k)

IInv == Good(state) /\ Held /\ Behind /\ Sole

LEMMA IInvKept == IInv <=> Kept(FALSE)
BY DEF IInv, Kept, Sole, Writers, Owned

LEMMA StepIInv ==
    ASSUME IInv, Steps \/ UNCHANGED vars PROVE IInv'
<1>1. Kept(FALSE)'
  BY IInvKept, StepGood
<1> QED BY <1>1, IInvKept, PTL

(* A journal that was cut off stays what it is in every other step.        *)
LEMMA NoProcessIdle ==
    ASSUME state.active = NoProcess
    PROVE  /\ Reconciled(state) = state
           /\ \A k, m : FailedStartup(state, k, m) = state
           /\ \A k : ~Pending(state, k) /\ ~Owned(state, k)
           /\ \A k, p : Contradicts(state, k, p)
BY DEF Reconciled, FailedStartup, Pending, Owned, Contradicts, NoProcess

Same(s, t) == DOMAIN t = Fields /\ \A f \in Fields : t[f] = s[f]

LEMMA CutStays ==
    ASSUME Good(state), Cut(state), Steps \/ UNCHANGED vars PROVE Same(state, state')
<1>1. /\ state.active = NoProcess /\ Terminal(state)
      /\ state.life # "STOPPED" /\ state.active.own = "NONE"
  BY DEF Cut, Terminal, NoProcess
<1>2. /\ Same(state, state)
      /\ \A t : Refrozen(state, t) => Same(state, t)
      /\ Refrozen(state, [state EXCEPT !.life = "FROZEN"])
  BY DEF Cut, Good, Shaped, Fields, Same, Refrozen
<1>3. ASSUME NEW l \in Launchers, Spawn(l) PROVE Same(state, state')
  <2> DEFINE b == state.active.awaited \/ Pending(state, launcher[l].segment)
  <2>1. state' = [state EXCEPT !.active.awaited = b]
    BY <1>3 DEF Spawn
  <2>2. b = FALSE
    BY <1>1 DEF Pending, NoProcess
  <2> HIDE DEF b
  <2>3. [NoProcess EXCEPT !.awaited = FALSE] = NoProcess
    <3>1. \A r, u \in Actives : r.segment = u.segment /\ r.own = u.own
                                  /\ r.late = u.late /\ r.awaited = u.awaited => r = u
      BY DEF Actives
    <3>2. NoProcess \in Actives /\ [NoProcess EXCEPT !.awaited = FALSE] \in Actives
      BY DEF Actives, NoProcess
    <3> QED BY <3>1, <3>2 DEF NoProcess
  <2>4. /\ DOMAIN state' = Fields /\ state'.active = [state.active EXCEPT !.awaited = b]
        /\ \A f \in Fields : f # "active" => state'[f] = state[f]
    BY <2>1 DEF Good, Shaped, Fields
  <2> QED BY <1>1, <2>2, <2>3, <2>4 DEF Same
<1>4. ASSUME NEW l \in Launchers, Resume(l) \/ Launching(l) \/ SpawnFails(l) \/ LauncherDies(l)
      PROVE  Same(state, state')
  BY <1>1, <1>2, <1>3, <1>4, NoProcessIdle
  DEF Resume, Launching, ClearStop, PrepareSegment, MayPrepare, LauncherBlocked, SpawnFails,
      LauncherDies, files
<1>5. ASSUME NEW k \in Segments, Working(k) \/ OpenFails(k) \/ WorkerFails(k) \/ Killed(k)
      PROVE  Same(state, state')
  BY <1>1, <1>2, <1>5, NoProcessIdle
  DEF Working, ClaimSegment, ClaimRejected, Open, StopWhileArmed, SeeCatchUp, SeeEnd,
      SeeRows, Turn, MainWork, RecordMain, CatchUpWork, RecordCatchUp, DrainCatchUp,
      RecordCatchUpStop, DrainFinal, RecordFinal, Record, Drain, RemoveStop, EndSegment,
      WorkerBlocked, OpenFails, WorkerFails, Killed, files
<1>6. ASSUME Commands \/ FinalizerDies PROVE Same(state, state')
  BY <1>1, <1>2, <1>6, NoProcessIdle
  DEF Commands, Status, RequestStop, Extend, WriteHandoff, Freeze, ReadForAdoption, Readopt,
      FinalizerDies
<1>7. ASSUME World \/ ClaimDeadline \/ WaiterDies \/ GiveUp \/ UNCHANGED vars
      PROVE  Same(state, state')
  BY <1>1, <1>2, <1>7
  DEF NoProcess, World, Tick, InsertRow, OpenGap, ResolveGap, ClaimDeadline, WaiterDies,
      GiveUp, vars, files
<1> QED BY <1>4, <1>5, <1>6, <1>7 DEF Steps
-----------------------------------------------------------------------------
(* The frozen boundary.  The target moves only while no segment is active  *)
(* (Busy), so that what a worker read before its work still holds at the   *)
(* work (Bounded).                                                         *)
Busy(s) == s.active.own # "NONE" => s.life \in {"ACTIVE", "FROZEN"}

Acting == {"MAIN", "FINAL", "CATCHUP_DRAIN"}

Bounded ==
    \A k \in Segments : worker[k] \in Acting =>
        seen.instant \in Nat /\ seen.instant <= state.target

Inside == ~paper.beyond

Window == now \in Nat /\ state.target \in Nat /\ Busy(state) /\ Bounded /\ Inside

LEMMA ClosedTarget ==
    ASSUME NEW s, Good(s), NEW life
    PROVE  Closed(s, life).target = s.target /\ Busy(Closed(s, life))
BY DEF Closed, Good, Shaped, Fields, Busy, NoProcess

LEMMA RewrittenTarget ==
    ASSUME NEW s, Good(s), Busy(s), NEW t,
           \/ t = Reconciled(s)
           \/ \E k, mine : t = FailedStartup(s, k, mine)
           \/ \E p : t = Recorded(s, p)
    PROVE  t.target = s.target /\ Busy(t)
<1>1. CASE \/ t = s \/ t = Closed(s, "STOPPED")
  BY <1>1, ClosedTarget
<1>2. CASE t = [Closed(s, "INVALID") EXCEPT !.coverage = "OOS_INCOMPLETE"]
  <2> DEFINE c == Closed(s, "INVALID")
  <2>1. c.target = s.target /\ Busy(c)
    BY ClosedTarget
  <2>2. t = [c EXCEPT !.coverage = "OOS_INCOMPLETE"]
    BY <1>2
  <2> HIDE DEF c
  <2> QED BY <2>1, <2>2 DEF Busy
<1>3. ASSUME NEW p, t = Recorded(s, p) PROVE t.target = s.target /\ Busy(t)
  <2>1. t.target = s.target /\ t.active = s.active /\ t.life = s.life
    BY <1>3 DEF Recorded, Good, Shaped, Fields
  <2> QED BY <2>1 DEF Busy
<1> QED
  <2>1. Reconciled(s) = s \/ Reconciled(s) = Closed(s, "STOPPED")
    BY DEF Reconciled
  <2>2. ASSUME NEW k, NEW mine, t = FailedStartup(s, k, mine)
        PROVE  \/ t = s \/ t = Closed(s, "STOPPED")
               \/ t = [Closed(s, "INVALID") EXCEPT !.coverage = "OOS_INCOMPLETE"]
    BY <2>2 DEF FailedStartup
  <2> QED BY <1>1, <1>2, <1>3, <2>1, <2>2

(* Where the journal is rewritten and no process begins to act.            *)
LEMMA RewriteWindow ==
    ASSUME IInv, Window, state'.target = state.target, Busy(state'), now' = now,
           paper' = paper,
           \A k \in Segments : worker'[k] \in Acting =>
               worker[k] \in Acting /\ seen' = seen
    PROVE  Window'
BY DEF Window, Bounded, Busy, Inside

(* A process past its claim is alone.                                      *)
LEMMA Alone ==
    ASSUME IInv, NEW k \in Segments, worker[k] \notin {"GONE", "SPAWNED"},
           NEW j \in Segments, j # k
    PROVE  worker[j] \notin Acting
BY DEF IInv, Sole, Owned, Acting

LEMMA InitWindow == Init => Window
BY DEF Init, Window, Busy, Bounded, Inside, Acting, NoProcess, Minimum, Start

LEMMA OutsideWindow ==
    ASSUME IInv, Window, World \/ ClaimDeadline \/ WaiterDies \/ GiveUp \/ FinalizerDies
    PROVE  Window'
<1>1. CASE World
  BY <1>1 DEF World, Tick, InsertRow, OpenGap, ResolveGap, files, procs, Window, Busy,
              Bounded, Inside
<1>2. CASE GiveUp
  <2>1. state'.target = state.target /\ Busy(state')
    BY <1>2, RewrittenTarget DEF GiveUp, IInv, Window
  <2>2. \A k \in Segments : worker'[k] \in Acting => worker[k] \in Acting /\ seen' = seen
    BY <1>2 DEF GiveUp, IInv, Held, Acting
  <2> QED BY <1>2, <2>1, <2>2, RewriteWindow DEF GiveUp, world
<1>3. CASE ClaimDeadline \/ WaiterDies \/ FinalizerDies
  <2>1. /\ state'.target = state.target /\ state'.active.own = state.active.own
        /\ state'.life = state.life \/ state'.life = "FROZEN"
    BY <1>3 DEF ClaimDeadline, WaiterDies, FinalizerDies, IInv, Good, Shaped, Fields, Actives
  <2>2. UNCHANGED <<now, paper, worker, seen>>
    BY <1>3 DEF ClaimDeadline, WaiterDies, FinalizerDies, world, procs
  <2> QED BY <2>1, <2>2, RewriteWindow DEF Busy, Window
<1> QED BY <1>1, <1>2, <1>3

LEMMA LauncherWindow ==
    ASSUME IInv, Window, NEW l \in Launchers,
           Resume(l) \/ Launching(l) \/ SpawnFails(l) \/ LauncherDies(l)
    PROVE  Window'
<1>1. state'.target = state.target /\ Busy(state')
  <2>1. CASE Resume(l) \/ SpawnFails(l)
    <3>1. \/ state' = Reconciled(state)
          \/ \E k, mine : state' = FailedStartup(state, k, mine)
      BY <2>1 DEF Resume, SpawnFails
    <3> QED BY <3>1, RewrittenTarget DEF IInv, Window
  <2>2. CASE PrepareSegment(l)
    <3>1. \/ state' = state
          \/ state'.target = state.target /\ state'.life = "ACTIVE"
      BY <2>2 DEF PrepareSegment, IInv, Good, Shaped, Fields
    <3> QED BY <3>1 DEF Window, Busy
  <2>3. CASE Spawn(l)
    <3> DEFINE b == state.active.awaited \/ Pending(state, launcher[l].segment)
    <3>1. state' = [state EXCEPT !.active.awaited = b]
      BY <2>3 DEF Spawn
    <3> HIDE DEF b
    <3>2. /\ state'.target = state.target /\ state'.life = state.life
          /\ state'.active.own = state.active.own
      BY <3>1 DEF IInv, Good, Shaped, Fields, Actives
    <3> QED BY <3>2 DEF Window, Busy
  <2>4. CASE ClearStop(l) \/ LauncherBlocked(l) \/ LauncherDies(l)
    BY <2>4 DEF ClearStop, LauncherBlocked, LauncherDies, files, Window
  <2> QED BY <2>1, <2>2, <2>3, <2>4 DEF Launching
<1>2. \A k \in Segments : worker'[k] \in Acting => worker[k] \in Acting /\ seen' = seen
  BY DEF Resume, Launching, ClearStop, PrepareSegment, Spawn, SpawnFails, LauncherBlocked,
         LauncherDies, IInv, Held, Acting
<1>3. UNCHANGED <<now, paper>>
  BY DEF Resume, Launching, ClearStop, PrepareSegment, Spawn, SpawnFails, LauncherBlocked,
         LauncherDies, world
<1> QED BY <1>1, <1>2, <1>3, RewriteWindow

LEMMA CommandsWindow ==
    ASSUME IInv, Window, Commands PROVE Window'
<1>1. UNCHANGED <<now, paper, worker, seen>>
  BY DEF Commands, Status, RequestStop, Extend, WriteHandoff, Freeze, ReadForAdoption,
         Readopt, Frozen, world, procs
<1>2. CASE Extend
  <2>1. state.life = "STOPPED" /\ state' = [state EXCEPT !.target = @ + 1,
                                              !.coverage = "COLLECTING"]
    BY <1>2 DEF Extend
  <2>2. state'.target \in Nat /\ state'.active = state.active /\ state'.life = "STOPPED"
    BY <2>1 DEF Window, IInv, Good, Shaped, Fields
  <2>3. state.active.own = "NONE"
    BY <2>1 DEF Window, Busy, IInv, Good, Shaped, Actives
  <2>4. \A k \in Segments : worker[k] \notin Acting
    BY <2>3 DEF IInv, Sole, Owned, Acting
  <2> QED BY <1>1, <2>2, <2>3, <2>4 DEF Window, Busy, Bounded, Inside
<1>3. CASE \/ Status \/ RequestStop \/ WriteHandoff \/ Freeze \/ ReadForAdoption
           \/ Readopt
  <2>1. \/ state' = state \/ state' = Reconciled(state)
        \/ Refrozen(state, state')
    <3>1. Refrozen(state, [state EXCEPT !.life = "FROZEN"])
      BY Refreezes DEF IInv
    <3> QED
      BY <1>3, <3>1
      DEF Status, RequestStop, WriteHandoff, Freeze, ReadForAdoption, Readopt, files
  <2>2. CASE Refrozen(state, state')
    BY <1>1, <2>2, RewriteWindow DEF IInv, Good, Shaped, Fields, Busy, Refrozen, Window
  <2>3. CASE state' = state \/ state' = Reconciled(state)
    BY <1>1, <2>3, RewrittenTarget, RewriteWindow DEF IInv, Window
  <2> QED BY <2>1, <2>2, <2>3
<1> QED BY <1>2, <1>3 DEF Commands

(* A worker begins to act with an instant no later than the target.        *)
LEMMA TurnWindow ==
    ASSUME IInv, Window, NEW k \in Segments,
           \/ StopWhileArmed(k) \/ SeeCatchUp(k) \/ SeeEnd(k) \/ SeeRows(k)
    PROVE  Window'
<1>1. /\ UNCHANGED <<now, paper, state>>
      /\ worker[k] = "LOOP"
      /\ \E pc : worker' = [worker EXCEPT ![k] = pc]
  BY DEF StopWhileArmed, SeeCatchUp, SeeEnd, SeeRows, Turn, Goes, world, files
<1>2. \A j \in Segments : j # k => worker'[j] \notin Acting
  BY <1>1, Alone DEF IInv, Held
<1>3. ASSUME worker'[k] \in Acting
      PROVE  seen'.instant \in Nat /\ seen'.instant <= state.target
  <2>1. CASE StopWhileArmed(k) \/ SeeCatchUp(k)
    BY <1>3, <2>1 DEF StopWhileArmed, SeeCatchUp, Turn, Goes, Acting, IInv, Held
  <2>2. CASE SeeEnd(k)
    <3> DEFINE m == Min({now, state.target})
    <3>1. m = IF now <= state.target THEN now ELSE state.target
      BY MinOfTwo DEF Window
    <3>2. seen' = [Unread EXCEPT !.instant = m]
      BY <2>2 DEF SeeEnd, Turn
    <3> HIDE DEF m
    <3>3. seen'.instant = m
      BY <3>2 DEF Unread
    <3> QED BY <3>1, <3>3 DEF Window
  <2>3. CASE SeeRows(k)
    <3>1. seen'.instant = now /\ now < state.target
      BY <2>3 DEF SeeRows, Turn, Unread
    <3> QED BY <3>1 DEF Window
  <2> QED BY <2>1, <2>2, <2>3
<1> QED BY <1>1, <1>2, <1>3 DEF Window, Busy, Bounded, Inside

LEMMA WorkWindow ==
    ASSUME IInv, Window, NEW k \in Segments,
           MainWork(k) \/ CatchUpWork(k) \/ DrainCatchUp(k) \/ DrainFinal(k)
    PROVE  Window'
<1>1. UNCHANGED <<now, state>> /\ worker[k] \notin {"GONE", "SPAWNED"}
  BY DEF MainWork, CatchUpWork, DrainCatchUp, DrainFinal, Drain, world, files
<1>2. worker'[k] \notin Acting /\ \A j \in Segments : j # k => worker'[j] = worker[j]
  BY DEF MainWork, CatchUpWork, DrainCatchUp, DrainFinal, Drain, Goes, Acting, IInv, Held
<1>3. \A j \in Segments : worker'[j] \notin Acting
  BY <1>1, <1>2, Alone
<1>4. ~paper'.beyond
  <2>1. CASE paper' = Batch
    <3> DEFINE m == Min({paper.cursor + BatchSize, source.rows})
    <3>1. paper' = [paper EXCEPT !.cursor = m]
      BY <2>1 DEF Batch
    <3> HIDE DEF m
    <3>2. paper'.beyond = paper.beyond
      BY <3>1 DEF IInv, Held
    <3> QED BY <3>2 DEF Window, Inside
  <2>2. CASE paper' = Drained(seen.instant) /\ worker[k] \in Acting
    <3>1. seen.instant \in Nat /\ seen.instant <= state.target
      BY <2>2 DEF Window, Bounded
    <3>2. paper'.beyond = (paper.beyond \/ seen.instant > state.target)
      BY <2>2 DEF Drained
    <3>3. ~paper.beyond /\ ~(seen.instant > state.target)
      BY <3>1 DEF Window, Inside
    <3> QED BY <3>2, <3>3
  <2> QED
    BY <2>1, <2>2 DEF MainWork, CatchUpWork, DrainCatchUp, DrainFinal, Drain, Acting
<1> QED BY <1>1, <1>3, <1>4 DEF Window, Bounded, Busy, Inside

(* A journal rewrite of the worker: it stops acting, unless the stop of    *)
(* the catch-up drains at the target it has just recorded under.           *)
LEMMA JournalWindow ==
    ASSUME IInv, Window, NEW k \in Segments,
           \/ ClaimSegment(k) \/ ClaimRejected(k) \/ OpenFails(k) \/ EndSegment(k)
           \/ RecordMain(k) \/ RecordCatchUp(k) \/ RecordCatchUpStop(k) \/ RecordFinal(k)
    PROVE  Window'
<1>1. UNCHANGED <<now, paper>>
  BY DEF ClaimSegment, ClaimRejected, OpenFails, EndSegment, RecordMain, RecordCatchUp,
         RecordCatchUpStop, RecordFinal, Record, world
<1>2. CASE ClaimSegment(k)
  <2>1. /\ state'.target = state.target /\ state'.life = state.life
        /\ state.active.own = "PENDING"
    BY <1>2 DEF ClaimSegment, Pending, IInv, Good, Shaped, Fields
  <2>2. \A j \in Segments : worker'[j] \notin Acting
    BY <1>2, <2>1 DEF ClaimSegment, Goes, IInv, Held, Sole, Owned, Acting
  <2> QED BY <1>1, <2>1, <2>2, RewriteWindow DEF Window, Busy
<1>3. CASE ClaimRejected(k) \/ OpenFails(k)
  <2>1. /\ state' = FailedStartup(state, k, TRUE) /\ seen' = seen
        /\ worker' = [worker EXCEPT ![k] = "GONE"]
    BY <1>3 DEF ClaimRejected, OpenFails, Goes
  <2>2. state'.target = state.target /\ Busy(state')
    BY <2>1, RewrittenTarget DEF IInv, Window
  <2>3. \A j \in Segments : worker'[j] \in Acting => worker[j] \in Acting /\ seen' = seen
    BY <2>1 DEF IInv, Held, Acting
  <2> QED BY <1>1, <2>2, <2>3, RewriteWindow
<1>4. CASE EndSegment(k)
  <2>1. worker[k] = "CLOSING" /\ worker' = [worker EXCEPT ![k] = "GONE"]
    BY <1>4 DEF EndSegment, Goes
  <2>2. state' = state \/ state' = Closed(state, "STOPPED")
        \/ state' = [Closed(state, "INVALID") EXCEPT !.coverage = "OOS_INCOMPLETE"]
    BY <1>4 DEF EndSegment
  <2>3. state'.target = state.target /\ Busy(state')
    <3> DEFINE c == Closed(state, "INVALID")
    <3>1. c.target = state.target /\ Busy(c)
      BY ClosedTarget DEF IInv
    <3>2. state' = [c EXCEPT !.coverage = "OOS_INCOMPLETE"]
            => state'.target = state.target /\ Busy(state')
      <4> HIDE DEF c
      <4> QED BY <3>1 DEF Busy
    <3> QED BY <2>2, <3>2, ClosedTarget DEF IInv, Window
  <2>4. \A j \in Segments : worker'[j] \notin Acting
    BY <2>1, Alone DEF IInv, Held, Acting
  <2> QED BY <1>1, <2>3, <2>4, RewriteWindow
<1>5. CASE RecordMain(k) \/ RecordCatchUp(k) \/ RecordCatchUpStop(k) \/ RecordFinal(k)
  <2>1. worker[k] \notin {"GONE", "SPAWNED"} /\ worker[k] \notin Acting
    BY <1>5 DEF RecordMain, RecordCatchUp, RecordCatchUpStop, RecordFinal, Acting
  <2>2. \E p : state' = state \/ state' = Recorded(state, p)
    BY <1>5 DEF RecordMain, RecordCatchUp, RecordCatchUpStop, RecordFinal, Record
  <2>3. state'.target = state.target /\ Busy(state')
    BY <2>2, RewrittenTarget DEF IInv, Window
  <2>4. \A j \in Segments : j # k => worker'[j] = worker[j] /\ worker[j] \notin Acting
    BY <1>5, <2>1, Alone DEF RecordMain, RecordCatchUp, RecordCatchUpStop, RecordFinal,
       Record, Goes, IInv, Held
  <2>5. CASE worker'[k] \notin Acting
    BY <1>1, <2>3, <2>4, <2>5, RewriteWindow
  <2>6. CASE worker'[k] \in Acting
    <3>1. RecordCatchUp(k) /\ seen.stop /\ worker'[k] = "CATCHUP_DRAIN"
      BY <1>5, <2>6 DEF RecordMain, RecordCatchUp, RecordCatchUpStop, RecordFinal, Record,
         Goes, IInv, Held, Acting
    <3>2. seen' = [seen EXCEPT !.count = paper.cursor, !.instant = state.target]
      BY <3>1 DEF RecordCatchUp, Record, Goes, IInv, Held
    <3>3. seen'.instant = state.target
      BY <3>2 DEF IInv, Held, SeenFields
    <3> QED BY <1>1, <2>3, <2>4, <3>3 DEF Window, Bounded, Inside
  <2> QED BY <2>5, <2>6
<1> QED BY <1>2, <1>3, <1>4, <1>5

LEMMA AwayWindow ==
    ASSUME IInv, Window, NEW k \in Segments,
           Open(k) \/ WorkerFails(k) \/ RemoveStop(k) \/ WorkerBlocked(k) \/ Killed(k)
    PROVE  Window'
<1>1. UNCHANGED <<now, paper, state>>
  BY DEF Open, WorkerFails, RemoveStop, WorkerBlocked, Killed, world, files
<1>2. worker'[k] \notin Acting /\ \A j \in Segments : j # k => worker'[j] = worker[j]
  BY DEF Open, WorkerFails, RemoveStop, WorkerBlocked, Recording, Killed, Goes, Acting,
         IInv, Held
<1>3. CASE worker[k] \in {"GONE", "SPAWNED"}
  <2>1. seen' = seen
    BY <1>3 DEF Open, WorkerFails, RemoveStop, WorkerBlocked, Recording, Locking, Killed,
       Live
  <2> QED BY <1>1, <1>2, <2>1, RewriteWindow DEF Window
<1>4. CASE worker[k] \notin {"GONE", "SPAWNED"}
  BY <1>1, <1>2, <1>4, Alone, RewriteWindow DEF Window
<1> QED BY <1>3, <1>4

LEMMA StepWindow ==
    ASSUME IInv, Window, Steps \/ UNCHANGED vars PROVE Window'
<1>1. CASE World \/ ClaimDeadline \/ WaiterDies \/ GiveUp \/ FinalizerDies
  BY <1>1, OutsideWindow
<1>2. CASE Commands
  BY <1>2, CommandsWindow
<1>3. ASSUME NEW l \in Launchers, Resume(l) \/ Launching(l) \/ SpawnFails(l) \/ LauncherDies(l)
      PROVE  Window'
  BY <1>3, LauncherWindow
<1>4. ASSUME NEW k \in Segments, Working(k) \/ OpenFails(k) \/ WorkerFails(k) \/ Killed(k)
      PROVE  Window'
  BY <1>4, TurnWindow, WorkWindow, JournalWindow, AwayWindow DEF Working
<1>5. CASE UNCHANGED vars
  BY <1>5 DEF vars, world, files, procs, Window, Bounded, Busy, Inside
<1> QED BY <1>1, <1>2, <1>3, <1>4, <1>5 DEF Steps
-----------------------------------------------------------------------------
(* The handoff.  What it was written over, when the run was idle: no       *)
(* process, and frozen or under the lock.                                  *)
Settled ==
    /\ state.active = NoProcess /\ (state.life = "FROZEN" \/ lock # "FREE")
    /\ state.life \in {"STOPPED", "FROZEN"}

Bodily(s, t) == \A f \in Fields \ {"life"} : t[f] = s[f]

(* Nothing but the life of the journal changes, and it stays settled.      *)
Unmoved == handoff' = handoff /\ Bodily(state, state') /\ Settled'

LEMMA OutsideUnmoved ==
    ASSUME IInv, Settled,
           World \/ ClaimDeadline \/ WaiterDies \/ GiveUp \/ UNCHANGED vars
    PROVE  Unmoved
<1>1. UNCHANGED <<handoff, lock, state>>
  BY DEF Settled, NoProcess, World, Tick, InsertRow, OpenGap, ResolveGap, ClaimDeadline,
         WaiterDies, GiveUp, vars, files
<1> QED BY <1>1 DEF Settled, Unmoved, Bodily

LEMMA LauncherUnmoved ==
    ASSUME IInv, Settled, NEW l \in Launchers,
           Resume(l) \/ Launching(l) \/ SpawnFails(l) \/ LauncherDies(l)
    PROVE  Unmoved
<1>1. handoff' = handoff /\ (lock' = lock \/ lock' = "STUCK")
  BY DEF Resume, Launching, ClearStop, PrepareSegment, Spawn, LauncherBlocked, SpawnFails,
         LauncherDies, files
<1>2. CASE state' = state
  BY <1>1, <1>2 DEF Settled, Unmoved, Bodily
<1>3. CASE \/ Resume(l) \/ SpawnFails(l) \/ ClearStop(l) \/ LauncherBlocked(l)
           \/ LauncherDies(l)
  <2>1. state' = state
    BY <1>3, NoProcessIdle
    DEF Settled, Resume, SpawnFails, ClearStop, LauncherBlocked, LauncherDies, files
  <2> QED BY <1>2, <2>1
<1>4. CASE PrepareSegment(l)
  <2>1. state' = state
    BY <1>4 DEF Settled, PrepareSegment, MayPrepare, Terminal
  <2> QED BY <1>2, <2>1
<1>5. CASE Spawn(l)
  <2> DEFINE b == state.active.awaited \/ Pending(state, launcher[l].segment)
  <2>1. state' = [state EXCEPT !.active.awaited = b] /\ lock' = lock
    BY <1>5 DEF Spawn
  <2> HIDE DEF b
  <2>2. /\ \A f \in Fields : f # "active" => state'[f] = state[f]
        /\ state'.active.own = state.active.own
    BY <2>1 DEF IInv, Good, Shaped, Fields, Actives
  <2>3. state'.active = NoProcess
    <3>1. state'.active.own = "NONE"
      BY <2>2 DEF Settled, NoProcess
    <3>2. Good(state')
      BY <1>5, IInvKept, SpawnStep DEF Kept
    <3> QED BY <3>1, <3>2 DEF Good, Consistent
  <2>4. state'.life = state.life
    BY <2>2 DEF Fields
  <2> QED BY <1>1, <2>1, <2>2, <2>3, <2>4 DEF Settled, Unmoved, Bodily
<1> QED BY <1>3, <1>4, <1>5 DEF Launching

LEMMA WorkerUnmoved ==
    ASSUME IInv, Settled, NEW k \in Segments,
           Working(k) \/ OpenFails(k) \/ WorkerFails(k) \/ Killed(k)
    PROVE  Unmoved
<1>1. handoff' = handoff /\ (lock' = lock \/ lock' = "STUCK")
  BY DEF Working, ClaimSegment, ClaimRejected, Open, StopWhileArmed, SeeCatchUp, SeeEnd,
         SeeRows, Turn, MainWork, RecordMain, CatchUpWork, RecordCatchUp, DrainCatchUp,
         RecordCatchUpStop, DrainFinal, RecordFinal, Record, Drain, RemoveStop, EndSegment,
         WorkerBlocked, OpenFails, WorkerFails, Killed, files
<1>2. state' = state
  BY NoProcessIdle DEF Settled, Working, ClaimSegment, ClaimRejected, Open, StopWhileArmed,
     SeeCatchUp, SeeEnd, SeeRows, Turn, MainWork, RecordMain, CatchUpWork, RecordCatchUp,
     DrainCatchUp, RecordCatchUpStop, DrainFinal, RecordFinal, Record, Drain, RemoveStop,
     EndSegment, WorkerBlocked, OpenFails, WorkerFails, Killed, files
<1> QED BY <1>1, <1>2 DEF Settled, Unmoved, Bodily

LEMMA OperatorUnmoved ==
    ASSUME IInv, Settled, Commands \/ FinalizerDies, ~WriteHandoff PROVE Unmoved
<1>1. Refrozen(state, [state EXCEPT !.life = "FROZEN"])
  BY Refreezes DEF IInv
<1>2. /\ handoff' = handoff
      /\ lock' = lock \/ lock' = "STUCK" \/ Refrozen(state, state')
  BY <1>1
  DEF Commands, Status, RequestStop, Extend, Freeze, ReadForAdoption, Readopt, FinalizerDies
<1>3. state' = state \/ Refrozen(state, state')
  BY <1>1, NoProcessIdle
  DEF Settled, Commands, Status, RequestStop, Extend, Freeze, ReadForAdoption, Readopt,
      FinalizerDies
<1>4. CASE state' = state /\ (lock' = lock \/ lock' = "STUCK")
  BY <1>2, <1>4 DEF Settled, Unmoved, Bodily
<1>5. CASE Refrozen(state, state')
  BY <1>2, <1>5 DEF Settled, Unmoved, Bodily, Refrozen, Fields
<1> QED BY <1>2, <1>3, <1>4, <1>5

(* The handoff is written once; a copy is taken only of a stopped journal, *)
(* and only when there is a handoff.                                       *)
LEMMA HandoffWrites ==
    ASSUME Steps \/ UNCHANGED vars, ~WriteHandoff PROVE handoff' = handoff
BY ZenonT(60)
DEF Steps, World, Tick, InsertRow, OpenGap, ResolveGap, ClaimDeadline, WaiterDies, GiveUp,
    Resume, Launching, ClearStop, PrepareSegment, Spawn, LauncherBlocked, SpawnFails,
    LauncherDies, Working, ClaimSegment, ClaimRejected, Open, StopWhileArmed, SeeCatchUp,
    SeeEnd, SeeRows, Turn, MainWork, RecordMain, CatchUpWork, RecordCatchUp, DrainCatchUp,
    RecordCatchUpStop, DrainFinal, RecordFinal, Record, Drain, RemoveStop, EndSegment,
    WorkerBlocked, OpenFails, WorkerFails, Killed, Commands, Status, RequestStop, Extend,
    Freeze, ReadForAdoption, Readopt, FinalizerDies, files, vars

LEMMA CopiesWrites ==
    ASSUME Steps \/ UNCHANGED vars
    PROVE  \/ copies' \subseteq copies
           \/ copies' = copies \union {state} /\ state.life = "STOPPED" /\ handoff # {}
<1>1. CASE ReadForAdoption
  BY <1>1 DEF ReadForAdoption
<1>2. CASE Readopt
  BY <1>2 DEF Readopt
<1>3. CASE ~ReadForAdoption /\ ~Readopt
  <2>1. copies' = copies
    BY <1>3, ZenonT(60)
    DEF Steps, World, Tick, InsertRow, OpenGap, ResolveGap, ClaimDeadline, WaiterDies,
        GiveUp, Resume, Launching, ClearStop, PrepareSegment, Spawn, LauncherBlocked,
        SpawnFails, LauncherDies, Working, ClaimSegment, ClaimRejected, Open,
        StopWhileArmed, SeeCatchUp, SeeEnd, SeeRows, Turn, MainWork, RecordMain,
        CatchUpWork, RecordCatchUp, DrainCatchUp, RecordCatchUpStop, DrainFinal,
        RecordFinal, Record, Drain, RemoveStop, EndSegment, WorkerBlocked, OpenFails,
        WorkerFails, Killed, Commands, Status, RequestStop, Extend, WriteHandoff, Freeze,
        FinalizerDies, files, vars
  <2> QED BY <2>1
<1> QED BY <1>1, <1>2, <1>3

(* A run that failed never becomes complete again.                         *)
Doomed == state.life = "INVALID" => state.coverage = "OOS_INCOMPLETE" /\ lock # "FINALIZER"

Backed == copies # {} => handoff # {}

(* A copy of an idle run says what the journal says, its life apart.       *)
Mirrors ==
    \A h \in handoff : h.idle =>
        state.life \in {"STOPPED", "FROZEN"} /\ \A c \in copies : Bodily(c, state)

Sealed == HandoffAgrees /\ Mirrors

LEMMA InitSealed == Init => Sealed /\ Backed
BY DEF Init, Sealed, HandoffAgrees, Mirrors, Backed

LEMMA StepBacked ==
    ASSUME Backed, Steps \/ UNCHANGED vars PROVE Backed'
<1>1. handoff # {} => handoff' # {}
  BY HandoffWrites DEF WriteHandoff
<1> QED BY <1>1, CopiesWrites DEF Backed

LEMMA StepSealed ==
    ASSUME IInv, Doomed, Backed, Sealed, Steps \/ UNCHANGED vars PROVE Sealed'
<1>1. CASE WriteHandoff
  <2>1. /\ handoff' = {[target |-> state.target, cursor |-> state.cursor,
                        segments |-> Len(state.segments),
                        idle |-> state.active = NoProcess]}
        /\ state' = state /\ lock' = "FINALIZER" /\ copies' = copies /\ handoff = {}
        /\ state.coverage = "COMPLETE"
    BY <1>1 DEF WriteHandoff, Freezable
  <2>2. CASE state.active = NoProcess
    <3>1. state.life \in {"STOPPED", "FROZEN"}
      BY <2>1, <2>2 DEF Doomed, IInv, Good, Shaped, Consistent, Lives
    <3>2. copies' = {}
      BY <2>1 DEF Backed
    <3> QED BY <2>1, <2>2, <3>1, <3>2 DEF Sealed, HandoffAgrees, Mirrors
  <2>3. CASE state.active # NoProcess
    <3> DEFINE b == state.active = NoProcess
    <3>1. handoff' = {[target |-> state.target, cursor |-> state.cursor,
                       segments |-> Len(state.segments), idle |-> b]}
      BY <2>1
    <3>2. b = FALSE
      BY <2>3
    <3> HIDE DEF b
    <3>3. \A h \in handoff' : ~h.idle
      BY <3>1, <3>2
    <3> QED BY <3>3 DEF Sealed, HandoffAgrees, Mirrors
  <2> QED BY <2>2, <2>3
<1>2. CASE ~WriteHandoff
  <2>1. Settled => Unmoved
    BY <1>2, OutsideUnmoved, LauncherUnmoved, WorkerUnmoved,
       OperatorUnmoved, SMTT(30) DEF Steps
  <2>2. handoff' = handoff
    BY <1>2, HandoffWrites
  <2>3. ASSUME NEW h \in handoff, h.idle
        PROVE  /\ h.target = state'.target /\ h.cursor = state'.cursor
               /\ h.segments = Len(state'.segments) /\ state'.active = NoProcess
               /\ state'.life = "FROZEN" \/ lock' # "FREE"
               /\ state'.life \in {"STOPPED", "FROZEN"}
               /\ \A c \in copies' : Bodily(c, state')
    <3>1. /\ h.target = state.target /\ h.cursor = state.cursor
          /\ h.segments = Len(state.segments) /\ Settled
          /\ \A c \in copies : Bodily(c, state)
      BY <2>3 DEF Sealed, HandoffAgrees, Mirrors, Settled
    <3>2. Bodily(state, state') /\ Settled'
      BY <2>1, <3>1 DEF Unmoved
    <3>3. /\ state'.target = state.target /\ state'.cursor = state.cursor
          /\ state'.segments = state.segments
      BY <3>2 DEF Bodily, Fields
    <3>4. \A c \in copies' : c = state \/ c \in copies
      BY CopiesWrites
    <3>5. \A c \in copies' : Bodily(c, state')
      BY <3>1, <3>2, <3>4 DEF Bodily
    <3> QED BY <3>1, <3>2, <3>3, <3>5 DEF Settled
  <2> QED BY <2>2, <2>3 DEF Sealed, HandoffAgrees, Mirrors, Bodily
<1> QED BY <1>1, <1>2

(* A copy of an idle run that is saved is a step like the adoption itself. *)
LEMMA SealedAdopts ==
    ASSUME IInv, Sealed, NEW c \in copies, AdoptHandoff(c), Good(c),
           NEW h \in handoff, h.idle
    PROVE  Readopt
<1>1. Bodily(c, state) /\ state.life \in {"STOPPED", "FROZEN"}
  BY DEF Sealed, Mirrors
<1>2. DOMAIN state' = Fields /\ state'.life = "FROZEN" /\ Bodily(c, state')
  BY DEF AdoptHandoff, Frozen, Good, Shaped, Fields, Bodily
<1>3. Refrozen(state, state')
  BY <1>1, <1>2 DEF Refrozen, Bodily
<1> QED BY <1>1, <1>3 DEF AdoptHandoff, Readopt
-----------------------------------------------------------------------------
(***************************************************************************)
(* The checks of record_progress fail a run without an exception of its    *)
(* own for one reason only, the stale count of a stop during catch-up.     *)
(* Three more invariants carry it: a segment has one process (Launched),   *)
(* what a worker has read still suits the journal when it is recorded      *)
(* (Reading), and every failure has its excuse (Honest).                   *)
(***************************************************************************)

(* A segment is spawned once, and not owned before its process claims it.  *)
Launched ==
    /\ launcher \in [Launchers -> [at : {"IDLE", "CLEAR", "PREPARE", "SPAWN"}, segment : Nat]]
    /\ \A l \in Launchers : launcher[l].at = "SPAWN" =>
          /\ launcher[l].segment \in DOMAIN state.segments
          /\ launcher[l].segment \in Segments /\ worker[launcher[l].segment] = "GONE"
          /\ ~Owned(state, launcher[l].segment)
    /\ \A l, m \in Launchers :
          launcher[l].at = "SPAWN" /\ launcher[m].at = "SPAWN" /\ l # m
              => launcher[l].segment # launcher[m].segment
    /\ \A k \in Segments : worker[k] # "GONE" => k \in DOMAIN state.segments
    /\ \A k \in Segments : worker[k] = "SPAWNED" => ~Owned(state, k)

(* What a worker at a place has read is not behind the journal.            *)
ReadsAt(pc) ==
    /\ pc \in {"MAIN", "MAIN_RECORD", "CATCHUP_STOP", "FINAL_RECORD"} =>
          state.mark <= seen.mark
    /\ pc \in {"CATCHUP_STOP", "FINAL_RECORD"} => paper.cursor <= seen.mark
    /\ pc \in {"CATCHUP_DRAIN", "CATCHUP_STOP"} => seen.count = state.count
    /\ pc \in {"CATCHUP", "CATCHUP_RECORD", "CATCHUP_DRAIN", "CATCHUP_STOP",
               "FINAL", "FINAL_RECORD"} => ~seen.failed

Reading ==
    /\ state.count \in Nat /\ state.count <= state.cursor
    /\ state.mark <= source.rows /\ seen.mark <= source.rows
    /\ \A k \in Segments : ReadsAt(worker[k])

Excused == faults > 0 \/ state.count < state.cursor

Locks == {"FREE", "FINALIZER", "STUCK"}

(* A worker that fails because a dead process left the lock behind cannot  *)
(* record its failure.                                                     *)
Honest ==
    /\ faults \in Nat /\ lock \in Locks
    /\ state.life = "INVALID" => Excused
    /\ \A k \in Segments :
          worker[k] \in {"ENDING", "CLOSING"} /\ seen.failed => Excused \/ lock = "STUCK"
    /\ lock = "FINALIZER" => \A k \in Segments : worker[k] \in {"GONE", "SPAWNED"}

Progress == Launched /\ Reading /\ Honest
-----------------------------------------------------------------------------
LEMMA MaxOfTwoIs ==
    ASSUME NEW a \in Nat, NEW b \in Nat
    PROVE  Max({a, b}) = IF a >= b THEN a ELSE b
<1>1. CASE a >= b
  <2>1. a \in {a, b} /\ \A y \in {a, b} : a >= y
    BY <1>1
  <2>2. \A x \in {a, b} : (\A y \in {a, b} : x >= y) => x = a
    BY <1>1
  <2> QED BY <1>1, <2>1, <2>2 DEF Max
<1>2. CASE ~(a >= b)
  <2>1. b \in {a, b} /\ \A y \in {a, b} : b >= y
    BY <1>2
  <2>2. \A x \in {a, b} : (\A y \in {a, b} : x >= y) => x = b
    BY <1>2
  <2> QED BY <1>2, <2>1, <2>2 DEF Max
<1> QED BY <1>1, <1>2

(* A journal that at most loses its process: numbers, number of segments.  *)
Alike(s, t) ==
    /\ t.cursor = s.cursor /\ t.mark = s.mark /\ t.count = s.count
    /\ DOMAIN t.segments = DOMAIN s.segments
    /\ \/ t.active.own = s.active.own /\ t.active.segment = s.active.segment
       \/ t.active = NoProcess

LEMMA ClosedAlike ==
    ASSUME NEW s, Good(s), NEW life
    PROVE  Alike(s, Closed(s, life)) /\ Closed(s, life).life = life
BY DEF Closed, Good, Shaped, Fields, Alike

LEMMA FailedAlike ==
    ASSUME NEW s, Good(s), NEW t,
           t = [Closed(s, "INVALID") EXCEPT !.coverage = "OOS_INCOMPLETE"]
    PROVE  Alike(s, t) /\ t.life = "INVALID"
<1> DEFINE c == Closed(s, "INVALID")
<1>1. Alike(s, c) /\ c.life = "INVALID" /\ DOMAIN c = Fields
  BY ClosedAlike DEF Closed, Good, Shaped
<1>2. t = [c EXCEPT !.coverage = "OOS_INCOMPLETE"]
  OBVIOUS
<1> HIDE DEF c
<1>3. /\ t.cursor = c.cursor /\ t.mark = c.mark /\ t.count = c.count
      /\ t.segments = c.segments /\ t.active = c.active /\ t.life = c.life
  BY <1>1, <1>2 DEF Fields
<1> QED BY <1>1, <1>3 DEF Alike

LEMMA RewrittenAlike ==
    ASSUME NEW s, Good(s)
    PROVE  /\ Alike(s, Reconciled(s))
           /\ Reconciled(s).life \in {s.life, "STOPPED"}
           /\ \A k, m : Alike(s, FailedStartup(s, k, m))
           /\ \A k, m : \/ FailedStartup(s, k, m).life \in {s.life, "STOPPED"}
                        \/ Owned(s, k) /\ m
<1>1. Alike(s, s)
  BY DEF Alike
<1>2. Alike(s, Closed(s, "STOPPED")) /\ Closed(s, "STOPPED").life = "STOPPED"
  BY ClosedAlike
<1>3. ASSUME NEW k, NEW m
      PROVE  /\ Alike(s, FailedStartup(s, k, m))
             /\ \/ FailedStartup(s, k, m).life \in {s.life, "STOPPED"}
                \/ Owned(s, k) /\ m
  <2> DEFINE t == FailedStartup(s, k, m)
  <2>1. \/ t = s \/ t = Closed(s, "STOPPED")
        \/ Owned(s, k) /\ m /\ t = [Closed(s, "INVALID") EXCEPT !.coverage = "OOS_INCOMPLETE"]
    BY DEF FailedStartup
  <2> HIDE DEF t
  <2>2. Alike(s, t) /\ (t.life \in {s.life, "STOPPED"} \/ (Owned(s, k) /\ m))
    BY <1>1, <1>2, <2>1, FailedAlike
  <2> QED BY <2>2 DEF t
<1>4. Reconciled(s) = s \/ Reconciled(s) = Closed(s, "STOPPED")
  BY DEF Reconciled
<1> QED BY <1>1, <1>2, <1>3, <1>4
-----------------------------------------------------------------------------
(* What everybody but the worker past its claim leaves alone.              *)
Steady ==
    /\ paper' = paper /\ seen' = seen
    /\ source'.rows \in Nat /\ source.rows <= source'.rows
    /\ state'.cursor = state.cursor /\ state'.mark = state.mark
    /\ state'.count = state.count
    /\ faults' \in Nat /\ faults <= faults'
    /\ \A k \in Segments : worker'[k] = worker[k] \/ worker'[k] \in {"GONE", "SPAWNED"}
    /\ state'.life = "INVALID" => state.life = "INVALID" \/ faults' > 0
    /\ lock' \in Locks /\ (lock = "STUCK" => lock' = "STUCK")
    /\ lock' = "FINALIZER" =>
          lock = "FINALIZER" \/ \A k \in Segments : worker[k] \in {"GONE", "SPAWNED"}

LEMMA SteadyKeeps ==
    ASSUME IInv, Reading, Honest, Steady PROVE Reading' /\ Honest'
<1>1. Excused => Excused'
  BY DEF Steady, Excused, Honest
<1>2. Honest'
  BY <1>1 DEF Steady, Honest, Excused
<1>3. ASSUME NEW k \in Segments PROVE ReadsAt(worker[k])'
  <2>1. ReadsAt(worker[k])
    BY DEF Reading
  <2>2. CASE worker'[k] = worker[k]
    BY <2>1, <2>2 DEF Steady, ReadsAt
  <2>3. CASE worker'[k] \in {"GONE", "SPAWNED"}
    BY <2>3 DEF ReadsAt
  <2> QED BY <2>2, <2>3 DEF Steady
<1>4. Reading'
  <2>1. state'.mark <= source'.rows /\ seen'.mark <= source'.rows
    BY DEF Steady, Reading, IInv, Held, Good, Shaped
  <2>2. state'.count \in Nat /\ state'.count <= state'.cursor
    BY DEF Steady, Reading
  <2> QED BY <1>3, <2>1, <2>2 DEF Reading
<1> QED BY <1>2, <1>4

(* The one process past its claim moves: only its own place matters.       *)
LEMMA OwnKeeps ==
    ASSUME NEW k \in Segments, NEW pc, worker \in [Segments -> Places],
           \A j \in Segments : j # k => worker[j] \in {"GONE", "SPAWNED"},
           worker' = [worker EXCEPT ![k] = pc],
           state'.count \in Nat, state'.count <= state'.cursor,
           state'.mark <= source'.rows, seen'.mark <= source'.rows,
           ReadsAt(pc)', faults' \in Nat,
           state'.life = "INVALID" => Excused',
           pc \in {"ENDING", "CLOSING"} /\ seen'.failed => Excused' \/ lock' = "STUCK",
           lock' \in {"FREE", "STUCK"}
    PROVE  Reading' /\ Honest'
<1>1. worker'[k] = pc /\ \A j \in Segments : j # k => worker'[j] \in {"GONE", "SPAWNED"}
  OBVIOUS
<1>2. ASSUME NEW j \in Segments PROVE ReadsAt(worker[j])'
  <2>1. CASE j = k
    BY <1>1, <2>1 DEF ReadsAt
  <2>2. CASE j # k
    BY <1>1, <2>2 DEF ReadsAt
  <2> QED BY <2>1, <2>2
<1>3. ASSUME NEW j \in Segments, worker'[j] \in {"ENDING", "CLOSING"}, seen'.failed
      PROVE  Excused' \/ lock' = "STUCK"
  BY <1>1, <1>3
<1> QED BY <1>2, <1>3 DEF Reading, Honest, Locks

(* No segment is appended, spawned or claimed.                             *)
LEMMA LaunchedKept ==
    ASSUME Launched,
           launcher' \in [Launchers -> [at : {"IDLE", "CLEAR", "PREPARE", "SPAWN"}, segment : Nat]],
           \A l \in Launchers : launcher'[l] = launcher[l] \/ launcher'[l].at # "SPAWN",
           DOMAIN state'.segments = DOMAIN state.segments,
           state'.active.own = "OWNED" => /\ state.active.own = "OWNED"
                                          /\ state'.active.segment = state.active.segment,
           \A k \in Segments : \/ worker'[k] = worker[k] \/ worker'[k] = "GONE"
                               \/ /\ worker[k] \notin {"GONE", "SPAWNED"}
                                  /\ worker'[k] # "SPAWNED"
    PROVE  Launched'
<1>1. \A k : Owned(state, k)' => Owned(state, k)
  BY DEF Owned
<1>2. ASSUME NEW l \in Launchers, launcher'[l].at = "SPAWN"
      PROVE  /\ launcher'[l].segment \in DOMAIN state'.segments
             /\ launcher'[l].segment \in Segments
             /\ worker'[launcher'[l].segment] = "GONE"
             /\ ~Owned(state, launcher[l].segment)'
  BY <1>1, <1>2 DEF Launched
<1>3. \A k \in Segments : worker'[k] # "GONE" => k \in DOMAIN state'.segments
  BY DEF Launched
<1>4. \A k \in Segments : worker'[k] = "SPAWNED" => ~Owned(state, k)'
  BY <1>1 DEF Launched
<1>5. \A l, m \in Launchers :
          launcher'[l].at = "SPAWN" /\ launcher'[m].at = "SPAWN" /\ l # m
              => launcher'[l].segment # launcher'[m].segment
  BY DEF Launched
<1> QED BY <1>2, <1>3, <1>4, <1>5 DEF Launched
-----------------------------------------------------------------------------
(* Everybody but the workers.                                              *)
LEMMA OutsideProgress ==
    ASSUME IInv, Progress,
           \/ World \/ ClaimDeadline \/ WaiterDies \/ GiveUp \/ Commands \/ FinalizerDies
    PROVE  Progress'
<1>1. /\ paper' = paper /\ seen' = seen /\ launcher' = launcher
      /\ faults' = faults
  BY DEF World, Tick, InsertRow, OpenGap, ResolveGap, ClaimDeadline, WaiterDies, GiveUp,
         Commands, Status, RequestStop, Extend, WriteHandoff, Freeze, ReadForAdoption,
         Readopt, FinalizerDies, world, files, procs
<1>2. source'.rows \in Nat /\ source.rows <= source'.rows
  <2>1. CASE InsertRow
    <3> DEFINE a == Max({Start, now})
    <3>1. source' = [source EXCEPT !.rows = @ + 1, !.activity = a]
      BY <2>1 DEF InsertRow
    <3> HIDE DEF a
    <3> QED BY <3>1 DEF IInv, Held
  <2>2. CASE ~InsertRow
    <3>1. source' = source \/ source' = [source EXCEPT !.gap = TRUE]
          \/ source' = [source EXCEPT !.gap = FALSE]
      BY <2>2
      DEF World, Tick, OpenGap, ResolveGap, ClaimDeadline, WaiterDies, GiveUp, Commands,
          Status, RequestStop, Extend, WriteHandoff, Freeze, ReadForAdoption, Readopt,
          FinalizerDies, world
    <3> QED BY <3>1 DEF IInv, Held
  <2> QED BY <2>1, <2>2
<1>3. Alike(state, state') /\ (state'.life = "INVALID" => state.life = "INVALID")
  <2>1. \/ state' = state \/ state' = Reconciled(state)
        \/ state' = FailedStartup(state, state.active.segment, FALSE)
        \/ state' = [state EXCEPT !.active.late = TRUE]
        \/ state' = [state EXCEPT !.active.awaited = FALSE]
        \/ state' = [state EXCEPT !.life = "FROZEN"] \/ Refrozen(state, state')
        \/ state' = [state EXCEPT !.target = @ + 1, !.coverage = "COLLECTING"]
    BY DEF World, Tick, InsertRow, OpenGap, ResolveGap, ClaimDeadline, WaiterDies, GiveUp,
           Commands, Status, RequestStop, Extend, WriteHandoff, Freeze, ReadForAdoption,
           Readopt, FinalizerDies, files
  <2>2. CASE \/ state' = Reconciled(state)
             \/ state' = FailedStartup(state, state.active.segment, FALSE)
    BY <2>2, RewrittenAlike DEF IInv
  <2>3. CASE \/ state' = [state EXCEPT !.active.late = TRUE]
             \/ state' = [state EXCEPT !.active.awaited = FALSE]
    <3>1. \/ state'.active = [state.active EXCEPT !.late = TRUE]
          \/ state'.active = [state.active EXCEPT !.awaited = FALSE]
      BY <2>3 DEF IInv, Good, Shaped, Fields
    <3>2. /\ state'.active.own = state.active.own
          /\ state'.active.segment = state.active.segment
      BY <3>1 DEF IInv, Good, Shaped, Actives
    <3> QED BY <2>3, <3>2 DEF IInv, Good, Shaped, Fields, Alike
  <2>4. CASE \/ state' = [state EXCEPT !.life = "FROZEN"]
             \/ state' = [state EXCEPT !.target = @ + 1, !.coverage = "COLLECTING"]
    BY <2>4 DEF IInv, Good, Shaped, Fields, Alike
  <2>5. CASE state' = state
    BY <2>5 DEF Alike
  <2>6. CASE Refrozen(state, state')
    BY <2>6 DEF Refrozen, Fields, Alike
  <2> QED BY <2>1, <2>2, <2>3, <2>4, <2>5, <2>6
<1>4. \A k \in Segments : worker'[k] = worker[k] \/ worker'[k] = "GONE"
  BY DEF World, Tick, InsertRow, OpenGap, ResolveGap, ClaimDeadline, WaiterDies, GiveUp,
         Commands, Status, RequestStop, Extend, WriteHandoff, Freeze, ReadForAdoption,
         Readopt, FinalizerDies, world, files, procs, IInv, Held
<1>5. /\ lock' \in Locks /\ (lock = "STUCK" => lock' = "STUCK")
      /\ lock' = "FINALIZER" =>
            lock = "FINALIZER" \/ \A k \in Segments : worker[k] \in {"GONE", "SPAWNED"}
  <2>1. CASE WriteHandoff
    <3>1. ~(state.active.own = "OWNED" /\ Live(state.active.segment)) /\ lock = "FREE"
      BY <2>1 DEF WriteHandoff, Freezable
    <3> QED BY <2>1, <3>1 DEF WriteHandoff, IInv, Sole, Owned, Live, Locks
  <2>2. CASE ~WriteHandoff
    <3>1. lock' = lock \/ (lock = "FINALIZER" /\ lock' \in {"FREE", "STUCK"})
      BY <2>2
      DEF World, Tick, InsertRow, OpenGap, ResolveGap, ClaimDeadline, WaiterDies, GiveUp,
          Commands, Status, RequestStop, Extend, Freeze, ReadForAdoption, Readopt,
          FinalizerDies, files
    <3> QED BY <3>1 DEF Progress, Honest, Locks
  <2> QED BY <2>1, <2>2
<1>6. Steady
  BY <1>1, <1>2, <1>3, <1>4, <1>5 DEF Steady, Alike, Progress, Honest
<1>7. Launched'
  <2>1. state'.active.own = "OWNED" => /\ state.active.own = "OWNED"
                                       /\ state'.active.segment = state.active.segment
    BY <1>3 DEF Alike, NoProcess
  <2> QED BY <1>1, <1>3, <1>4, <2>1, LaunchedKept DEF Alike, Progress, Launched
<1> QED BY <1>6, <1>7, SteadyKeeps DEF Progress

LEMMA LauncherSteady ==
    ASSUME IInv, Progress, NEW l \in Launchers,
           Resume(l) \/ Launching(l) \/ SpawnFails(l) \/ LauncherDies(l)
    PROVE  Reading' /\ Honest'
<1>1. UNCHANGED <<source, paper, seen>> /\ (faults' = faults \/ faults' = faults + 1)
  BY DEF Resume, Launching, ClearStop, PrepareSegment, Spawn, LauncherBlocked, SpawnFails,
         LauncherDies, world
<1>2. \A k \in Segments : worker'[k] = worker[k] \/ worker'[k] = "SPAWNED"
  BY DEF Resume, Launching, ClearStop, PrepareSegment, Spawn, LauncherBlocked, SpawnFails,
         LauncherDies, IInv, Held
<1>3. /\ state'.cursor = state.cursor /\ state'.mark = state.mark
      /\ state'.count = state.count
      /\ state'.life = "INVALID" => state.life = "INVALID"
  <2>1. CASE Resume(l) \/ SpawnFails(l)
    <3>1. \/ state' = Reconciled(state)
          \/ state' = FailedStartup(state, launcher[l].segment, FALSE)
      BY <2>1 DEF Resume, SpawnFails
    <3>2. Alike(state, state') /\ (state'.life = "INVALID" => state.life = "INVALID")
      BY <3>1, RewrittenAlike DEF IInv
    <3> QED BY <3>2 DEF Alike
  <2>2. CASE PrepareSegment(l)
    <3>1. \/ state' = state
          \/ \E a, g : state' = [state EXCEPT !.life = "ACTIVE", !.segments = g, !.active = a]
      BY <2>2 DEF PrepareSegment
    <3> QED BY <3>1 DEF IInv, Good, Shaped, Fields
  <2>3. CASE Spawn(l)
    <3> DEFINE b == state.active.awaited \/ Pending(state, launcher[l].segment)
    <3>1. state' = [state EXCEPT !.active.awaited = b]
      BY <2>3 DEF Spawn
    <3> HIDE DEF b
    <3> QED BY <3>1 DEF IInv, Good, Shaped, Fields
  <2>4. CASE ClearStop(l) \/ LauncherBlocked(l) \/ LauncherDies(l)
    BY <2>4 DEF ClearStop, LauncherBlocked, LauncherDies, files
  <2> QED BY <2>1, <2>2, <2>3, <2>4 DEF Launching
<1>4. faults' \in Nat /\ faults <= faults'
  BY <1>1 DEF Progress, Honest
<1>5. lock' = lock \/ (lock = "FREE" /\ lock' = "STUCK")
  BY DEF Resume, Launching, ClearStop, PrepareSegment, Spawn, SpawnFails, LauncherBlocked,
         LauncherDies, files
<1>6. Steady
  BY <1>1, <1>2, <1>3, <1>4, <1>5 DEF Steady, IInv, Held, Progress, Honest, Locks
<1> QED BY <1>6, SteadyKeeps DEF Progress

LEMMA IdleLaunched ==
    ASSUME IInv, Progress, NEW l \in Launchers,
           Resume(l) \/ ClearStop(l) \/ LauncherBlocked(l) \/ SpawnFails(l) \/ LauncherDies(l)
    PROVE  Launched'
<1>1. worker' = worker
  BY DEF Resume, ClearStop, LauncherBlocked, SpawnFails, LauncherDies
<1>2. \/ launcher' = [launcher EXCEPT ![l] = [at |-> "PREPARE", segment |-> 0]]
      \/ launcher' = [launcher EXCEPT ![l] = [at |-> "CLEAR", segment |-> 0]]
      \/ launcher' = [launcher EXCEPT ![l] = [at |-> "IDLE", segment |-> 0]]
  BY DEF Resume, ClearStop, LauncherBlocked, SpawnFails, LauncherDies, Idle
<1>3. Alike(state, state')
  <2>1. \/ state' = Reconciled(state) \/ state' = state
        \/ state' = FailedStartup(state, launcher[l].segment, FALSE)
    BY DEF Resume, ClearStop, LauncherBlocked, SpawnFails, LauncherDies, files
  <2>2. Alike(state, state)
    BY DEF Alike
  <2> QED BY <2>1, <2>2, RewrittenAlike DEF IInv
<1>4. state'.active.own = "OWNED" => /\ state.active.own = "OWNED"
                                     /\ state'.active.segment = state.active.segment
  BY <1>3 DEF Alike, NoProcess
<1>5. /\ launcher' \in [Launchers -> [at : {"IDLE", "CLEAR", "PREPARE", "SPAWN"}, segment : Nat]]
      /\ \A m \in Launchers : launcher'[m] = launcher[m] \/ launcher'[m].at # "SPAWN"
  BY <1>2 DEF Progress, Launched
<1> QED BY <1>1, <1>3, <1>4, <1>5, LaunchedKept DEF Alike, Progress

LEMMA PrepareLaunched ==
    ASSUME IInv, Progress, NEW l \in Launchers, PrepareSegment(l) PROVE Launched'
<1>1. worker' = worker
  BY DEF PrepareSegment
<1>2. CASE ~MayPrepare(state)
  <2>1. state' = state /\ launcher' = [launcher EXCEPT ![l] = [at |-> "IDLE", segment |-> 0]]
    BY <1>2 DEF PrepareSegment, Idle
  <2>2. /\ launcher' \in [Launchers -> [at : {"IDLE", "CLEAR", "PREPARE", "SPAWN"}, segment : Nat]]
        /\ \A m \in Launchers : launcher'[m] = launcher[m] \/ launcher'[m].at # "SPAWN"
    BY <2>1 DEF Progress, Launched
  <2> QED BY <1>1, <2>1, <2>2, LaunchedKept DEF Progress
<1>3. CASE MayPrepare(state)
  <2> DEFINE n == Len(state.segments)
             a == [segment |-> n + 1, own |-> "PENDING", late |-> FALSE, awaited |-> FALSE]
  <2>1. /\ state' = [state EXCEPT !.life = "ACTIVE",
                       !.segments = Append(@, "PENDING"), !.active = a]
        /\ launcher' = [launcher EXCEPT ![l] = [at |-> "SPAWN", segment |-> n + 1]]
        /\ n < MaxSegments
    BY <1>3 DEF PrepareSegment, MayPrepare
  <2>2. /\ state'.segments = Append(state.segments, "PENDING")
        /\ state'.active = a
    BY <2>1 DEF IInv, Good, Shaped, Fields
  <2>3. state.segments \in Seq(Ends) /\ "PENDING" \in Ends
    BY DEF IInv, Good, Shaped, Ends
  <2>4. /\ DOMAIN state.segments = 1 .. n /\ n \in Nat
        /\ DOMAIN state'.segments = 1 .. n + 1
    BY <2>2, <2>3
  <2>5. \A k : ~Owned(state, k)'
    BY <2>2 DEF Owned
  <2> HIDE DEF n, a
  <2>6. n + 1 \in Segments /\ n + 1 \notin DOMAIN state.segments
    BY <2>1, <2>4, BoundAssumption DEF Segments
  <2>7. worker[n + 1] = "GONE"
    BY <2>6 DEF Progress, Launched
  <2>8. launcher' \in [Launchers -> [at : {"IDLE", "CLEAR", "PREPARE", "SPAWN"}, segment : Nat]]
    BY <2>1, <2>4 DEF Progress, Launched
  <2>9. ASSUME NEW m \in Launchers, launcher'[m].at = "SPAWN"
        PROVE  /\ launcher'[m].segment \in DOMAIN state'.segments
               /\ launcher'[m].segment \in Segments
               /\ worker'[launcher'[m].segment] = "GONE"
    <3>1. CASE m = l
      BY <1>1, <2>1, <2>4, <2>6, <2>7, <3>1 DEF Progress, Launched
    <3>2. CASE m # l
      BY <1>1, <2>1, <2>4, <2>9, <3>2 DEF Progress, Launched
    <3> QED BY <3>1, <3>2
  <2>10. ASSUME NEW m \in Launchers, NEW o \in Launchers, m # o,
                launcher'[m].at = "SPAWN", launcher'[o].at = "SPAWN"
         PROVE  launcher'[m].segment # launcher'[o].segment
    BY <2>1, <2>6, <2>10 DEF Progress, Launched
  <2>11. \A k \in Segments : worker'[k] # "GONE" => k \in DOMAIN state'.segments
    BY <1>1, <2>4 DEF Progress, Launched
  <2> QED BY <2>5, <2>8, <2>9, <2>10, <2>11 DEF Launched
<1> QED BY <1>2, <1>3

LEMMA SpawnLaunched ==
    ASSUME IInv, Progress, NEW l \in Launchers, Spawn(l) PROVE Launched'
<1> DEFINE k == launcher[l].segment
           b == state.active.awaited \/ Pending(state, k)
<1>1. /\ launcher[l].at = "SPAWN" /\ worker' = [worker EXCEPT ![k] = "SPAWNED"]
      /\ launcher' = [launcher EXCEPT ![l] = [at |-> "IDLE", segment |-> 0]]
      /\ state' = [state EXCEPT !.active.awaited = b]
  BY DEF Spawn, Idle
<1> HIDE DEF b
<1>2. /\ state'.segments = state.segments
      /\ state'.active.own = state.active.own
      /\ state'.active.segment = state.active.segment
  BY <1>1 DEF IInv, Good, Shaped, Fields, Actives
<1>3. k \in DOMAIN state.segments /\ k \in Segments /\ ~Owned(state, k)
  BY <1>1 DEF Progress, Launched
<1>4. \A j : Owned(state, j)' <=> Owned(state, j)
  BY <1>2 DEF Owned
<1>5. \A m \in Launchers : m # l /\ launcher[m].at = "SPAWN" => launcher[m].segment # k
  BY <1>1 DEF Progress, Launched
<1> HIDE DEF k
<1>6. worker \in [Segments -> Places]
  BY DEF IInv, Held
<1>7. launcher' \in [Launchers -> [at : {"IDLE", "CLEAR", "PREPARE", "SPAWN"}, segment : Nat]]
  BY <1>1 DEF Progress, Launched
<1>8. ASSUME NEW m \in Launchers, launcher'[m].at = "SPAWN"
      PROVE  /\ m # l /\ launcher'[m] = launcher[m]
             /\ launcher'[m].segment \in DOMAIN state'.segments
             /\ launcher'[m].segment \in Segments
             /\ worker'[launcher'[m].segment] = "GONE"
             /\ ~Owned(state, launcher[m].segment)'
  <2>1. m # l /\ launcher'[m] = launcher[m]
    BY <1>1, <1>8 DEF Progress, Launched
  <2> QED BY <1>1, <1>2, <1>4, <1>5, <1>6, <1>8, <2>1 DEF Progress, Launched
<1>9. \A m, o \in Launchers :
          launcher'[m].at = "SPAWN" /\ launcher'[o].at = "SPAWN" /\ m # o
              => launcher'[m].segment # launcher'[o].segment
  BY <1>8 DEF Progress, Launched
<1>10. \A j \in Segments : worker'[j] # "GONE" => j \in DOMAIN state'.segments
  BY <1>1, <1>2, <1>3, <1>6 DEF Progress, Launched
<1>11. \A j \in Segments : worker'[j] = "SPAWNED" => ~Owned(state, j)'
  BY <1>1, <1>3, <1>4, <1>6 DEF Progress, Launched
<1> QED BY <1>7, <1>8, <1>9, <1>10, <1>11 DEF Launched

LEMMA LauncherProgress ==
    ASSUME IInv, Progress, NEW l \in Launchers,
           Resume(l) \/ Launching(l) \/ SpawnFails(l) \/ LauncherDies(l)
    PROVE  Progress'
<1>1. Launched'
  BY IdleLaunched, PrepareLaunched, SpawnLaunched DEF Launching
<1> QED BY <1>1, LauncherSteady DEF Progress
-----------------------------------------------------------------------------
(* The workers.                                                            *)
LEMMA OnlyOne ==
    ASSUME IInv, Progress, NEW k \in Segments, worker[k] \notin {"GONE", "SPAWNED"}
    PROVE  /\ Owned(state, k) /\ worker \in [Segments -> Places]
           /\ \A j \in Segments : j # k => worker[j] \in {"GONE", "SPAWNED"}
           /\ lock \in {"FREE", "STUCK"}
BY DEF IInv, Held, Sole, Owned, Progress, Honest, Locks

(* Away from the claim the launchers' view of the segments stays.          *)
LEMMA WorkerLaunched ==
    ASSUME IInv, Progress, NEW k \in Segments,
           Working(k) \/ OpenFails(k) \/ WorkerFails(k) \/ Killed(k), ~ClaimSegment(k)
    PROVE  Launched'
<1>1. launcher' = launcher
  BY DEF Working, ClaimRejected, Open, StopWhileArmed, SeeCatchUp, SeeEnd, SeeRows, Turn,
         MainWork, RecordMain, CatchUpWork, RecordCatchUp, DrainCatchUp, RecordCatchUpStop,
         DrainFinal, RecordFinal, Record, Drain, RemoveStop, EndSegment, WorkerBlocked,
         OpenFails, WorkerFails, Killed
<1>2. \E pc : worker' = [worker EXCEPT ![k] = pc] /\ pc # "SPAWNED"
                /\ (worker[k] \notin {"GONE", "SPAWNED"} \/ pc = "GONE")
  BY DEF Working, ClaimRejected, Open, StopWhileArmed, SeeCatchUp, SeeEnd, SeeRows, Turn,
         MainWork, RecordMain, CatchUpWork, RecordCatchUp, DrainCatchUp, RecordCatchUpStop,
         DrainFinal, RecordFinal, Record, Drain, RemoveStop, EndSegment, WorkerBlocked,
         Recording, Locking, OpenFails, WorkerFails, Killed, Goes
<1>3. \A j \in Segments : \/ worker'[j] = worker[j] \/ worker'[j] = "GONE"
                          \/ /\ worker[j] \notin {"GONE", "SPAWNED"}
                             /\ worker'[j] # "SPAWNED"
  BY <1>2 DEF IInv, Held
<1>4. \/ state' = state \/ state' = FailedStartup(state, k, TRUE)
      \/ \E p : state' = Recorded(state, p)
      \/ \E life : state' = Closed(state, life)
      \/ state' = [Closed(state, "INVALID") EXCEPT !.coverage = "OOS_INCOMPLETE"]
  BY DEF Working, ClaimRejected, Open, StopWhileArmed, SeeCatchUp, SeeEnd, SeeRows, Turn,
         MainWork, RecordMain, CatchUpWork, RecordCatchUp, DrainCatchUp, RecordCatchUpStop,
         DrainFinal, RecordFinal, Record, Drain, RemoveStop, EndSegment, WorkerBlocked,
         OpenFails, WorkerFails, Killed, files
<1>5. /\ DOMAIN state'.segments = DOMAIN state.segments
      /\ \/ state'.active.own = state.active.own
            /\ state'.active.segment = state.active.segment
         \/ state'.active = NoProcess
  <2>1. CASE \E p : state' = Recorded(state, p)
    BY <2>1 DEF Recorded, IInv, Good, Shaped, Fields
  <2>2. CASE ~\E p : state' = Recorded(state, p)
    <3>1. Alike(state, state)
      BY DEF Alike
    <3>2. ASSUME NEW life, state' = Closed(state, life) PROVE Alike(state, state')
      BY <3>2, ClosedAlike DEF IInv
    <3>3. state' = FailedStartup(state, k, TRUE) => Alike(state, state')
      BY RewrittenAlike DEF IInv
    <3>4. state' = [Closed(state, "INVALID") EXCEPT !.coverage = "OOS_INCOMPLETE"]
            => Alike(state, state')
      BY FailedAlike DEF IInv
    <3>5. Alike(state, state')
      BY <1>4, <2>2, <3>1, <3>2, <3>3, <3>4
    <3> QED BY <3>5 DEF Alike
  <2> QED BY <2>1, <2>2
<1>6. state'.active.own = "OWNED" => /\ state.active.own = "OWNED"
                                     /\ state'.active.segment = state.active.segment
  BY <1>5 DEF NoProcess
<1> QED BY <1>1, <1>3, <1>5, <1>6, LaunchedKept DEF Progress, Launched

LEMMA ClaimProgress ==
    ASSUME IInv, Progress, NEW k \in Segments, ClaimSegment(k) PROVE Progress'
<1>1. /\ worker[k] = "SPAWNED" /\ worker' = [worker EXCEPT ![k] = "CLAIMED"]
      /\ UNCHANGED <<paper, source, launcher, faults>> /\ seen' = Unread
      /\ Pending(state, k)
  BY DEF ClaimSegment, Goes, world
<1>2. /\ state'.life = state.life /\ state'.cursor = state.cursor
      /\ state'.mark = state.mark /\ state'.count = state.count
      /\ state'.active = [state.active EXCEPT !.own = "OWNED", !.awaited = FALSE]
      /\ state'.segments = [state.segments EXCEPT ![k] = "OWNED"]
  BY DEF ClaimSegment, IInv, Good, Shaped, Fields
<1>3. \A j : Owned(state, j)' => j = k
  BY <1>1, <1>2 DEF Owned, Pending, IInv, Good, Shaped, Actives
<1>4. DOMAIN state'.segments = DOMAIN state.segments
  BY <1>2
<1>5. worker \in [Segments -> Places]
  BY DEF IInv, Held
<1>6. Launched'
  <2>1. \A l \in Launchers : launcher[l].at = "SPAWN" => launcher[l].segment # k
    BY <1>1 DEF Progress, Launched
  <2>2. \A l \in Launchers : launcher[l].at = "SPAWN" =>
            /\ launcher[l].segment \in DOMAIN state'.segments
            /\ launcher[l].segment \in Segments
            /\ worker'[launcher[l].segment] = "GONE"
            /\ ~Owned(state, launcher[l].segment)'
    BY <1>1, <1>3, <1>4, <1>5, <2>1 DEF Progress, Launched
  <2>3. \A j \in Segments : worker'[j] # "GONE" => j \in DOMAIN state'.segments
    BY <1>1, <1>4, <1>5 DEF Progress, Launched
  <2>4. \A j \in Segments : worker'[j] = "SPAWNED" => ~Owned(state, j)'
    BY <1>1, <1>3, <1>5
  <2> QED BY <1>1, <2>2, <2>3, <2>4 DEF Progress, Launched
<1>7. \A j \in Segments : worker[j] \in {"GONE", "SPAWNED"}
  BY <1>1 DEF IInv, Sole, Owned, Pending
<1>8. seen'.mark = 0 /\ ReadsAt("CLAIMED")' /\ source.rows \in Nat
  BY <1>1 DEF Unread, ReadsAt, IInv, Held
<1>9. Reading' /\ Honest'
  <2>1. /\ state'.count \in Nat /\ state'.count <= state'.cursor
        /\ state'.mark <= source'.rows /\ seen'.mark <= source'.rows
    BY <1>1, <1>2, <1>8 DEF Progress, Reading
  <2>2. faults' \in Nat /\ (state'.life = "INVALID" => Excused')
    BY <1>1, <1>2 DEF Progress, Honest, Excused
  <2>3. lock' = "FREE"
    BY DEF ClaimSegment
  <2> QED BY <1>1, <1>5, <1>7, <1>8, <2>1, <2>2, <2>3, OwnKeeps
<1> QED BY <1>6, <1>9 DEF Progress

LEMMA RefusedReading ==
    ASSUME IInv, Progress, NEW k \in Segments, ClaimRejected(k) \/ OpenFails(k)
    PROVE  Reading' /\ Honest'
<1>1. /\ UNCHANGED <<source, paper, seen>>
      /\ state' = FailedStartup(state, k, TRUE)
      /\ worker' = [worker EXCEPT ![k] = "GONE"]
      /\ \/ faults' = faults /\ worker[k] = "SPAWNED"
         \/ faults' = faults + 1
  BY DEF ClaimRejected, OpenFails, Goes, world
<1>2. Alike(state, state')
  BY <1>1, RewrittenAlike DEF IInv
<1>3. state'.life = "INVALID" => state.life = "INVALID" \/ faults' > 0
  <2>1. CASE worker[k] = "SPAWNED" /\ faults' = faults
    <3>1. ~Owned(state, k)
      BY <2>1 DEF Progress, Launched
    <3>2. FailedStartup(state, k, TRUE).life \in {state.life, "STOPPED"}
      BY <3>1, RewrittenAlike DEF IInv
    <3> QED BY <1>1, <3>2
  <2>2. CASE faults' = faults + 1
    BY <2>2 DEF Progress, Honest
  <2> QED BY <1>1, <2>1, <2>2
<1>4. faults' \in Nat /\ faults <= faults'
  BY <1>1 DEF Progress, Honest
<1>5. \A j \in Segments : worker'[j] = worker[j] \/ worker'[j] \in {"GONE", "SPAWNED"}
  BY <1>1 DEF IInv, Held
<1>6. /\ paper' = paper /\ seen' = seen
      /\ source'.rows \in Nat /\ source.rows <= source'.rows
  BY <1>1 DEF IInv, Held
<1>7. /\ state'.cursor = state.cursor /\ state'.mark = state.mark
      /\ state'.count = state.count
  BY <1>2 DEF Alike
<1>8. lock' = lock
  BY DEF ClaimRejected, OpenFails
<1>9. Steady
  BY <1>3, <1>4, <1>5, <1>6, <1>7, <1>8 DEF Steady, Progress, Honest
<1> QED BY <1>9, SteadyKeeps DEF Progress

(* The journal and the paper database stay.                                *)
LEMMA QuietReading ==
    ASSUME IInv, Progress, NEW k \in Segments,
           \/ Open(k) \/ StopWhileArmed(k) \/ SeeCatchUp(k) \/ SeeEnd(k) \/ SeeRows(k)
           \/ WorkerFails(k) \/ RemoveStop(k) \/ WorkerBlocked(k) \/ Killed(k)
    PROVE  Reading' /\ Honest'
<1>1. /\ UNCHANGED <<source, paper, state>>
      /\ faults' = faults \/ (faults' = faults + 1 /\ WorkerFails(k))
  BY DEF Open, StopWhileArmed, SeeCatchUp, SeeEnd, SeeRows, WorkerFails, RemoveStop,
         WorkerBlocked, Killed, Turn, world, files
<1>2. /\ faults' \in Nat /\ (Excused => Excused')
      /\ WorkerFails(k) => Excused'
  BY <1>1 DEF Excused, Progress, Honest, WorkerFails
<1>3. lock' = lock \/ (lock = "FREE" /\ lock' = "STUCK")
  BY DEF Open, StopWhileArmed, SeeCatchUp, SeeEnd, SeeRows, WorkerFails, RemoveStop,
         WorkerBlocked, Killed, Turn, files
<1>4. CASE worker[k] \in {"GONE", "SPAWNED"}
  <2>1. /\ seen' = seen /\ worker' = [worker EXCEPT ![k] = "GONE"] /\ faults' = faults
    BY <1>4 DEF Open, StopWhileArmed, SeeCatchUp, SeeEnd, SeeRows, WorkerFails, RemoveStop,
       WorkerBlocked, Recording, Locking, Killed, Goes, Live
  <2>2. Steady
    BY <1>1, <1>3, <2>1 DEF Steady, IInv, Held, Progress, Honest, Locks
  <2> QED BY <2>2, SteadyKeeps DEF Progress
<1>5. CASE worker[k] \notin {"GONE", "SPAWNED"}
  <2> DEFINE ok == WorkerFails(k) \/ lock = "STUCK"
  <2>0. lock \in {"FREE", "STUCK"}
    BY <1>5, OnlyOne
  <2>1. PICK pc : /\ worker' = [worker EXCEPT ![k] = pc]
                  /\ \/ pc \in {"LOOP", "GONE", "CATCHUP"} /\ seen'.mark = 0 
                        /\ (pc = "CATCHUP" => ~seen'.failed)
                     \/ pc = "LOOP" /\ seen' = seen
                     \/ pc = "ENDING" /\ seen'.mark = 0 /\ (~seen'.failed \/ ok)
                     \/ pc = "CLOSING" /\ worker[k] = "ENDING" /\ seen' = seen
                     \/ pc = "FINAL" /\ seen'.mark = 0 /\ ~seen'.failed
                     \/ pc = "MAIN" /\ seen'.mark = source.rows
    <3>1. CASE StopWhileArmed(k) \/ WorkerFails(k) \/ RemoveStop(k) \/ Killed(k)
      BY <1>5, <3>1 DEF StopWhileArmed, WorkerFails, RemoveStop, Killed, Turn, Goes, Unread
    <3>6. CASE WorkerBlocked(k)
      <4>1. lock = "STUCK"
        BY <2>0, <3>6 DEF WorkerBlocked
      <4> QED BY <1>5, <3>6, <4>1 DEF WorkerBlocked, Recording, Locking, Goes, Unread
    <3>2. CASE Open(k)
      BY <3>2 DEF Open, Goes
    <3>3. CASE SeeCatchUp(k)
      <4> DEFINE c == Covered(state.target)
      <4>1. Turn(k, "CATCHUP", [Unread EXCEPT !.covered = c, !.stop = stop])
        BY <3>3 DEF SeeCatchUp
      <4> HIDE DEF c
      <4> QED BY <4>1 DEF Turn, Goes, Unread
    <3>4. CASE SeeEnd(k)
      <4> DEFINE m == Min({now, state.target})
      <4>1. Turn(k, "FINAL", [Unread EXCEPT !.instant = m])
        BY <3>4 DEF SeeEnd
      <4> HIDE DEF m
      <4> QED BY <4>1 DEF Turn, Goes, Unread
    <3>5. CASE SeeRows(k)
      BY <3>5 DEF SeeRows, Turn, Goes, Unread
    <3> QED BY <3>1, <3>2, <3>3, <3>4, <3>5, <3>6
  <2>2. source.rows \in Nat /\ seen'.mark <= source.rows
    BY <2>1 DEF IInv, Held, Progress, Reading
  <2>3. ReadsAt(pc)'
    BY <1>1, <2>1 DEF ReadsAt, Progress, Reading
  <2>4. pc \in {"ENDING", "CLOSING"} /\ seen'.failed => Excused' \/ lock' = "STUCK"
    <3>1. lock = "STUCK" => lock' = "STUCK"
      BY <1>3
    <3>2. worker[k] = "ENDING" /\ seen.failed => Excused \/ lock = "STUCK"
      BY DEF Progress, Honest
    <3> QED BY <1>2, <2>1, <3>1, <3>2
  <2>5. /\ state'.count \in Nat /\ state'.count <= state'.cursor
        /\ state'.mark <= source'.rows /\ seen'.mark <= source'.rows
    BY <1>1, <2>2 DEF Progress, Reading
  <2>6. state'.life = "INVALID" => Excused'
    BY <1>1, <1>2 DEF Progress, Honest
  <2>7. lock' \in {"FREE", "STUCK"}
    BY <1>3, <2>0
  <2> QED BY <1>2, <1>5, <2>1, <2>3, <2>4, <2>5, <2>6, <2>7, OnlyOne, OwnKeeps
<1> QED BY <1>4, <1>5

(* The work: the paper database moves, the journal stays.                  *)
LEMMA WorkReading ==
    ASSUME IInv, Progress, NEW k \in Segments,
           MainWork(k) \/ CatchUpWork(k) \/ DrainCatchUp(k) \/ DrainFinal(k)
    PROVE  Reading' /\ Honest'
<1>1. UNCHANGED <<source, state, faults>> /\ worker[k] \notin {"GONE", "SPAWNED"}
  BY DEF MainWork, CatchUpWork, DrainCatchUp, DrainFinal, Drain, world, files
<1>2. state.mark <= source.rows /\ source.rows \in Nat /\ seen.mark <= source.rows
  BY DEF Progress, Reading, IInv, Held
<1>3. PICK pc : /\ worker' = [worker EXCEPT ![k] = pc] /\ pc \notin {"ENDING", "CLOSING"}
                /\ seen'.mark <= source.rows /\ ReadsAt(pc)'
  <2>1. CASE MainWork(k) \/ CatchUpWork(k)
    <3>1. /\ seen' = seen
          /\ \/ worker[k] = "MAIN" /\ worker' = [worker EXCEPT ![k] = "MAIN_RECORD"]
             \/ worker[k] = "CATCHUP" /\ worker' = [worker EXCEPT ![k] = "CATCHUP_RECORD"]
      BY <2>1 DEF MainWork, CatchUpWork, Goes
    <3>2. ReadsAt(worker[k])
      BY DEF Progress, Reading
    <3> QED BY <1>1, <1>2, <3>1, <3>2 DEF ReadsAt
  <2>2. CASE DrainCatchUp(k) \/ DrainFinal(k)
    <3>1. /\ seen' = [seen EXCEPT !.mark = source.rows] /\ paper' = Drained(seen.instant)
          /\ \/ worker[k] = "CATCHUP_DRAIN" /\ worker' = [worker EXCEPT ![k] = "CATCHUP_STOP"]
             \/ worker[k] = "FINAL" /\ worker' = [worker EXCEPT ![k] = "FINAL_RECORD"]
      BY <2>2 DEF DrainCatchUp, DrainFinal, Drain, Goes
    <3>2. /\ seen'.mark = source.rows /\ seen'.count = seen.count
          /\ seen'.failed = seen.failed /\ paper'.cursor = source.rows
      BY <3>1 DEF IInv, Held, SeenFields, Drained
    <3>3. ReadsAt(worker[k])
      BY DEF Progress, Reading
    <3> QED BY <1>1, <1>2, <3>1, <3>2, <3>3 DEF ReadsAt
  <2> QED BY <2>1, <2>2
<1>4. /\ state'.count \in Nat /\ state'.count <= state'.cursor
      /\ state'.mark <= source'.rows /\ seen'.mark <= source'.rows
  BY <1>1, <1>3 DEF Progress, Reading
<1>5. faults' \in Nat /\ (state'.life = "INVALID" => Excused')
  BY <1>1 DEF Progress, Honest, Excused
<1>6. lock' = lock
  BY DEF MainWork, CatchUpWork, DrainCatchUp, DrainFinal, Drain, files
<1> QED BY <1>1, <1>3, <1>4, <1>5, <1>6, OnlyOne, OwnKeeps

(* A record of progress p that the worker may make: it either writes p or  *)
(* fails with an excuse.                                                   *)
Suits(p) ==
    /\ p.cursor = paper.cursor /\ paper.cursor <= p.mark /\ p.mark \in Nat
    /\ state.mark <= p.mark /\ p.mark <= source.rows
    /\ p.count \in Nat /\ state.count <= p.count /\ p.count <= paper.cursor
    /\ p.count = state.count \/ p.count = paper.cursor

LEMMA RecordReading ==
    ASSUME IInv, Window, Progress, NEW k \in Segments, NEW p, NEW next, NEW what,
           Record(k, p, next, what), worker[k] \notin {"GONE", "SPAWNED"}, Suits(p),
           \/ next = "LOOP" /\ what = Unread
           \/ next = "ENDING" /\ what = seen /\ ~seen.failed
           \/ /\ next = "CATCHUP_DRAIN" /\ ~what.failed
              /\ what.mark = seen.mark /\ what.count = p.count
    PROVE  Reading' /\ Honest'
<1>1. UNCHANGED <<source, paper, faults, lock>>
  BY DEF Record, world
<1>2. Owned(state, k) /\ state.life # "INVALID"
  BY OnlyOne DEF Owned, Window, Busy
<1>3. /\ state.count \in Nat /\ state.cursor \in Nat /\ paper.cursor \in Nat
      /\ source.rows \in Nat /\ state.count <= state.cursor
      /\ state.cursor <= paper.cursor /\ seen.mark <= source.rows
      /\ state.mark <= source.rows /\ faults \in Nat
  BY DEF Progress, Reading, Honest, IInv, Held, Behind, Good, Shaped
<1>4. CASE Contradicts(state, k, p)
  <2>1. /\ state' = state /\ seen' = [Unread EXCEPT !.failed = TRUE]
        /\ worker' = [worker EXCEPT ![k] = "ENDING"]
    BY <1>4 DEF Record, Goes
  <2>2. seen'.mark = 0
    BY <2>1 DEF Unread
  <2>3. Excused
    <3>1. p.cursor = state.cursor /\ p.count # state.count
      BY <1>2, <1>3, <1>4 DEF Contradicts, Suits, IInv, Good, Shaped
    <3> QED BY <1>3, <3>1 DEF Suits, Excused
  <2>4. ReadsAt("ENDING")' /\ Excused'
    BY <1>1, <2>1, <2>3 DEF ReadsAt, Excused
  <2>5. /\ state'.count \in Nat /\ state'.count <= state'.cursor
        /\ state'.mark <= source'.rows /\ seen'.mark <= source'.rows /\ faults' \in Nat
    BY <1>1, <1>3, <2>1, <2>2
  <2> QED BY <1>1, <2>1, <2>4, <2>5, OnlyOne, OwnKeeps
<1>5. CASE ~Contradicts(state, k, p)
  <2>1. /\ state' = Recorded(state, p) /\ seen' = what
        /\ worker' = [worker EXCEPT ![k] = next]
    BY <1>5 DEF Record, Goes
  <2>2. /\ state'.life = state.life /\ state'.cursor = p.cursor
        /\ state'.mark = p.mark /\ state'.count = p.count
    BY <2>1 DEF Recorded, IInv, Good, Shaped, Fields
  <2>3. seen'.mark <= source.rows
    BY <1>3, <2>1 DEF Unread
  <2>4. ReadsAt(next)' /\ (next = "ENDING" => ~seen'.failed)
    BY <2>1, <2>2 DEF ReadsAt
  <2>5. /\ state'.count \in Nat /\ state'.count <= state'.cursor
        /\ state'.mark <= source'.rows /\ seen'.mark <= source'.rows /\ faults' \in Nat
    BY <1>1, <1>3, <2>2, <2>3 DEF Suits
  <2>6. next \notin {"CLOSING"}
    OBVIOUS
  <2> QED BY <1>1, <1>2, <2>1, <2>2, <2>4, <2>5, <2>6, OnlyOne, OwnKeeps
<1> QED BY <1>4, <1>5

(* Each record suits, by what its worker has read.                         *)
LEMMA RecordsReading ==
    ASSUME IInv, Window, Progress, NEW k \in Segments,
           RecordMain(k) \/ RecordCatchUp(k) \/ RecordCatchUpStop(k) \/ RecordFinal(k)
    PROVE  Reading' /\ Honest'
<1>1. /\ worker[k] \notin {"GONE", "SPAWNED"} /\ ReadsAt(worker[k])
  BY DEF RecordMain, RecordCatchUp, RecordCatchUpStop, RecordFinal, Progress, Reading
<1>2. /\ state.count \in Nat /\ state.cursor \in Nat /\ paper.cursor \in Nat
      /\ source.rows \in Nat /\ seen.mark \in Nat /\ state.mark \in Nat
      /\ state.count <= state.cursor /\ state.cursor <= paper.cursor
      /\ paper.cursor <= source.rows /\ seen.mark <= source.rows /\ state.mark <= source.rows
  BY DEF Progress, Reading, IInv, Held, Behind, Good, Shaped
<1>3. CASE RecordMain(k)
  <2> DEFINE m == Max({paper.cursor, seen.mark})
             c == Covered(state.target)
  <2>1. m = IF paper.cursor >= seen.mark THEN paper.cursor ELSE seen.mark
    BY <1>2, MaxOfTwoIs
  <2>2. worker[k] = "MAIN_RECORD" /\ Record(k, MainProgress, "LOOP", Unread)
    BY <1>3 DEF RecordMain
  <2>3. MainProgress = [cursor |-> paper.cursor, mark |-> m, count |-> paper.cursor,
                        covered |-> c]
    BY DEF MainProgress
  <2> HIDE DEF m, c
  <2>4. Suits(MainProgress)
    BY <1>1, <1>2, <2>1, <2>2, <2>3 DEF Suits, ReadsAt
  <2> QED BY <1>1, <2>2, <2>4, RecordReading
<1>4. CASE RecordCatchUp(k)
  <2> DEFINE m == Max({paper.cursor, source.rows})
             w == IF seen.stop THEN [seen EXCEPT !.count = paper.cursor,
                                       !.instant = state.target]
                  ELSE Unread
             n == IF seen.stop THEN "CATCHUP_DRAIN" ELSE "LOOP"
  <2>1. m = IF paper.cursor >= source.rows THEN paper.cursor ELSE source.rows
    BY <1>2, MaxOfTwoIs
  <2>2. worker[k] = "CATCHUP_RECORD" /\ Record(k, CatchUpProgress, n, w)
    BY <1>4 DEF RecordCatchUp
  <2>3. CatchUpProgress = [cursor |-> paper.cursor, mark |-> m, count |-> paper.cursor,
                           covered |-> seen.covered]
    BY DEF CatchUpProgress
  <2>4. \/ n = "LOOP" /\ w = Unread
        \/ n = "CATCHUP_DRAIN" /\ w = [seen EXCEPT !.count = paper.cursor,
                                         !.instant = state.target]
    OBVIOUS
  <2> HIDE DEF m, w, n
  <2>5. Suits(CatchUpProgress) /\ CatchUpProgress.count = paper.cursor
    BY <1>1, <1>2, <2>1, <2>3 DEF Suits
  <2>6. \/ n = "LOOP" /\ w = Unread
        \/ /\ n = "CATCHUP_DRAIN" /\ ~w.failed
           /\ w.mark = seen.mark /\ w.count = CatchUpProgress.count
    <3>1. ~seen.failed
      BY <1>1, <2>2 DEF ReadsAt
    <3>2. DOMAIN seen = SeenFields
      BY DEF IInv, Held
    <3> QED BY <2>4, <2>5, <3>1, <3>2 DEF SeenFields
  <2> QED BY <1>1, <2>2, <2>5, <2>6, RecordReading
<1>5. CASE RecordCatchUpStop(k)
  <2> DEFINE p == [cursor |-> paper.cursor, mark |-> seen.mark, count |-> seen.count,
                   covered |-> seen.covered]
  <2>1. worker[k] = "CATCHUP_STOP" /\ Record(k, p, "ENDING", seen)
    BY <1>5 DEF RecordCatchUpStop
  <2>2. Suits(p) /\ ~seen.failed
    BY <1>1, <1>2, <2>1 DEF Suits, ReadsAt
  <2> HIDE DEF p
  <2> QED BY <1>1, <2>1, <2>2, RecordReading
<1>6. CASE RecordFinal(k)
  <2> DEFINE c == Covered(state.target)
  <2>1. worker[k] = "FINAL_RECORD" /\ Record(k, FinalProgress, "ENDING", seen)
    BY <1>6 DEF RecordFinal
  <2>2. FinalProgress = [cursor |-> paper.cursor, mark |-> seen.mark,
                         count |-> paper.cursor, covered |-> c]
    BY DEF FinalProgress
  <2> HIDE DEF c
  <2>3. Suits(FinalProgress) /\ ~seen.failed
    BY <1>1, <1>2, <2>1, <2>2 DEF Suits, ReadsAt
  <2> QED BY <1>1, <2>1, <2>3, RecordReading
<1> QED BY <1>3, <1>4, <1>5, <1>6

(* The end of a segment: INVALID only with the excuse of its failure.      *)
LEMMA EndReading ==
    ASSUME IInv, Progress, NEW k \in Segments, EndSegment(k)
    PROVE  Reading' /\ Honest'
<1>1. /\ UNCHANGED <<source, paper, faults>> /\ seen' = Unread
      /\ worker' = [worker EXCEPT ![k] = "GONE"]
      /\ worker[k] = "CLOSING" /\ lock = "FREE" /\ lock' = "FREE"
  BY DEF EndSegment, Goes, world
<1>2. Alike(state, state') /\ (state'.life = "INVALID" => state.life = "INVALID" \/ seen.failed)
  <2>1. \/ state' = state \/ state' = Closed(state, "STOPPED")
        \/ /\ seen.failed
           /\ state' = [Closed(state, "INVALID") EXCEPT !.coverage = "OOS_INCOMPLETE"]
    BY DEF EndSegment
  <2>2. Alike(state, state)
    BY DEF Alike
  <2> QED BY <2>1, <2>2, ClosedAlike, FailedAlike DEF IInv
<1>3. state'.life = "INVALID" => Excused'
  BY <1>1, <1>2 DEF Alike, Progress, Honest, Excused
<1>4. /\ state'.count \in Nat /\ state'.count <= state'.cursor
      /\ state'.mark <= source'.rows /\ seen'.mark <= source'.rows /\ faults' \in Nat
  BY <1>1, <1>2 DEF Alike, Progress, Reading, Honest, Unread, IInv, Held
<1>5. ReadsAt("GONE")'
  BY DEF ReadsAt
<1> QED BY <1>1, <1>3, <1>4, <1>5, OnlyOne, OwnKeeps

LEMMA WorkerProgress ==
    ASSUME IInv, Window, Progress, NEW k \in Segments,
           Working(k) \/ OpenFails(k) \/ WorkerFails(k) \/ Killed(k)
    PROVE  Progress'
<1>1. CASE ClaimSegment(k)
  BY <1>1, ClaimProgress
<1>2. CASE ~ClaimSegment(k)
  <2>1. Reading' /\ Honest'
    BY <1>2, RefusedReading, QuietReading, WorkReading, RecordsReading, EndReading DEF Working
  <2> QED BY <1>2, <2>1, WorkerLaunched DEF Progress
<1> QED BY <1>1, <1>2
-----------------------------------------------------------------------------
LEMMA InitProgress == Init => Progress
<1> SUFFICES ASSUME Init PROVE Progress
  OBVIOUS
<1>1. Launched
  BY DEF Init, Launched, Idle
<1>2. Reading
  BY DEF Init, Reading, ReadsAt, Unread
<1>3. Honest
  BY DEF Init, Honest, Locks
<1> QED BY <1>1, <1>2, <1>3 DEF Progress

LEMMA StepProgress ==
    ASSUME IInv, Window, Progress, Steps \/ UNCHANGED vars PROVE Progress'
<1>1. CASE UNCHANGED vars
  BY <1>1 DEF vars, world, files, procs, Progress, Launched, Reading, ReadsAt, Honest,
     Excused, Owned
<1> QED BY <1>1, OutsideProgress, LauncherProgress, WorkerProgress DEF Steps

-----------------------------------------------------------------------------
(***************************************************************************)
(* Types.  The numbers of the journal are bounded by the rows there are    *)
(* (Reading, Behind); what is left is who moves the boundary, appends a    *)
(* segment or writes the handoff, and that the clock stops with the window *)
(***************************************************************************)
Coverages == {"COLLECTING", "INCOMPLETE", "COMPLETE", "OOS_INCOMPLETE"}

TypedJournal(s) ==
    /\ s.target \in Minimum .. Maximum
    /\ s.coverage \in Coverages
    /\ DOMAIN s.segments \subseteq Segments

TypedFiles ==
    /\ handoff = {} \/ \E h : handoff = {h}
    /\ lock \in {"FREE", "FINALIZER", "STUCK"} /\ stop \in BOOLEAN

TypedWorld ==
    /\ now \in 0 .. Maximum
    /\ source \in [rows : 0 .. MaxRows, activity : Start .. Maximum, gap : BOOLEAN]
    /\ paper \in [cursor : Nat, beyond : BOOLEAN]

(* What every saved journal satisfies, a copy too: its numbers are no      *)
(* greater than those of the databases.                                    *)
Sound(s) ==
    /\ Good(s) /\ TypedJournal(s) /\ s.cursor <= paper.cursor
    /\ s.count \in Nat /\ s.count <= s.cursor /\ s.mark <= source.rows

Copied == \A c \in copies : Sound(c) /\ c.life = "STOPPED" /\ c.active = NoProcess

Typed == TypedWorld /\ TypedFiles

LEMMA WindowBounds == Start = 1 /\ Minimum = 2 /\ Maximum \in Nat /\ Minimum <= Maximum
BY BoundAssumption DEF Start, Minimum, Maximum

LEMMA InitTyped == Init => Typed /\ Sound(state) /\ Copied
<1> SUFFICES ASSUME Init PROVE Typed /\ Sound(state) /\ Copied
  OBVIOUS
<1>1. TypedWorld
  BY WindowBounds, BoundAssumption DEF Init, TypedWorld
<1>2. TypedJournal(state)
  BY WindowBounds DEF Init, TypedJournal, Coverages
<1>3. TypedFiles
  BY DEF Init, TypedFiles
<1>4. Good(state)
  BY InitGood DEF Kept
<1> QED BY <1>1, <1>2, <1>3, <1>4 DEF Init, Typed, Sound, Copied

(* The rewrites of the journal that move no boundary and append nothing.   *)
LEMMA ClosedTyped ==
    ASSUME NEW s, Good(s), TypedJournal(s), NEW life, NEW t,
           \/ t = Closed(s, life)
           \/ t = [Closed(s, life) EXCEPT !.coverage = "OOS_INCOMPLETE"]
    PROVE  TypedJournal(t)
<1> DEFINE c == Closed(s, life)
<1>1. /\ DOMAIN c = Fields /\ c.target = s.target /\ c.coverage = s.coverage
      /\ DOMAIN c.segments = DOMAIN s.segments
  BY DEF Closed, Good, Shaped, Fields
<1>2. t = c \/ t = [c EXCEPT !.coverage = "OOS_INCOMPLETE"]
  OBVIOUS
<1> HIDE DEF c
<1>3. /\ t.target = s.target /\ t.coverage \in {s.coverage, "OOS_INCOMPLETE"}
      /\ DOMAIN t.segments = DOMAIN s.segments
  BY <1>1, <1>2 DEF Fields
<1> QED BY <1>3 DEF TypedJournal, Coverages

LEMMA RewrittenTyped ==
    ASSUME NEW s, Good(s), TypedJournal(s)
    PROVE  /\ TypedJournal(Reconciled(s))
           /\ \A k, m : TypedJournal(FailedStartup(s, k, m))
           /\ \A p : TypedJournal(Recorded(s, p))
<1>1. TypedJournal(Reconciled(s))
  <2>1. Reconciled(s) = s \/ Reconciled(s) = Closed(s, "STOPPED")
    BY DEF Reconciled
  <2> QED BY <2>1, ClosedTyped
<1>2. ASSUME NEW k, NEW m PROVE TypedJournal(FailedStartup(s, k, m))
  <2> DEFINE t == FailedStartup(s, k, m)
  <2>1. \/ t = s
        \/ t = Closed(s, "STOPPED")
        \/ t = [Closed(s, "INVALID") EXCEPT !.coverage = "OOS_INCOMPLETE"]
    BY DEF FailedStartup
  <2> HIDE DEF t
  <2>2. TypedJournal(t)
    BY <2>1, ClosedTyped
  <2> QED BY <2>2 DEF t
<1>3. ASSUME NEW p PROVE TypedJournal(Recorded(s, p))
  <2>1. /\ Recorded(s, p).target = s.target
        /\ Recorded(s, p).coverage \in Coverages
        /\ Recorded(s, p).segments = s.segments
    BY DEF Recorded, Good, Shaped, Fields, Coverages
  <2> QED BY <2>1 DEF TypedJournal
<1> QED BY <1>1, <1>2, <1>3

(* The journal may change in its life and its active process alone.        *)
LEMMA SameTyped ==
    ASSUME NEW s, TypedJournal(s), NEW t, t.target = s.target, t.coverage = s.coverage,
           DOMAIN t.segments = DOMAIN s.segments
    PROVE  TypedJournal(t)
BY DEF TypedJournal

LEMMA OutsideJournal ==
    ASSUME Good(state), TypedJournal(state),
           \/ World \/ ClaimDeadline \/ WaiterDies \/ GiveUp \/ Commands \/ FinalizerDies
    PROVE  TypedJournal(state')
<1>1. \/ state' = state \/ state' = Reconciled(state)
      \/ state' = FailedStartup(state, state.active.segment, FALSE)
      \/ state' = [state EXCEPT !.active.late = TRUE]
      \/ state' = [state EXCEPT !.active.awaited = FALSE]
      \/ state' = [state EXCEPT !.life = "FROZEN"] \/ Refrozen(state, state')
      \/ Extend
  BY DEF World, Tick, InsertRow, OpenGap, ResolveGap, ClaimDeadline, WaiterDies, GiveUp,
         Commands, Status, RequestStop, WriteHandoff, Freeze, ReadForAdoption, Readopt,
         FinalizerDies, files
<1>2. CASE \/ state' = [state EXCEPT !.active.late = TRUE]
           \/ state' = [state EXCEPT !.active.awaited = FALSE]
           \/ state' = [state EXCEPT !.life = "FROZEN"]
           \/ Refrozen(state, state')
  <2>1. /\ state'.target = state.target /\ state'.coverage = state.coverage
        /\ state'.segments = state.segments
    BY <1>2 DEF Good, Shaped, Fields, Refrozen
  <2> QED BY <2>1, SameTyped
<1>3. CASE Extend
  <2>1. state.target \in Minimum .. Maximum /\ state.target < Maximum
    BY <1>3 DEF Extend, TypedJournal
  <2>2. /\ state'.target = state.target + 1 /\ state'.coverage = "COLLECTING"
        /\ state'.segments = state.segments
    BY <1>3 DEF Extend, Good, Shaped, Fields
  <2>3. state'.target \in Minimum .. Maximum
    BY <2>1, <2>2, WindowBounds
  <2>4. DOMAIN state.segments \subseteq Segments
    BY DEF TypedJournal
  <2>5. DOMAIN state'.segments \subseteq Segments /\ state'.coverage \in Coverages
    BY <2>2, <2>4 DEF Coverages
  <2> QED BY <2>3, <2>5 DEF TypedJournal
<1>4. /\ TypedJournal(Reconciled(state))
      /\ TypedJournal(FailedStartup(state, state.active.segment, FALSE))
  BY RewrittenTyped
<1>5. CASE \/ state' = state \/ state' = Reconciled(state)
           \/ state' = FailedStartup(state, state.active.segment, FALSE)
  BY <1>4, <1>5
<1> QED BY <1>1, <1>2, <1>3, <1>5

LEMMA LauncherJournal ==
    ASSUME Good(state), TypedJournal(state), NEW l \in Launchers,
           Resume(l) \/ Launching(l) \/ SpawnFails(l) \/ LauncherDies(l)
    PROVE  TypedJournal(state')
<1>1. CASE Resume(l) \/ SpawnFails(l)
  <2>1. \/ state' = Reconciled(state)
        \/ state' = FailedStartup(state, launcher[l].segment, FALSE)
    BY <1>1 DEF Resume, SpawnFails
  <2> QED BY <2>1, RewrittenTyped
<1>2. CASE PrepareSegment(l)
  <2> DEFINE a == [segment |-> Len(state.segments) + 1, own |-> "PENDING",
                   late |-> FALSE, awaited |-> FALSE]
  <2>1. CASE MayPrepare(state)
    <3>1. /\ state' = [state EXCEPT !.life = "ACTIVE",
                         !.segments = Append(@, "PENDING"), !.active = a]
          /\ Len(state.segments) < MaxSegments
      BY <1>2, <2>1 DEF PrepareSegment, MayPrepare
    <3> HIDE DEF a
    <3>2. /\ state'.target = state.target /\ state'.coverage = state.coverage
          /\ state'.segments = Append(state.segments, "PENDING")
      BY <3>1 DEF Good, Shaped, Fields
    <3>3. DOMAIN state'.segments = 1 .. Len(state.segments) + 1 /\ Len(state.segments) \in Nat
      BY <3>2 DEF Good, Shaped, Ends
    <3>4. DOMAIN state'.segments \subseteq Segments
      BY <3>1, <3>3, BoundAssumption DEF Segments
    <3> QED BY <3>2, <3>4 DEF TypedJournal
  <2>2. CASE ~MayPrepare(state)
    BY <1>2, <2>2 DEF PrepareSegment
  <2> QED BY <2>1, <2>2
<1>3. CASE Spawn(l)
  <2> DEFINE b == state.active.awaited \/ Pending(state, launcher[l].segment)
  <2>1. state' = [state EXCEPT !.active.awaited = b]
    BY <1>3 DEF Spawn
  <2> HIDE DEF b
  <2>2. /\ state'.target = state.target /\ state'.coverage = state.coverage
        /\ state'.segments = state.segments
    BY <2>1 DEF Good, Shaped, Fields
  <2> QED BY <2>2, SameTyped
<1>4. CASE ClearStop(l) \/ LauncherBlocked(l) \/ LauncherDies(l)
  BY <1>4 DEF ClearStop, LauncherBlocked, LauncherDies, files
<1> QED BY <1>1, <1>2, <1>3, <1>4 DEF Launching

LEMMA WorkerJournal ==
    ASSUME Good(state), TypedJournal(state), NEW k \in Segments,
           Working(k) \/ OpenFails(k) \/ WorkerFails(k) \/ Killed(k)
    PROVE  TypedJournal(state')
<1>1. CASE ClaimSegment(k)
  <2>1. /\ state'.target = state.target /\ state'.coverage = state.coverage
        /\ state'.segments = [state.segments EXCEPT ![k] = "OWNED"]
    BY <1>1 DEF ClaimSegment, Good, Shaped, Fields
  <2> QED BY <2>1, SameTyped
<1>2. CASE ~ClaimSegment(k)
  <2>1. \/ state' = state
        \/ state' = FailedStartup(state, k, TRUE)
        \/ \E p : state' = Recorded(state, p)
        \/ state' = Closed(state, "STOPPED")
        \/ state' = [Closed(state, "INVALID") EXCEPT !.coverage = "OOS_INCOMPLETE"]
    BY <1>2 DEF Working, ClaimRejected, OpenFails, WorkerFails, Killed, Open,
           StopWhileArmed, SeeCatchUp, SeeEnd, SeeRows, Turn, MainWork, CatchUpWork,
           DrainCatchUp, DrainFinal, Drain, RecordMain, RecordCatchUp, RecordCatchUpStop,
           RecordFinal, Record, RemoveStop, EndSegment, WorkerBlocked, files
  <2> QED BY <2>1, RewrittenTyped, ClosedTyped
<1> QED BY <1>1, <1>2

(* The handoff is written once; the lock and the stop file are flags.      *)
LEMMA FilesTyped ==
    ASSUME TypedFiles, Steps PROVE TypedFiles'
<1>1. handoff' = handoff \/ (handoff = {} /\ \E h : handoff' = {h})
  BY DEF Steps, World, Tick, InsertRow, OpenGap, ResolveGap, ClaimDeadline, WaiterDies,
         GiveUp, Commands, Status, RequestStop, Extend, WriteHandoff, Freeze,
         ReadForAdoption, Readopt, FinalizerDies, Resume, Launching, ClearStop,
         PrepareSegment, Spawn, LauncherBlocked, SpawnFails, LauncherDies, Working,
         ClaimSegment, ClaimRejected, OpenFails, WorkerFails, Killed, Open, StopWhileArmed,
         SeeCatchUp, SeeEnd, SeeRows, Turn, MainWork, CatchUpWork, DrainCatchUp, DrainFinal,
         Drain, RecordMain, RecordCatchUp, RecordCatchUpStop, RecordFinal, Record,
         RemoveStop, EndSegment, WorkerBlocked, files
<1>2. lock' \in {lock, "FREE", "FINALIZER", "STUCK"}
  BY DEF Steps, World, Tick, InsertRow, OpenGap, ResolveGap, ClaimDeadline, WaiterDies,
         GiveUp, Commands, Status, RequestStop, Extend, WriteHandoff, Freeze,
         ReadForAdoption, Readopt, FinalizerDies, Resume, Launching, ClearStop,
         PrepareSegment, Spawn, LauncherBlocked, SpawnFails, LauncherDies, Working,
         ClaimSegment, ClaimRejected, OpenFails, WorkerFails, Killed, Open, StopWhileArmed,
         SeeCatchUp, SeeEnd, SeeRows, Turn, MainWork, CatchUpWork, DrainCatchUp, DrainFinal,
         Drain, RecordMain, RecordCatchUp, RecordCatchUpStop, RecordFinal, Record,
         RemoveStop, EndSegment, WorkerBlocked, files
<1>3. stop' = stop \/ stop' = FALSE \/ (\E b \in BOOLEAN : stop' = (stop \/ b))
      \/ (\E b \in BOOLEAN : stop' = (stop /\ b))
  BY DEF Steps, World, Tick, InsertRow, OpenGap, ResolveGap, ClaimDeadline, WaiterDies,
         GiveUp, Commands, Status, RequestStop, Extend, WriteHandoff, Freeze,
         ReadForAdoption, Readopt, FinalizerDies, Resume, Launching, ClearStop,
         PrepareSegment, Spawn, LauncherBlocked, SpawnFails, LauncherDies, Working,
         ClaimSegment, ClaimRejected, OpenFails, WorkerFails, Killed, Open, StopWhileArmed,
         SeeCatchUp, SeeEnd, SeeRows, Turn, MainWork, CatchUpWork, DrainCatchUp, DrainFinal,
         Drain, RecordMain, RecordCatchUp, RecordCatchUpStop, RecordFinal, Record,
         RemoveStop, EndSegment, WorkerBlocked, files
<1>4. stop' \in BOOLEAN
  BY <1>3 DEF TypedFiles
<1> QED BY <1>1, <1>2, <1>4 DEF TypedFiles

(* The clock stops at the longest window; rows and activity follow it.     *)
LEMMA WorldTyped ==
    ASSUME NEW cut \in BOOLEAN, Kept(cut), TypedWorld, Steps PROVE TypedWorld'
<1>1. CASE Tick
  BY <1>1, WindowBounds DEF Tick, TypedWorld
<1>2. CASE InsertRow
  <2> DEFINE a == Max({Start, now})
  <2>1. now \in Nat /\ now <= Maximum
    BY WindowBounds DEF TypedWorld
  <2>2. a = IF Start >= now THEN Start ELSE now
    BY <2>1, WindowBounds, MaxOfTwoIs
  <2>3. a \in Start .. Maximum
    BY <2>1, <2>2, WindowBounds
  <2>4. source' = [source EXCEPT !.rows = @ + 1, !.activity = a] /\ source.rows < MaxRows
    BY <1>2 DEF InsertRow
  <2> HIDE DEF a
  <2>5. source \in [rows : 0 .. MaxRows, activity : Start .. Maximum, gap : BOOLEAN]
    BY DEF TypedWorld
  <2>6. source.rows + 1 \in 0 .. MaxRows
    BY <2>4, <2>5, BoundAssumption
  <2>7. source' \in [rows : 0 .. MaxRows, activity : Start .. Maximum, gap : BOOLEAN]
    BY <2>3, <2>4, <2>5, <2>6
  <2> QED BY <1>2, <2>7 DEF InsertRow, TypedWorld
<1>3. CASE OpenGap \/ ResolveGap
  BY <1>3 DEF OpenGap, ResolveGap, TypedWorld
<1>4. ASSUME NEW k \in Segments,
             MainWork(k) \/ CatchUpWork(k) \/ DrainCatchUp(k) \/ DrainFinal(k)
      PROVE  TypedWorld'
  <2>1. UNCHANGED <<now, source, state>>
    BY <1>4 DEF MainWork, CatchUpWork, DrainCatchUp, DrainFinal, Drain, world, files
  <2>2. \/ paper' = Batch
        \/ paper' = Drained(seen.instant)
    BY <1>4 DEF MainWork, CatchUpWork, DrainCatchUp, DrainFinal, Drain
  <2>3. paper'.cursor \in Nat
    BY <2>1, <2>2, WorkForward
  <2>4. CASE paper' = Drained(seen.instant)
    <3>1. paper' = [cursor |-> source.rows,
                    beyond |-> paper.beyond \/ seen.instant > state.target]
      BY <2>4 DEF Drained
    <3> QED BY <2>1, <2>3, <3>1 DEF TypedWorld
  <2>5. CASE paper' = Batch
    <3> DEFINE m == Min({paper.cursor + BatchSize, source.rows})
    <3>1. paper' = [paper EXCEPT !.cursor = m]
      BY <2>5 DEF Batch
    <3> HIDE DEF m
    <3>2. paper'.cursor = m
      BY <3>1 DEF TypedWorld
    <3> QED BY <2>1, <2>3, <3>1, <3>2 DEF TypedWorld
  <2> QED BY <2>2, <2>4, <2>5
<1>5. CASE ~World /\ ~\E k \in Segments :
                         MainWork(k) \/ CatchUpWork(k) \/ DrainCatchUp(k) \/ DrainFinal(k)
  <2>1. UNCHANGED <<now, source, paper>>
    BY <1>5
    DEF Steps, ClaimDeadline, WaiterDies, GiveUp, Commands, Status, RequestStop, Extend,
        WriteHandoff, Freeze, ReadForAdoption, Readopt, FinalizerDies, Resume, Launching,
        ClearStop, PrepareSegment, Spawn, LauncherBlocked, SpawnFails, LauncherDies,
        Working, ClaimSegment, ClaimRejected, OpenFails, WorkerFails, Killed, Open,
        StopWhileArmed, SeeCatchUp, SeeEnd, SeeRows, Turn, RecordMain, RecordCatchUp,
        RecordCatchUpStop, RecordFinal, Record, RemoveStop, EndSegment, WorkerBlocked, world
  <2> QED BY <2>1 DEF TypedWorld
<1> QED BY <1>1, <1>2, <1>3, <1>4, <1>5 DEF World

(* The databases only grow.                                                *)
LEMMA DatabasesGrow ==
    ASSUME NEW cut \in BOOLEAN, Kept(cut), Steps \/ UNCHANGED vars
    PROVE  source.rows <= source'.rows /\ paper.cursor <= paper'.cursor
<1>1. source.rows \in Nat /\ paper.cursor \in Nat /\ paper.cursor <= source.rows
  BY DEF Kept, Held, Behind
<1>2. CASE World
  <2>1. paper' = paper
    BY <1>2 DEF World, Tick, InsertRow, OpenGap, ResolveGap
  <2>2. CASE InsertRow
    <3> DEFINE a == Max({Start, now})
    <3>1. source' = [source EXCEPT !.rows = @ + 1, !.activity = a]
      BY <2>2 DEF InsertRow
    <3> HIDE DEF a
    <3> QED BY <1>1, <2>1, <3>1 DEF Kept, Held
  <2>3. CASE Tick \/ OpenGap \/ ResolveGap
    BY <1>1, <2>1, <2>3 DEF Tick, OpenGap, ResolveGap, Kept, Held
  <2> QED BY <1>2, <2>2, <2>3 DEF World
<1>3. ASSUME NEW k \in Segments,
             MainWork(k) \/ CatchUpWork(k) \/ DrainCatchUp(k) \/ DrainFinal(k)
      PROVE  source.rows <= source'.rows /\ paper.cursor <= paper'.cursor
  <2>1. /\ source' = source
        /\ paper' = Batch \/ paper' = Drained(seen.instant)
    BY <1>3 DEF MainWork, CatchUpWork, DrainCatchUp, DrainFinal, Drain, world
  <2>2. CASE paper' = Drained(seen.instant)
    <3>1. paper'.cursor = source.rows
      BY <2>2 DEF Drained
    <3> QED BY <1>1, <2>1, <3>1
  <2>3. CASE paper' = Batch
    <3> DEFINE m == Min({paper.cursor + BatchSize, source.rows})
    <3>1. paper' = [paper EXCEPT !.cursor = m]
      BY <2>3 DEF Batch
    <3>2. BatchSize \in Nat /\ paper.cursor + BatchSize \in Nat
      BY <1>1, BoundAssumption
    <3>3. m = IF paper.cursor + BatchSize <= source.rows THEN paper.cursor + BatchSize
              ELSE source.rows
      BY <1>1, <3>2, MinOfTwo
    <3> HIDE DEF m
    <3>4. paper'.cursor = m
      BY <3>1 DEF Kept, Held
    <3> QED BY <1>1, <2>1, <3>2, <3>3, <3>4
  <2> QED BY <2>1, <2>2, <2>3
<1>4. CASE ~World /\ ~\E k \in Segments :
                         MainWork(k) \/ CatchUpWork(k) \/ DrainCatchUp(k) \/ DrainFinal(k)
  <2>1. UNCHANGED <<source, paper>>
    BY <1>4
    DEF Steps, ClaimDeadline, WaiterDies, GiveUp, Commands, Status, RequestStop, Extend,
        WriteHandoff, Freeze, ReadForAdoption, Readopt, FinalizerDies, Resume, Launching,
        ClearStop, PrepareSegment, Spawn, LauncherBlocked, SpawnFails, LauncherDies,
        Working, ClaimSegment, ClaimRejected, OpenFails, WorkerFails, Killed, Open,
        StopWhileArmed, SeeCatchUp, SeeEnd, SeeRows, Turn, RecordMain, RecordCatchUp,
        RecordCatchUpStop, RecordFinal, Record, RemoveStop, EndSegment, WorkerBlocked,
        world, vars
  <2> QED BY <1>1, <2>1
<1> QED BY <1>2, <1>3, <1>4

LEMMA StepTyped ==
    ASSUME NEW cut \in BOOLEAN, Kept(cut), Typed, Steps \/ UNCHANGED vars PROVE Typed'
<1>1. CASE UNCHANGED vars
  BY <1>1 DEF vars, world, files, procs, Typed, TypedWorld, TypedFiles
<1>2. CASE Steps
  BY <1>2, FilesTyped, WorldTyped DEF Typed
<1> QED BY <1>1, <1>2

LEMMA StepJournal ==
    ASSUME Good(state), TypedJournal(state), Steps \/ UNCHANGED vars
    PROVE  TypedJournal(state')
<1>1. CASE UNCHANGED vars
  BY <1>1 DEF vars, files
<1> QED BY <1>1, OutsideJournal, LauncherJournal, WorkerJournal DEF Steps

(* The copies stay sound, and only a stopped journal is copied.            *)
LEMMA SoundGrows ==
    ASSUME NEW s, Sound(s), paper.cursor \in Nat, paper'.cursor \in Nat,
           source.rows \in Nat, source'.rows \in Nat,
           source.rows <= source'.rows, paper.cursor <= paper'.cursor,
           NEW t, t = s
    PROVE  /\ Good(t) /\ TypedJournal(t) /\ t.cursor <= paper'.cursor
           /\ t.count \in Nat /\ t.count <= t.cursor /\ t.mark <= source'.rows
BY DEF Sound, Good, Shaped
-----------------------------------------------------------------------------
(***************************************************************************)
(* What no command, process or crash takes back.  A terminal run without a *)
(* process stays what it is: nobody may prepare, record or extend, and the *)
(* finalizer never holds the lock over an invalid run (Doomed).            *)
(***************************************************************************)
Rank(status) == CASE status = "PENDING" -> 0 [] status = "OWNED" -> 1 [] status = "ENDED" -> 2

Numbers(s, t) == /\ s.cursor <= t.cursor /\ s.mark <= t.mark
                 /\ s.count <= t.count /\ s.target <= t.target

Advanced(s, t) ==
    \A k \in DOMAIN s.segments :
        k \in DOMAIN t.segments /\ Rank(s.segments[k]) <= Rank(t.segments[k])

Final(s) == s.life = "INVALID" \/ (s.life = "FROZEN" /\ s.active = NoProcess)

JournalForward ==
    /\ Numbers(state, state') /\ Advanced(state, state')
    /\ Final(state) => \A f \in Fields : state'[f] = state[f]
    /\ state'.target # state.target => state.active = NoProcess /\ now >= state.target

(* A finalize saves the copy it read, over a handoff of an open segment.   *)
Overwritten == (\E h \in handoff : ~h.idle) /\ \E c \in copies : state' = Frozen(c)

OnlyForward ==
    /\ source.rows <= source'.rows /\ paper.cursor <= paper'.cursor
    /\ JournalForward \/ Overwritten

LEMMA Ranks ==
    /\ Rank("PENDING") = 0 /\ Rank("OWNED") = 1 /\ Rank("ENDED") = 2
    /\ \A e \in Ends : Rank(e) \in Nat /\ Rank(e) <= Rank("ENDED")
<1>1. Rank("PENDING") = 0 /\ Rank("OWNED") = 1 /\ Rank("ENDED") = 2
  BY DEF Rank
<1>2. \A e \in Ends : e = "PENDING" \/ e = "OWNED" \/ e = "ENDED"
  BY DEF Ends
<1> QED BY <1>1, <1>2

LEMMA SameAdvanced ==
    ASSUME NEW s, Good(s), NEW t, t.segments = s.segments
    PROVE  Advanced(s, t)
<1>1. \A k \in DOMAIN s.segments : s.segments[k] \in Ends
  BY DEF Good, Shaped
<1>2. \A k \in DOMAIN s.segments : Rank(s.segments[k]) \in Nat
  BY <1>1, Ranks
<1>3. \A k \in DOMAIN s.segments : Rank(s.segments[k]) <= Rank(s.segments[k])
  BY <1>2
<1> QED BY <1>3 DEF Advanced

LEMMA ClosedAdvanced ==
    ASSUME NEW s, Good(s), s.active.own # "NONE", NEW life, NEW t,
           \/ t = Closed(s, life)
           \/ t = [Closed(s, life) EXCEPT !.coverage = "OOS_INCOMPLETE"]
    PROVE  /\ t.cursor = s.cursor /\ t.mark = s.mark /\ t.count = s.count
           /\ t.target = s.target /\ t.life = life /\ Advanced(s, t)
           /\ t.coverage \in {s.coverage, "OOS_INCOMPLETE"}
<1> DEFINE c == Closed(s, life)
           k == s.active.segment
<1>1. /\ DOMAIN c = Fields /\ c.segments = [s.segments EXCEPT ![k] = "ENDED"]
      /\ c.cursor = s.cursor /\ c.mark = s.mark /\ c.count = s.count
      /\ c.target = s.target /\ c.life = life /\ c.coverage = s.coverage
  BY DEF Closed, Good, Shaped, Fields
<1>2. t = c \/ t = [c EXCEPT !.coverage = "OOS_INCOMPLETE"]
  OBVIOUS
<1> HIDE DEF c
<1>3. /\ t.segments = c.segments /\ t.cursor = c.cursor /\ t.mark = c.mark
      /\ t.count = c.count /\ t.target = c.target /\ t.life = c.life
      /\ t.coverage \in {c.coverage, "OOS_INCOMPLETE"}
  BY <1>1, <1>2 DEF Fields
<1>4. s.segments \in Seq(Ends)
  BY DEF Good, Shaped
<1> HIDE DEF k
<1>5. /\ DOMAIN t.segments = DOMAIN s.segments
      /\ \A j \in DOMAIN s.segments : t.segments[j] = IF j = k THEN "ENDED" ELSE s.segments[j]
  BY <1>1, <1>3, <1>4
<1>6. \A j \in DOMAIN s.segments : s.segments[j] \in Ends
  BY <1>4
<1>7. ASSUME NEW j \in DOMAIN s.segments PROVE Rank(s.segments[j]) <= Rank(t.segments[j])
  <2>1. Rank(s.segments[j]) \in Nat /\ Rank(s.segments[j]) <= Rank("ENDED")
    BY <1>6, Ranks
  <2>2. t.segments[j] = "ENDED" \/ t.segments[j] = s.segments[j]
    BY <1>5
  <2>3. CASE t.segments[j] = "ENDED"
    BY <2>1, <2>3
  <2>4. CASE t.segments[j] = s.segments[j]
    BY <2>1, <2>4
  <2> QED BY <2>2, <2>3, <2>4
<1>8. Advanced(s, t)
  BY <1>5, <1>7 DEF Advanced
<1> QED BY <1>1, <1>3, <1>8

(* What a record writes is not behind what the journal says.               *)
LEMMA RecordForward ==
    ASSUME IInv, Window, Reading, NEW k \in Segments,
           RecordMain(k) \/ RecordCatchUp(k) \/ RecordCatchUpStop(k) \/ RecordFinal(k)
    PROVE  /\ Numbers(state, state') /\ Advanced(state, state')
           /\ state' = state \/ Owned(state, k)
           /\ state'.target = state.target /\ state'.life = state.life
           /\ lock' = lock
<1>1. /\ paper.cursor \in Nat /\ source.rows \in Nat /\ seen.mark \in Nat
      /\ state.cursor \in Nat /\ state.mark \in Nat /\ state.count \in Nat
      /\ state.target \in Nat
  BY DEF IInv, Held, Good, Shaped, Reading, Window
<1>2. \E p : /\ p.cursor \in Nat /\ p.mark \in Nat /\ p.count \in Nat
             /\ \/ state' = state
                \/ ~Contradicts(state, k, p) /\ state' = Recorded(state, p)
  <2>1. CASE RecordMain(k)
    <3> DEFINE m == Max({paper.cursor, seen.mark})
               c == Covered(state.target)
               p == [cursor |-> paper.cursor, mark |-> m, count |-> paper.cursor, covered |-> c]
    <3>1. m \in Nat
      BY <1>1, MaxOfTwo
    <3>2. \/ state' = state
          \/ ~Contradicts(state, k, p) /\ state' = Recorded(state, p)
      BY <2>1 DEF RecordMain, Record, MainProgress
    <3> HIDE DEF m, c
    <3>3. p.cursor \in Nat /\ p.mark \in Nat /\ p.count \in Nat
      BY <1>1, <3>1
    <3> QED BY <3>2, <3>3
  <2>2. CASE RecordCatchUp(k)
    <3> DEFINE m == Max({paper.cursor, source.rows})
               p == [cursor |-> paper.cursor, mark |-> m, count |-> paper.cursor,
                     covered |-> seen.covered]
    <3>1. m \in Nat
      BY <1>1, MaxOfTwo
    <3>2. \/ state' = state
          \/ ~Contradicts(state, k, p) /\ state' = Recorded(state, p)
      BY <2>2 DEF RecordCatchUp, Record, CatchUpProgress
    <3> HIDE DEF m
    <3>3. p.cursor \in Nat /\ p.mark \in Nat /\ p.count \in Nat
      BY <1>1, <3>1
    <3> QED BY <3>2, <3>3
  <2>3. CASE RecordCatchUpStop(k)
    <3> DEFINE p == [cursor |-> paper.cursor, mark |-> seen.mark, count |-> seen.count,
                     covered |-> seen.covered]
    <3>1. seen.count \in Nat
      BY <1>1, <2>3 DEF RecordCatchUpStop, Reading, ReadsAt
    <3>2. \/ state' = state
          \/ ~Contradicts(state, k, p) /\ state' = Recorded(state, p)
      BY <2>3 DEF RecordCatchUpStop, Record
    <3>3. p.cursor \in Nat /\ p.mark \in Nat /\ p.count \in Nat
      BY <1>1, <3>1
    <3> QED BY <3>2, <3>3
  <2>4. CASE RecordFinal(k)
    <3> DEFINE c == Covered(state.target)
               p == [cursor |-> paper.cursor, mark |-> seen.mark, count |-> paper.cursor,
                     covered |-> c]
    <3>1. \/ state' = state
          \/ ~Contradicts(state, k, p) /\ state' = Recorded(state, p)
      BY <2>4 DEF RecordFinal, Record, FinalProgress
    <3> HIDE DEF c
    <3>2. p.cursor \in Nat /\ p.mark \in Nat /\ p.count \in Nat
      BY <1>1
    <3> QED BY <3>1, <3>2
  <2> QED BY <2>1, <2>2, <2>3, <2>4
<1>3. PICK p : /\ p.cursor \in Nat /\ p.mark \in Nat /\ p.count \in Nat
               /\ \/ state' = state
                  \/ ~Contradicts(state, k, p) /\ state' = Recorded(state, p)
  BY <1>2
<1>4. lock' = lock
  BY DEF RecordMain, RecordCatchUp, RecordCatchUpStop, RecordFinal, Record
<1>5. CASE state' = state
  BY <1>1, <1>4, <1>5, SameAdvanced DEF IInv, Numbers
<1>6. CASE ~Contradicts(state, k, p) /\ state' = Recorded(state, p)
  <2>1. /\ state'.cursor = p.cursor /\ state'.mark = p.mark /\ state'.count = p.count
        /\ state'.target = state.target /\ state'.life = state.life
        /\ state'.segments = state.segments
    BY <1>6 DEF Recorded, IInv, Good, Shaped, Fields
  <2>2. /\ Owned(state, k) /\ ~(p.cursor < state.cursor) /\ ~(p.mark < state.mark)
        /\ ~(p.count < state.count)
    BY <1>6 DEF Contradicts
  <2>3. Numbers(state, state')
    BY <1>1, <1>3, <2>1, <2>2 DEF Numbers
  <2> QED BY <1>4, <2>1, <2>2, <2>3, SameAdvanced DEF IInv
<1> QED BY <1>3, <1>5, <1>6

(* The claim and the launch of a segment, and the flags of its process.    *)
LEMMA ClaimForward ==
    ASSUME IInv, NEW k \in Segments, ClaimSegment(k)
    PROVE  /\ state'.cursor = state.cursor /\ state'.mark = state.mark
           /\ state'.count = state.count /\ state'.target = state.target
           /\ state'.life = state.life /\ Advanced(state, state')
<1>1. /\ state'.cursor = state.cursor /\ state'.mark = state.mark
      /\ state'.count = state.count /\ state'.target = state.target
      /\ state'.life = state.life
      /\ state'.segments = [state.segments EXCEPT ![k] = "OWNED"]
  BY DEF ClaimSegment, IInv, Good, Shaped, Fields
<1>2. state.segments \in Seq(Ends) /\ state.segments[k] = "PENDING"
  BY DEF ClaimSegment, Pending, IInv, Good, Shaped, Consistent, NoProcess
<1>3. /\ DOMAIN state'.segments = DOMAIN state.segments
      /\ \A j \in DOMAIN state.segments :
            state'.segments[j] = IF j = k THEN "OWNED" ELSE state.segments[j]
  BY <1>1, <1>2
<1>4. \A j \in DOMAIN state.segments : state.segments[j] \in Ends
  BY <1>2
<1>5. ASSUME NEW j \in DOMAIN state.segments
      PROVE  Rank(state.segments[j]) <= Rank(state'.segments[j])
  <2>1. CASE j = k
    <3>1. state.segments[j] = "PENDING" /\ state'.segments[j] = "OWNED"
      BY <1>2, <1>3, <2>1
    <3>2. Rank("PENDING") <= Rank("OWNED")
      BY Ranks
    <3> QED BY <3>1, <3>2
  <2>2. CASE j # k
    <3>1. state'.segments[j] = state.segments[j]
      BY <1>3, <2>2
    <3>2. Rank(state.segments[j]) \in Nat
      BY <1>4, Ranks
    <3> QED BY <3>1, <3>2
  <2> QED BY <2>1, <2>2
<1> QED BY <1>1, <1>3, <1>5 DEF Advanced

LEMMA PrepareForward ==
    ASSUME IInv, NEW l \in Launchers, PrepareSegment(l)
    PROVE  /\ state'.cursor = state.cursor /\ state'.mark = state.mark
           /\ state'.count = state.count /\ state'.target = state.target
           /\ state' = state \/ (~Terminal(state) /\ ~Terminal(state'))
           /\ Advanced(state, state')
<1>1. CASE ~MayPrepare(state)
  <2>1. state' = state
    BY <1>1 DEF PrepareSegment
  <2> QED BY <2>1, SameAdvanced DEF IInv
<1>2. CASE MayPrepare(state)
  <2> DEFINE a == [segment |-> Len(state.segments) + 1, own |-> "PENDING",
                   late |-> FALSE, awaited |-> FALSE]
  <2>1. /\ ~Terminal(state)
        /\ state' = [state EXCEPT !.life = "ACTIVE",
                       !.segments = Append(@, "PENDING"), !.active = a]
    BY <1>2 DEF PrepareSegment, MayPrepare
  <2> HIDE DEF a
  <2>2. /\ state'.cursor = state.cursor /\ state'.mark = state.mark
        /\ state'.count = state.count /\ state'.target = state.target
        /\ state'.life = "ACTIVE" /\ state'.segments = Append(state.segments, "PENDING")
    BY <2>1 DEF IInv, Good, Shaped, Fields
  <2>3. state.segments \in Seq(Ends) /\ \A j \in DOMAIN state.segments : state.segments[j] \in Ends
    BY DEF IInv, Good, Shaped
  <2>4. \A j \in DOMAIN state.segments :
            j \in DOMAIN state'.segments /\ state'.segments[j] = state.segments[j]
    BY <2>2, <2>3
  <2>5. \A j \in DOMAIN state.segments : Rank(state.segments[j]) \in Nat
    BY <2>3, Ranks
  <2>6. \A j \in DOMAIN state.segments :
            j \in DOMAIN state'.segments /\ Rank(state.segments[j]) <= Rank(state'.segments[j])
    BY <2>4, <2>5
  <2>7. Advanced(state, state')
    BY <2>6 DEF Advanced
  <2> QED BY <2>1, <2>2, <2>7 DEF Terminal
<1> QED BY <1>1, <1>2

(* The journal after a step is no smaller, and its boundary stays where it *)
(* was while there is a process.                                           *)
MovesOn ==
    /\ Numbers(state, state') /\ Advanced(state, state')
    /\ state'.target # state.target => state.active = NoProcess /\ now >= state.target

LEMMA JournalNumbers ==
    ASSUME IInv, Window, Reading
    PROVE  /\ state.cursor \in Nat /\ state.mark \in Nat
           /\ state.count \in Nat /\ state.target \in Nat
BY DEF IInv, Good, Shaped, Window, Reading

LEMMA SameMovesOn ==
    ASSUME IInv, Window, Reading,
           state'.cursor = state.cursor, state'.mark = state.mark,
           state'.count = state.count, state'.target = state.target,
           state'.segments = state.segments \/ Advanced(state, state')
    PROVE  MovesOn
BY JournalNumbers, SameAdvanced DEF IInv, Numbers, MovesOn

LEMMA RewrittenMovesOn ==
    ASSUME IInv, Window, Reading,
           \/ state' = state \/ state' = Reconciled(state)
           \/ \E k, m : state' = FailedStartup(state, k, m)
           \/ state.active.own # "NONE" /\ state' = Closed(state, "STOPPED")
           \/ /\ state.active.own # "NONE"
              /\ state' = [Closed(state, "INVALID") EXCEPT !.coverage = "OOS_INCOMPLETE"]
    PROVE  MovesOn
<1>1. \/ state' = state
      \/ state.active.own # "NONE" /\ state' = Closed(state, "STOPPED")
      \/ /\ state.active.own # "NONE"
         /\ state' = [Closed(state, "INVALID") EXCEPT !.coverage = "OOS_INCOMPLETE"]
  <2>1. CASE state' = Reconciled(state)
    BY <2>1 DEF Reconciled
  <2>2. ASSUME NEW k, NEW m, state' = FailedStartup(state, k, m)
        PROVE  \/ state' = state
               \/ state.active.own # "NONE" /\ state' = Closed(state, "STOPPED")
               \/ /\ state.active.own # "NONE"
                  /\ state' = [Closed(state, "INVALID") EXCEPT !.coverage = "OOS_INCOMPLETE"]
    BY <2>2 DEF FailedStartup, Pending, Owned
  <2> QED BY <2>1, <2>2
<1>2. CASE state' = state
  BY <1>2, SameMovesOn
<1>3. CASE state.active.own # "NONE" /\ state' = Closed(state, "STOPPED")
  <2>1. /\ state'.cursor = state.cursor /\ state'.mark = state.mark
        /\ state'.count = state.count /\ state'.target = state.target
        /\ Advanced(state, state')
    BY <1>3, ClosedAdvanced DEF IInv
  <2> QED BY <2>1, SameMovesOn
<1>4. CASE /\ state.active.own # "NONE"
           /\ state' = [Closed(state, "INVALID") EXCEPT !.coverage = "OOS_INCOMPLETE"]
  <2>1. /\ state'.cursor = state.cursor /\ state'.mark = state.mark
        /\ state'.count = state.count /\ state'.target = state.target
        /\ Advanced(state, state')
    BY <1>4, ClosedAdvanced DEF IInv
  <2> QED BY <2>1, SameMovesOn
<1> QED BY <1>1, <1>2, <1>3, <1>4

LEMMA OutsideMovesOn ==
    ASSUME IInv, Window, Reading,
           World \/ ClaimDeadline \/ WaiterDies \/ GiveUp \/ Commands \/ FinalizerDies
    PROVE  MovesOn
<1>1. \/ state' = state \/ state' = Reconciled(state)
      \/ \E k, m : state' = FailedStartup(state, k, m)
      \/ state' = [state EXCEPT !.active.late = TRUE]
      \/ state' = [state EXCEPT !.active.awaited = FALSE]
      \/ state' = [state EXCEPT !.life = "FROZEN"] \/ Refrozen(state, state')
      \/ Extend
  BY DEF World, Tick, InsertRow, OpenGap, ResolveGap, ClaimDeadline, WaiterDies, GiveUp,
         Commands, Status, RequestStop, WriteHandoff, Freeze, ReadForAdoption, Readopt,
         FinalizerDies, files
<1>2. CASE \/ state' = state \/ state' = Reconciled(state)
           \/ \E k, m : state' = FailedStartup(state, k, m)
  BY <1>2, RewrittenMovesOn
<1>3. CASE \/ state' = [state EXCEPT !.active.late = TRUE]
           \/ state' = [state EXCEPT !.active.awaited = FALSE]
           \/ state' = [state EXCEPT !.life = "FROZEN"] \/ Refrozen(state, state')
  <2>1. /\ state'.cursor = state.cursor /\ state'.mark = state.mark
        /\ state'.count = state.count /\ state'.target = state.target
        /\ state'.segments = state.segments
    BY <1>3 DEF IInv, Good, Shaped, Fields, Refrozen
  <2> QED BY <2>1, SameMovesOn
<1>4. CASE Extend
  <2>1. /\ state'.cursor = state.cursor /\ state'.mark = state.mark
        /\ state'.count = state.count /\ state'.target = state.target + 1
        /\ state'.segments = state.segments
        /\ state.life = "STOPPED" /\ now >= state.target
    BY <1>4 DEF Extend, IInv, Good, Shaped, Fields
  <2>2. state.active = NoProcess
    BY <2>1 DEF Window, Busy, IInv, Good, Shaped, Consistent
  <2>3. Advanced(state, state')
    BY <2>1, SameAdvanced DEF IInv
  <2> QED BY <2>1, <2>2, <2>3, JournalNumbers DEF Numbers, MovesOn
<1> QED BY <1>1, <1>2, <1>3, <1>4

LEMMA LauncherMovesOn ==
    ASSUME IInv, Window, Reading, NEW l \in Launchers,
           Resume(l) \/ Launching(l) \/ SpawnFails(l) \/ LauncherDies(l)
    PROVE  MovesOn
<1>1. CASE Resume(l) \/ SpawnFails(l) \/ ClearStop(l) \/ LauncherBlocked(l) \/ LauncherDies(l)
  <2>1. \/ state' = state \/ state' = Reconciled(state)
        \/ \E k, m : state' = FailedStartup(state, k, m)
    BY <1>1 DEF Resume, SpawnFails, ClearStop, LauncherBlocked, LauncherDies, files
  <2> QED BY <2>1, RewrittenMovesOn
<1>2. CASE PrepareSegment(l)
  BY <1>2, PrepareForward, SameMovesOn
<1>3. CASE Spawn(l)
  <2> DEFINE b == state.active.awaited \/ Pending(state, launcher[l].segment)
  <2>1. state' = [state EXCEPT !.active.awaited = b]
    BY <1>3 DEF Spawn
  <2> HIDE DEF b
  <2>2. /\ state'.cursor = state.cursor /\ state'.mark = state.mark
        /\ state'.count = state.count /\ state'.target = state.target
        /\ state'.segments = state.segments
    BY <2>1 DEF IInv, Good, Shaped, Fields
  <2> QED BY <2>2, SameMovesOn
<1> QED BY <1>1, <1>2, <1>3 DEF Launching

LEMMA WorkerMovesOn ==
    ASSUME IInv, Window, Reading, NEW k \in Segments,
           Working(k) \/ OpenFails(k) \/ WorkerFails(k) \/ Killed(k)
    PROVE  MovesOn
<1>1. CASE ClaimSegment(k)
  BY <1>1, ClaimForward, SameMovesOn
<1>2. CASE RecordMain(k) \/ RecordCatchUp(k) \/ RecordCatchUpStop(k) \/ RecordFinal(k)
  BY <1>2, RecordForward DEF MovesOn
<1>3. CASE EndSegment(k)
  <2>1. state.active = NoProcess \/ state.active.own # "NONE"
    BY DEF IInv, Good, Consistent
  <2>2. \/ state' = state
        \/ state.active.own # "NONE" /\ state' = Closed(state, "STOPPED")
        \/ /\ state.active.own # "NONE"
           /\ state' = [Closed(state, "INVALID") EXCEPT !.coverage = "OOS_INCOMPLETE"]
    BY <1>3, <2>1 DEF EndSegment
  <2> QED BY <2>2, RewrittenMovesOn
<1>4. CASE ClaimRejected(k) \/ OpenFails(k)
  <2>1. \E j, m : state' = FailedStartup(state, j, m)
    BY <1>4 DEF ClaimRejected, OpenFails
  <2> QED BY <2>1, RewrittenMovesOn
<1>5. CASE \/ Open(k) \/ StopWhileArmed(k) \/ SeeCatchUp(k) \/ SeeEnd(k) \/ SeeRows(k)
           \/ MainWork(k) \/ CatchUpWork(k) \/ DrainCatchUp(k) \/ DrainFinal(k)
           \/ RemoveStop(k) \/ WorkerBlocked(k) \/ WorkerFails(k) \/ Killed(k)
  <2>1. state' = state
    BY <1>5 DEF Open, StopWhileArmed, SeeCatchUp, SeeEnd, SeeRows, Turn, MainWork,
           CatchUpWork, DrainCatchUp, DrainFinal, Drain, RemoveStop, WorkerBlocked,
           WorkerFails, Killed, files
  <2> QED BY <2>1, RewrittenMovesOn
<1> QED BY <1>1, <1>2, <1>3, <1>4, <1>5 DEF Working

(* A terminal run without a process stays as it is.                        *)
LEMMA FinalIdle ==
    ASSUME IInv, Window, Final(state)
    PROVE  state.active = NoProcess /\ state.life \in {"INVALID", "FROZEN"}
BY DEF Final, IInv, Good, Shaped, Consistent, Window, Busy

LEMMA OutsideFinal ==
    ASSUME IInv, Window, Doomed, Final(state),
           World \/ ClaimDeadline \/ WaiterDies \/ GiveUp \/ Commands \/ FinalizerDies
    PROVE  \A f \in Fields : state'[f] = state[f]
<1>1. state.active = NoProcess /\ state.life \in {"INVALID", "FROZEN"}
  BY FinalIdle
<1>2. CASE World \/ ClaimDeadline \/ WaiterDies \/ GiveUp
  <2>1. state' = state
    BY <1>1, <1>2 DEF NoProcess, World, Tick, InsertRow, OpenGap, ResolveGap, ClaimDeadline,
       WaiterDies, GiveUp, files
  <2> QED BY <2>1
<1>3. CASE Commands \/ FinalizerDies
  <2>1. \/ state' = state
        \/ state' = [state EXCEPT !.life = "FROZEN"] /\ lock = "FINALIZER"
        \/ state.life = "FROZEN" /\ Refrozen(state, state')
    BY <1>1, <1>3, NoProcessIdle DEF Commands, Status, RequestStop, Extend, WriteHandoff,
       Freeze, ReadForAdoption, Readopt, FinalizerDies
  <2>2. ASSUME state' = [state EXCEPT !.life = "FROZEN"], lock = "FINALIZER"
        PROVE  \A f \in Fields : state'[f] = state[f]
    <3>1. state.life = "FROZEN"
      BY <1>1, <2>2 DEF Doomed
    <3>2. DOMAIN state = Fields
      BY DEF IInv, Good, Shaped
    <3> QED BY <2>2, <3>1, <3>2
  <2>3. state.life = "FROZEN" /\ Refrozen(state, state')
          => \A f \in Fields : state'[f] = state[f]
    BY DEF Refrozen
  <2> QED BY <2>1, <2>2, <2>3
<1> QED BY <1>2, <1>3

LEMMA LauncherFinal ==
    ASSUME IInv, Window, Final(state), NEW l \in Launchers,
           Resume(l) \/ Launching(l) \/ SpawnFails(l) \/ LauncherDies(l)
    PROVE  \A f \in Fields : state'[f] = state[f]
<1>1. state.active = NoProcess /\ state.life \in {"INVALID", "FROZEN"}
  BY FinalIdle
<1>2. CASE Spawn(l)
  <2> DEFINE b == state.active.awaited \/ Pending(state, launcher[l].segment)
  <2>1. state' = [state EXCEPT !.active.awaited = b]
    BY <1>2 DEF Spawn
  <2> HIDE DEF b
  <2>2. /\ \A f \in Fields : f # "active" => state'[f] = state[f]
        /\ state'.active.own = state.active.own
    BY <2>1 DEF IInv, Good, Shaped, Fields, Actives
  <2>3. state'.active.own = "NONE"
    BY <1>1, <2>2 DEF NoProcess
  <2>4. state'.active = NoProcess
    BY <1>2, <2>3, IInvKept, SpawnStep DEF Kept, Good, Consistent
  <2> QED BY <1>1, <2>2, <2>4
<1>3. CASE ~Spawn(l)
  <2>1. state' = state
    BY <1>1, <1>3, NoProcessIdle DEF Resume, Launching, ClearStop, PrepareSegment,
       MayPrepare, Terminal, LauncherBlocked, SpawnFails, LauncherDies, files
  <2> QED BY <2>1
<1> QED BY <1>2, <1>3

LEMMA WorkerFinal ==
    ASSUME IInv, Window, Final(state), NEW k \in Segments,
           Working(k) \/ OpenFails(k) \/ WorkerFails(k) \/ Killed(k)
    PROVE  \A f \in Fields : state'[f] = state[f]
<1>1. state.active = NoProcess
  BY FinalIdle
<1>2. state' = state
  BY <1>1, NoProcessIdle DEF Working, ClaimSegment, ClaimRejected, Open, StopWhileArmed,
     SeeCatchUp, SeeEnd, SeeRows, Turn, MainWork, RecordMain, CatchUpWork, RecordCatchUp,
     DrainCatchUp, RecordCatchUpStop, DrainFinal, RecordFinal, Record, Drain, RemoveStop,
     EndSegment, WorkerBlocked, OpenFails, WorkerFails, Killed, files
<1> QED BY <1>2

LEMMA FinalKept ==
    ASSUME IInv, Window, Doomed, Final(state), Steps
    PROVE  \A f \in Fields : state'[f] = state[f]
BY OutsideFinal, LauncherFinal, WorkerFinal DEF Steps

(* A run becomes INVALID in a section of its own worker under the lock.    *)
LEMMA BecomesInvalid ==
    ASSUME IInv, Window, Steps, state.life # "INVALID", state'.life = "INVALID"
    PROVE  state'.coverage = "OOS_INCOMPLETE" /\ lock' = "FREE"
<1> DEFINE Fails == /\ state' = [Closed(state, "INVALID") EXCEPT !.coverage = "OOS_INCOMPLETE"]
                    /\ lock' = "FREE"
<1>1. DOMAIN state = Fields /\ DOMAIN Closed(state, "INVALID") = Fields
  BY DEF IInv, Good, Shaped, Closed
<1>2. Closed(state, "STOPPED").life = "STOPPED"
  BY <1>1 DEF Closed, Fields
<1>3. /\ Reconciled(state).life # "INVALID"
      /\ \A k : FailedStartup(state, k, FALSE).life # "INVALID"
  BY <1>2 DEF Reconciled, FailedStartup
<1>4. ASSUME NEW k \in Segments, Working(k) \/ OpenFails(k) \/ WorkerFails(k) \/ Killed(k)
      PROVE  Fails
  <2>1. CASE ClaimSegment(k)
    BY <2>1 DEF ClaimSegment, IInv, Good, Shaped, Fields
  <2>2. CASE RecordMain(k) \/ RecordCatchUp(k) \/ RecordCatchUpStop(k) \/ RecordFinal(k)
    <3>1. state' = state \/ \E p : state' = Recorded(state, p)
      BY <2>2 DEF RecordMain, RecordCatchUp, RecordCatchUpStop, RecordFinal, Record
    <3>2. \A p : Recorded(state, p).life = state.life
      BY <1>1 DEF Recorded, Fields
    <3> QED BY <3>1, <3>2
  <2>3. CASE EndSegment(k)
    BY <1>2, <2>3 DEF EndSegment
  <2>4. CASE ClaimRejected(k) \/ OpenFails(k)
    <3>1. state' = FailedStartup(state, k, TRUE) /\ lock' = "FREE"
      BY <2>4 DEF ClaimRejected, OpenFails
    <3>2. \/ state' = state \/ state' = Closed(state, "STOPPED")
          \/ state' = [Closed(state, "INVALID") EXCEPT !.coverage = "OOS_INCOMPLETE"]
      BY <3>1 DEF FailedStartup
    <3> QED BY <1>2, <3>1, <3>2
  <2>5. CASE \/ Open(k) \/ StopWhileArmed(k) \/ SeeCatchUp(k) \/ SeeEnd(k) \/ SeeRows(k)
             \/ MainWork(k) \/ CatchUpWork(k) \/ DrainCatchUp(k) \/ DrainFinal(k)
             \/ RemoveStop(k) \/ WorkerBlocked(k) \/ WorkerFails(k) \/ Killed(k)
    <3>1. state' = state
      BY <2>5 DEF Open, StopWhileArmed, SeeCatchUp, SeeEnd, SeeRows, Turn, MainWork,
             CatchUpWork, DrainCatchUp, DrainFinal, Drain, RemoveStop, WorkerBlocked,
             WorkerFails, Killed, files
    <3> QED BY <3>1
  <2> QED BY <1>4, <2>1, <2>2, <2>3, <2>4, <2>5 DEF Working
<1>5. ASSUME NEW l \in Launchers, Resume(l) \/ Launching(l) \/ SpawnFails(l) \/ LauncherDies(l)
      PROVE  FALSE
  <2>1. CASE Resume(l) \/ SpawnFails(l) \/ ClearStop(l) \/ LauncherBlocked(l) \/ LauncherDies(l)
    BY <1>3, <2>1 DEF Resume, SpawnFails, ClearStop, LauncherBlocked, LauncherDies, files
  <2>2. CASE PrepareSegment(l)
    BY <2>2, PrepareForward DEF Terminal
  <2>3. CASE Spawn(l)
    BY <2>3 DEF Spawn, IInv, Good, Shaped, Fields
  <2> QED BY <1>5, <2>1, <2>2, <2>3 DEF Launching
<1>6. ASSUME World \/ ClaimDeadline \/ WaiterDies \/ GiveUp \/ Commands \/ FinalizerDies
      PROVE  FALSE
  <2>1. \/ state' = state \/ state' = Reconciled(state)
        \/ \E k : state' = FailedStartup(state, k, FALSE)
        \/ state'.life = state.life \/ state'.life = "FROZEN"
    BY Refreezes, <1>1, <1>6 DEF World, Tick, InsertRow, OpenGap, ResolveGap, ClaimDeadline,
       WaiterDies, GiveUp, Commands, Status, RequestStop, Extend, WriteHandoff, Freeze,
       ReadForAdoption, Readopt, Refrozen, FinalizerDies, files, Fields
  <2> QED BY <1>3, <2>1
<1>7. Fails
  BY <1>4, <1>5, <1>6 DEF Steps
<1>8. [Closed(state, "INVALID") EXCEPT !.coverage = "OOS_INCOMPLETE"].coverage = "OOS_INCOMPLETE"
  BY <1>1 DEF Fields
<1> QED BY <1>7, <1>8

LEMMA InitDoomed == Init => Doomed
BY DEF Init, Doomed

LEMMA StepDoomed ==
    ASSUME IInv, Window, Doomed, Steps \/ UNCHANGED vars PROVE Doomed'
<1> SUFFICES ASSUME state'.life = "INVALID"
             PROVE  state'.coverage = "OOS_INCOMPLETE" /\ lock' # "FINALIZER"
  BY DEF Doomed
<1>1. CASE UNCHANGED vars
  BY <1>1 DEF vars, files, Doomed
<1>2. CASE Steps /\ state.life # "INVALID"
  BY <1>2, BecomesInvalid
<1>3. CASE Steps /\ state.life = "INVALID"
  <2>1. state'.coverage = state.coverage /\ state.coverage = "OOS_INCOMPLETE"
    BY <1>3, FinalKept DEF Doomed, Final, Fields
  <2>2. ~WriteHandoff
    BY <2>1 DEF WriteHandoff, Freezable
  <2>3. lock' \in {lock, "FREE", "STUCK"}
    BY <1>3, <2>2, ZenonT(60)
    DEF Steps, World, Tick, InsertRow, OpenGap, ResolveGap, ClaimDeadline, WaiterDies,
        GiveUp, Resume, Launching, ClearStop, PrepareSegment, Spawn, LauncherBlocked,
        SpawnFails, LauncherDies, Working, ClaimSegment, ClaimRejected, Open,
        StopWhileArmed, SeeCatchUp, SeeEnd, SeeRows, Turn, MainWork, RecordMain,
        CatchUpWork, RecordCatchUp, DrainCatchUp, RecordCatchUpStop, DrainFinal,
        RecordFinal, Record, Drain, RemoveStop, EndSegment, WorkerBlocked, OpenFails,
        WorkerFails, Killed, Commands, Status, RequestStop, Extend, Freeze, ReadForAdoption,
        Readopt, FinalizerDies, files
  <2> QED BY <1>3, <2>1, <2>3 DEF Doomed
<1> QED BY <1>1, <1>2, <1>3

-----------------------------------------------------------------------------
(***************************************************************************)
(* All of it together.  As long as the journal was never cut off           *)
(* everything above holds (Intact); once a finalize has saved a stale copy *)
(* over a segment that was open, the journal is frozen, names no process   *)
(* and changes no more (CutOff, CutStays).                                 *)
(***************************************************************************)
Intact == IInv /\ Window /\ Progress /\ Doomed /\ Sealed

Inv == Kept(TRUE) /\ Typed /\ Sound(state) /\ Copied /\ Backed /\ (Intact \/ CutOff)

LEMMA InitInv == Init => Inv
<1>1. Init => IInv /\ Kept(TRUE)
  BY InitGood, IInvKept
<1>2. Init => Intact
  BY <1>1, InitWindow, InitProgress, InitDoomed, InitSealed DEF Intact
<1> QED BY <1>1, <1>2, InitTyped, InitSealed DEF Inv

LEMMA StepIntact ==
    ASSUME Intact, Backed, Steps \/ UNCHANGED vars PROVE Intact'
<1>1. IInv' /\ Window'
  BY StepIInv, StepWindow DEF Intact
<1>2. Progress' /\ Doomed'
  BY StepProgress, StepDoomed DEF Intact
<1>3. Sealed'
  BY StepSealed DEF Intact
<1> QED BY <1>1, <1>2, <1>3 DEF Intact

LEMMA CutOffCut ==
    ASSUME CutOff PROVE Cut(state)
BY DEF CutOff, Cut

(* Whoever is past its claim is alone, and the journal still verifies.     *)
LEMMA StepKept ==
    ASSUME Inv, Steps \/ UNCHANGED vars PROVE Kept(TRUE)'
<1>1. CASE Intact
  <2>1. IInv'
    BY <1>1, StepIntact DEF Inv, Intact
  <2> QED BY <2>1 DEF IInv, Kept, Sole, Writers, Owned
<1>2. CASE CutOff
  <2>1. Kept(TRUE) /\ Cut(state)
    BY <1>2, CutOffCut DEF Inv
  <2> QED BY <2>1, StepGood
<1> QED BY <1>1, <1>2 DEF Inv

LEMMA StepSound ==
    ASSUME Inv, Steps \/ UNCHANGED vars PROVE Sound(state)'
<1>1. Good(state)' /\ Behind' /\ TypedJournal(state)'
  BY StepKept, StepJournal DEF Inv, Kept, Sound, TypedJournal
<1>2. source.rows <= source'.rows
  BY DatabasesGrow DEF Inv
<1>3. CASE Intact
  <2>1. Reading'
    BY <1>3, StepIntact DEF Inv, Intact, Progress
  <2> QED BY <1>1, <2>1 DEF Sound, Reading, Behind
<1>4. CASE CutOff
  <2>1. Same(state, state')
    BY <1>4, CutOffCut, CutStays DEF Inv, Kept
  <2>2. /\ state'.count = state.count /\ state'.cursor = state.cursor
        /\ state'.mark = state.mark
    BY <2>1 DEF Same, Fields
  <2>3. source.rows \in Nat /\ source'.rows \in Nat
    BY StepKept DEF Inv, Kept, Held
  <2>4. state.count \in Nat /\ state.count <= state.cursor /\ state.mark <= source.rows
    BY DEF Inv, Sound
  <2>5. state.mark \in Nat
    BY DEF Inv, Kept, Good, Shaped
  <2> QED BY <1>1, <1>2, <2>2, <2>3, <2>4, <2>5 DEF Sound, Behind
<1> QED BY <1>3, <1>4 DEF Inv

(* A copy is taken of a stopped journal, which names no process.           *)
LEMMA StepCopied ==
    ASSUME Inv, Steps \/ UNCHANGED vars PROVE Copied'
<1>1. state.life = "STOPPED" => state.active = NoProcess
  BY DEF Inv, Intact, Window, Busy, IInv, Good, Consistent, CutOff, Shaped, Actives
<1>2. \A c \in copies' : Sound(c) /\ c.life = "STOPPED" /\ c.active = NoProcess
  BY <1>1, CopiesWrites DEF Inv, Copied
<1>3. /\ paper.cursor \in Nat /\ paper'.cursor \in Nat
      /\ source.rows \in Nat /\ source'.rows \in Nat
  BY StepKept DEF Inv, Kept, Held
<1>4. source.rows <= source'.rows /\ paper.cursor <= paper'.cursor
  BY DatabasesGrow DEF Inv
<1>5. ASSUME NEW c \in copies' PROVE Sound(c)'
  BY <1>2, <1>3, <1>4, SoundGrows DEF Sound, Good, Shaped, Consistent, TypedJournal
<1> QED BY <1>2, <1>5 DEF Copied

LEMMA StepInv ==
    ASSUME Inv, Steps \/ UNCHANGED vars PROVE Inv'
<1>1. Kept(TRUE)' /\ Sound(state)' /\ Copied'
  BY StepKept, StepSound, StepCopied
<1>2. Typed' /\ Backed'
  BY StepTyped, StepBacked DEF Inv
<1>3. CASE Intact
  BY <1>1, <1>2, <1>3, StepIntact DEF Inv
<1>4. CASE CutOff
  <2>1. Same(state, state')
    BY <1>4, CutOffCut, CutStays DEF Inv, Kept
  <2>2. ~WriteHandoff
    BY <1>4 DEF CutOff, WriteHandoff
  <2>3. handoff' = handoff
    BY <2>2, HandoffWrites
  <2>4. CutOff'
    BY <1>4, <2>1, <2>3 DEF CutOff, Same, Fields
  <2> QED BY <1>1, <1>2, <2>4 DEF Inv
<1> QED BY <1>3, <1>4 DEF Inv

(* The save of a copy over a handoff of an open segment.                   *)
LEMMA AdoptInv ==
    ASSUME Inv, NEW c \in copies, AdoptHandoff(c), NEW h \in handoff, ~h.idle
    PROVE  Inv' /\ source' = source /\ paper' = paper /\ state' = Frozen(c)
<1>1. /\ UNCHANGED <<source, paper, handoff, lock, stop, worker, seen, world>>
      /\ state' = Frozen(c) /\ copies' = copies \ {c}
  BY DEF AdoptHandoff, world, procs
<1>2. Sound(c) /\ c.life = "STOPPED" /\ c.active = NoProcess
  BY DEF Inv, Copied
<1>3. /\ DOMAIN state' = Fields /\ state'.life = "FROZEN"
      /\ \A f \in Fields \ {"life"} : state'[f] = c[f]
  BY <1>1, <1>2 DEF Frozen, Sound, Good, Shaped, Fields
<1>4. /\ state'.active = c.active /\ state'.segments = c.segments
      /\ state'.cursor = c.cursor /\ state'.mark = c.mark /\ state'.count = c.count
      /\ state'.target = c.target /\ state'.coverage = c.coverage
  BY <1>3 DEF Fields
<1>5. Good(state')
  BY <1>2, <1>3, <1>4, AlikeGood DEF Sound, Lives
<1>6. TypedJournal(state')
  BY <1>2, <1>4 DEF Sound, TypedJournal
<1>7. Sound(state)'
  BY <1>1, <1>2, <1>4, <1>5, <1>6 DEF Sound, Good, Shaped, Consistent, TypedJournal
<1>8. Kept(TRUE)'
  BY <1>1, <1>7 DEF Inv, Kept, Held, Behind, Writers, Sound
<1>9. Copied'
  BY <1>1 DEF Inv, Copied, Sound
<1>10. Typed' /\ Backed' /\ CutOff'
  BY <1>1, <1>2, <1>3, <1>4
  DEF Inv, Typed, TypedWorld, TypedFiles, Backed, CutOff, world
<1> QED BY <1>1, <1>7, <1>8, <1>9, <1>10 DEF Inv

(* Every other adoption saves what the journal still says.                 *)
LEMMA NextSteps ==
    ASSUME Inv, [Next]_vars
    PROVE  \/ Steps \/ UNCHANGED vars
           \/ \E c \in copies : AdoptHandoff(c) /\ \E h \in handoff : ~h.idle
<1>1. CASE AdoptLocked
  <2>1. Refrozen(state, state')
    BY <1>1, Refreezes DEF AdoptLocked, Frozen, Inv, Kept
  <2> QED BY <1>1, <2>1 DEF AdoptLocked, Readopt, Commands, Steps
<1>2. ASSUME NEW c \in copies, AdoptHandoff(c), \A h \in handoff : h.idle
      PROVE  Readopt
  <2>1. PICK h \in handoff : h.idle
    BY <1>2 DEF Inv, Backed
  <2>2. Intact /\ Good(c)
    BY <1>2 DEF Inv, CutOff, Copied, Sound
  <2> QED BY <1>2, <2>1, <2>2, SealedAdopts DEF Intact
<1>3. Readopt => Steps
  BY DEF Commands, Steps
<1>4. CASE Operator
  BY <1>1, <1>2, <1>3, <1>4 DEF Operator, Commands, Steps
<1>5. CASE Next /\ ~Operator
  BY <1>5 DEF Next, Steps
<1> QED BY <1>4, <1>5

THEOREM AlwaysInv == Spec => []Inv
<1>1. ASSUME Inv, [Next]_vars PROVE Inv'
  BY <1>1, NextSteps, StepInv, AdoptInv
<1> QED BY <1>1, InitInv, PTL DEF Spec

(* Never two processes past their claims, and the one that is past it is   *)
(* the owner the journal names, unless a finalize that holds no lock has   *)
(* frozen the journal under it (claim_segment, reconcile_process,          *)
(* prepare_segment, fail_segment_startup and finalize of                   *)
(* frozen_oos_collection_lifecycle_v0_1.py).                               *)
THEOREM OneWriterAlways == Spec => []OneWriter
<1>1. Inv => OneWriter
  BY DEF Inv, Intact, IInv, Sole, Kept, Writers, OneWriter, PastClaim
<1> QED BY <1>1, AlwaysInv, PTL

(* The journal always passes its own verification, whatever is             *)
(* interleaved, a stale copy that is saved included (verify_identity).     *)
THEOREM StateVerifiesAlways == Spec => []StateVerifies
<1>1. Inv => StateVerifies
  BY DEF Inv, Kept, Good, Consistent, Behind, StateVerifies
<1> QED BY <1>1, AlwaysInv, PTL

(* No timer is driven beyond the frozen boundary, though it may pass while *)
(* a turn is under way and the run may be extended before the next one,    *)
(* unless a stale copy has taken the extension back (run_worker, extend,   *)
(* finalize).                                                              *)
THEOREM WithinWindowAlways == Spec => []WithinWindow
<1>1. Inv => WithinWindow
  BY DEF Inv, Intact, Window, Inside, WithinWindow
<1> QED BY <1>1, AlwaysInv, PTL

(* Once the handoff of an idle run is written, the journal never drifts    *)
(* away from it, whoever launches, stops, extends, dies or finalizes again *)
(* with whatever copy it has read (finalize).                              *)
THEOREM HandoffAgreesAlways == Spec => []HandoffAgrees
<1>1. Intact => HandoffAgrees
  BY DEF Intact, Sealed
<1>2. Typed /\ CutOff => HandoffAgrees
  BY DEF Typed, TypedFiles, CutOff, HandoffAgrees
<1> QED BY <1>1, <1>2, AlwaysInv, PTL DEF Inv

(* The checks of record_progress make a run INVALID only after an          *)
(* exception, or where a stop during catch-up has recorded a row count     *)
(* older than its cursor (record_progress and run_worker).                 *)
THEOREM FailsOnlyOnStaleCountAlways == Spec => []FailsOnlyOnStaleCount
<1>1. Inv => FailsOnlyOnStaleCount
  BY DEF Inv, Intact, Progress, Honest, Excused, FailsOnlyOnStaleCount, CutOff
<1> QED BY <1>1, AlwaysInv, PTL
-----------------------------------------------------------------------------
(* Every variable keeps its type in every reachable state: in particular   *)
(* the boundary stays within the longest window however often the run is   *)
(* extended (extend, _validate_temporal_state), no number of the journal   *)
(* exceeds the rows the collector has, and there is one handoff at most.   *)
THEOREM TypeOKAlways == Spec => []TypeOK
<1>1. ASSUME Inv PROVE TypeOK
  <2>1. /\ state.cursor \in Nat /\ state.mark \in Nat /\ state.count \in Nat
        /\ state.count <= state.cursor /\ state.cursor <= state.mark
        /\ state.mark <= source.rows
    BY <1>1 DEF Inv, Sound, Good, Shaped, Consistent
  <2>2. source.rows \in Nat /\ source.rows <= MaxRows /\ MaxRows \in Nat
    BY <1>1, BoundAssumption DEF Inv, Typed, TypedWorld
  <2>3. {state.cursor, state.mark, state.count} \subseteq 0 .. MaxRows
    BY <2>1, <2>2
  <2>4. paper \in [cursor : 0 .. MaxRows, beyond : BOOLEAN]
    BY <1>1, <2>2 DEF Inv, Typed, TypedWorld, Kept, Behind
  <2>5. state.active.segment \in 0 .. MaxSegments
    <3>1. CASE state.active = NoProcess
      BY <3>1, BoundAssumption DEF NoProcess
    <3>2. CASE state.active # NoProcess
      BY <1>1, <3>2, BoundAssumption DEF Inv, Sound, Good, Consistent, TypedJournal, Segments
    <3> QED BY <3>1, <3>2
  <2>6. state.active \in [segment : 0 .. MaxSegments, late : BOOLEAN, awaited : BOOLEAN,
                          own : {"NONE", "PENDING", "OWNED"}]
    BY <1>1, <2>5 DEF Inv, Sound, Good, Shaped, Actives
  <2>7. \A k \in DOMAIN state.segments : state.segments[k] \in {"PENDING", "OWNED", "ENDED"}
    BY <1>1 DEF Inv, Sound, Good, Shaped, Ends
  <2>8. Cardinality(handoff) <= 1
    <3>1. handoff = {} \/ \E h : handoff = {h}
      BY <1>1 DEF Inv, Typed, TypedFiles
    <3>2. CASE handoff = {}
      BY <3>2, FS_EmptySet
    <3>3. ASSUME NEW h, handoff = {h} PROVE Cardinality(handoff) <= 1
      <4>1. Cardinality({h}) = 1
        BY FS_Singleton
      <4>2. Cardinality(handoff) = 1
        BY <3>3, <4>1
      <4> QED BY <4>2
    <3> QED BY <3>1, <3>2, <3>3
  <2>9. state.life \in Lives
    BY <1>1 DEF Inv, Sound, Good, Shaped
  <2> QED BY <1>1, <2>3, <2>4, <2>6, <2>7, <2>8, <2>9
      DEF TypeOK, Inv, Sound, Copied, Typed, TypedWorld, TypedJournal, TypedFiles, Coverages
<1> QED BY <1>1, AlwaysInv, PTL

(* No command, process or crash takes back what the run has recorded: the  *)
(* source and the paper database only grow, and in the journal the numbers *)
(* only grow, a segment only goes from pending to owned to ended and is    *)
(* never removed, an INVALID run, or a frozen one without a process, keeps *)
(* every field for ever, and the boundary moves only once it has passed    *)
(* and while no process is named.  The one exception is the save of the    *)
(* copy a finalize has read, over a handoff written while a segment was    *)
(* open (record_progress, prepare_segment, extend, finalize of             *)
(* frozen_oos_collection_lifecycle_v0_1.py, lines 1595 and 1603).          *)
THEOREM NothingTakenBack == Spec => [][OnlyForward]_vars
<1>1. ASSUME Inv, Steps \/ UNCHANGED vars, Intact PROVE JournalForward
  <2>1. CASE Steps
    <3>1. MovesOn
      BY <1>1, <2>1, OutsideMovesOn, LauncherMovesOn, WorkerMovesOn
      DEF Steps, Intact, Progress
    <3>2. Final(state) => \A f \in Fields : state'[f] = state[f]
      BY <1>1, <2>1, FinalKept DEF Intact
    <3> QED BY <3>1, <3>2 DEF MovesOn, JournalForward
  <2>2. CASE UNCHANGED vars
    <3>1. state' = state
      BY <2>2 DEF vars, files
    <3>2. MovesOn
      BY <1>1, <3>1, SameMovesOn DEF Intact, Progress
    <3> QED BY <3>1, <3>2 DEF MovesOn, JournalForward
  <2> QED BY <1>1, <2>1, <2>2
<1>2. ASSUME Inv, Steps \/ UNCHANGED vars, CutOff PROVE JournalForward
  <2>1. Same(state, state')
    BY <1>2, CutOffCut, CutStays DEF Inv, Kept
  <2>2. /\ state'.cursor = state.cursor /\ state'.mark = state.mark
        /\ state'.count = state.count /\ state'.target = state.target
        /\ state'.segments = state.segments
    BY <2>1 DEF Same, Fields
  <2>3. /\ state.cursor \in Nat /\ state.mark \in Nat /\ state.count \in Nat
        /\ state.target \in Nat
    BY <1>2, WindowBounds DEF Inv, Sound, Good, Shaped, TypedJournal
  <2>4. Numbers(state, state')
    BY <2>2, <2>3 DEF Numbers
  <2>5. Advanced(state, state')
    BY <1>2, <2>2, SameAdvanced DEF Inv, Kept
  <2> QED BY <2>1, <2>2, <2>4, <2>5 DEF Same, JournalForward
<1>3. ASSUME Inv, Steps \/ UNCHANGED vars PROVE OnlyForward
  <2>1. source.rows <= source'.rows /\ paper.cursor <= paper'.cursor
    BY <1>3, DatabasesGrow DEF Inv
  <2> QED BY <1>1, <1>2, <1>3, <2>1 DEF Inv, OnlyForward
<1>4. ASSUME Inv, NEW c \in copies, AdoptHandoff(c), NEW h \in handoff, ~h.idle
      PROVE  OnlyForward
  <2>1. source' = source /\ paper' = paper /\ state' = Frozen(c)
    BY <1>4, AdoptInv
  <2>2. source.rows \in Nat /\ paper.cursor \in Nat
    BY <1>4 DEF Inv, Kept, Held
  <2> QED BY <1>4, <2>1, <2>2 DEF OnlyForward, Overwritten
<1>5. Inv /\ [Next]_vars => [OnlyForward]_vars
  BY <1>3, <1>4, NextSteps
<1> QED BY <1>5, AlwaysInv, PTL DEF Spec
=============================================================================
