---------------------------- MODULE OOSLifecycle ----------------------------
(***************************************************************************)
(* The frozen out-of-sample collection of phase 6: one run whose state is  *)
(* a journal file, collected in segments.  A launcher prepares a segment,  *)
(* the worker process it spawns claims it, drives the binding until a stop *)
(* or the target boundary, and ends it; the operator asks for the status,  *)
(* stops, resumes, extends and at last freezes the run.                    *)
(*                                                                         *)
(* Every action is what runs between two points where another process may  *)
(* intervene: a section under the lifecycle lock, a commit of the paper    *)
(* database, a write of the stop file, or a read the code acts on later.   *)
(*                                                                         *)
(* Abstracted: instants are whole periods of the window (Start, then one   *)
(* per day the run may be extended); an unresolved gap job and an unproven *)
(* stall of the source are one flag; a drain of the timer fence is one     *)
(* step (FirstPullbackBinding models its inside); identities never drift.  *)
(***************************************************************************)
EXTENDS Naturals, Sequences, FiniteSets, FiniteSetsExt

CONSTANTS
    Launchers,       \* command lines that may launch a worker concurrently
    BatchSize,       \* rows the binding processes at most in one batch
    MaxSegments,     \* bound: segments launched
    MaxRows,         \* bound: rows the collector inserts
    MaxExtensions,   \* the longest run: 168 hours are 72 and four times 24
    MaxMishaps       \* bound: processes killed and exceptions raised in a worker

Start   == 1
Minimum == Start + 1
Maximum == Minimum + MaxExtensions
Segments == 1 .. MaxSegments

ASSUME LaunchersAssumption == IsFiniteSet(Launchers) /\ Launchers # {}
ASSUME BoundAssumption     == /\ BatchSize \in Nat \ {0} /\ MaxSegments \in Nat \ {0}
                              /\ MaxRows \in Nat /\ MaxExtensions \in Nat
                              /\ MaxMishaps \in Nat

VARIABLES
    now,       \* the wall clock
    source,    \* collector database: [rows, activity, gap]
    paper,     \* paper database: [cursor, beyond]: rows processed; was a timer
               \* driven beyond the target of its time?
    state,     \* lifecycle_state.json
    handoff,   \* frozen_handoff_manifest.json: {} or one record
    copies,    \* journals read by a finalize that found the handoff, not yet saved
    lock,      \* .lifecycle.lock: FREE, FINALIZER, or STUCK (holder is dead)
    stop,      \* does stop.request exist?
    worker,    \* segment -> where its worker process is
    seen,      \* what the owner has read and will act on
    launcher,  \* launcher -> [at, segment]: before it has spawned a worker
    faults,    \* exceptions so far
    crashes    \* processes killed so far

world == <<now, source>>
files == <<state, handoff, copies, lock, stop>>
procs == <<worker, seen, launcher>>
vars  == <<world, paper, files, procs, faults, crashes>>

(* active_process; late: its claim deadline has passed; awaited: a launcher *)
(* is still waiting for the claim.                                         *)
NoProcess == [segment |-> 0, own |-> "NONE", late |-> FALSE, awaited |-> FALSE]
Unread    == [instant |-> 0, mark |-> 0, count |-> 0, covered |-> FALSE,
              stop |-> FALSE, failed |-> FALSE]
Idle      == [at |-> "IDLE", segment |-> 0]
-----------------------------------------------------------------------------
(* process_matches: the process of a segment, by its own birth token.      *)
Live(k) == worker[k] # "GONE"

(* source_coverage_probe, for the target the caller read.                  *)
Through(target) == Min({source.activity, target})
Covered(target) == Through(target) >= target /\ ~source.gap

Pending(s, k) == s.active.segment = k /\ s.active.own = "PENDING"
Owned(s, k)   == s.active.segment = k /\ s.active.own = "OWNED"

(* The end of the segment the state names as active.                       *)
Closed(s, life) ==
    [s EXCEPT !.segments[s.active.segment] = "ENDED", !.active = NoProcess, !.life = life]

(* Mistake: an owned segment is closed whether its process lives or not.   *)
ReconciledBlindly(s) ==
    IF (s.active.own = "PENDING" /\ s.active.late) \/ s.active.own = "OWNED"
    THEN Closed(s, "STOPPED") ELSE s

(* Mistake: a pending claim is never closed by a later command.            *)
ReconciledOwnersOnly(s) ==
    IF s.active.own = "OWNED" /\ ~Live(s.active.segment) THEN Closed(s, "STOPPED") ELSE s

Reconciled(s) ==
    IF \/ s.active.own = "PENDING" /\ s.active.late
       \/ s.active.own = "OWNED" /\ ~Live(s.active.segment)
    THEN Closed(s, "STOPPED") ELSE s

(* fail_segment_startup; mine: the caller proves it is the owning process. *)
FailedStartup(s, k, mine) ==
    IF Pending(s, k) THEN Closed(s, "STOPPED")
    ELSE IF Owned(s, k) /\ mine
         THEN [Closed(s, "INVALID") EXCEPT !.coverage = "OOS_INCOMPLETE"] ELSE s

(* record_progress: its checks, and the state it writes.  The check that   *)
(* coverage never moves backward is left out: activity and target of a     *)
(* journal that still records only grow, and with them Through(target).    *)
Contradicts(s, k, p) ==
    \/ ~Owned(s, k)
    \/ p.cursor < s.cursor \/ p.mark < p.cursor \/ p.mark < s.mark
    \/ p.count < s.count   \/ (p.cursor = s.cursor /\ p.count # s.count)

Recorded(s, p) ==
    [s EXCEPT !.cursor = p.cursor, !.mark = p.mark, !.count = p.count,
              !.coverage = IF p.covered THEN "COMPLETE" ELSE "INCOMPLETE"]
-----------------------------------------------------------------------------
Terminal(s) == s.life \in {"INVALID", "FROZEN"}

Init ==
    /\ now = 0
    /\ source = [rows |-> 0, activity |-> Start, gap |-> FALSE]
    /\ paper = [cursor |-> 0, beyond |-> FALSE]
    /\ state = [life |-> "STOPPED", target |-> Minimum, cursor |-> 0, mark |-> 0,
                count |-> 0,
                coverage |-> "COLLECTING", active |-> NoProcess, segments |-> <<>>]
    /\ handoff = {} /\ copies = {} /\ lock = "FREE" /\ stop = FALSE
    /\ worker = [k \in Segments |-> "GONE"] /\ seen = Unread
    /\ launcher = [l \in Launchers |-> Idle]
    /\ faults = 0 /\ crashes = 0

(* ----------------------- the world: collector, time -------------------- *)
Tick ==
    /\ now < Maximum
    /\ now' = now + 1
    /\ UNCHANGED <<source, paper, files, procs, faults, crashes>>

InsertRow ==
    /\ source.rows < MaxRows
    /\ source' = [source EXCEPT !.rows = @ + 1, !.activity = Max({Start, now})]
    /\ UNCHANGED <<now, paper, files, procs, faults, crashes>>

(* A gap job of the window appears when the collector is back, which may   *)
(* be after the target, and is done when its rows are recovered.           *)
OpenGap ==
    /\ ~source.gap /\ now >= Start
    /\ source' = [source EXCEPT !.gap = TRUE]
    /\ UNCHANGED <<now, paper, files, procs, faults, crashes>>

ResolveGap ==
    /\ source.gap
    /\ source' = [source EXCEPT !.gap = FALSE]
    /\ UNCHANGED <<now, paper, files, procs, faults, crashes>>

ClaimDeadline ==
    /\ state.active.own = "PENDING" /\ ~state.active.late
    /\ state' = [state EXCEPT !.active.late = TRUE]
    /\ UNCHANGED <<world, paper, handoff, copies, lock, stop, procs, faults, crashes>>

(* ------------------------------ a launcher ----------------------------- *)
(* start / resume: no terminal run, no process after reconciliation.       *)
Resume(l) ==
    /\ launcher[l].at = "IDLE" /\ lock = "FREE"
    /\ Len(state.segments) < MaxSegments
    /\ state' = Reconciled(state)
    /\ ~Terminal(state') /\ state'.active = NoProcess
    /\ launcher' = [launcher EXCEPT ![l] = [at |-> "CLEAR", segment |-> 0]]
    /\ UNCHANGED <<world, paper, handoff, copies, lock, stop, worker, seen, faults, crashes>>

(* A stop file found here is taken for a stale one, without the lock.      *)
ClearStop(l) ==
    /\ launcher[l].at = "CLEAR"
    /\ stop' = FALSE
    /\ launcher' = [launcher EXCEPT ![l] = [at |-> "PREPARE", segment |-> 0]]
    /\ UNCHANGED <<world, paper, state, handoff, copies, lock, worker, seen, faults, crashes>>

(* Mistake: the terminal state is only checked when the command starts.    *)
MayPrepareTerminal(s) == s.active = NoProcess /\ Len(s.segments) < MaxSegments

(* Mistake: the section trusts the reconciliation made before it.          *)
MayPrepareTwice(s) == ~Terminal(s) /\ Len(s.segments) < MaxSegments

MayPrepare(s) ==
    ~Terminal(s) /\ s.active = NoProcess /\ Len(s.segments) < MaxSegments

PrepareSegment(l) ==
    /\ launcher[l].at = "PREPARE" /\ lock = "FREE"
    /\ IF MayPrepare(state)
       THEN LET k == Len(state.segments) + 1
            IN  /\ state' = [state EXCEPT !.life = "ACTIVE",
                               !.segments = Append(@, "PENDING"),
                               !.active = [segment |-> k, own |-> "PENDING",
                                            late |-> FALSE, awaited |-> FALSE]]
                /\ launcher' = [launcher EXCEPT ![l] = [at |-> "SPAWN", segment |-> k]]
       ELSE /\ launcher' = [launcher EXCEPT ![l] = Idle]
            /\ UNCHANGED state
    /\ UNCHANGED <<world, paper, handoff, copies, lock, stop, worker, seen, faults, crashes>>

(* From here the launcher only waits for the claim.                        *)
Spawn(l) ==
    /\ launcher[l].at = "SPAWN"
    /\ worker' = [worker EXCEPT ![launcher[l].segment] = "SPAWNED"]
    /\ state' = [state EXCEPT !.active.awaited = @ \/ Pending(state, launcher[l].segment)]
    /\ launcher' = [launcher EXCEPT ![l] = Idle]
    /\ UNCHANGED <<world, paper, handoff, copies, lock, stop, seen, faults, crashes>>

SpawnFails(l) ==
    /\ launcher[l].at = "SPAWN" /\ lock = "FREE" /\ faults + crashes < MaxMishaps
    /\ state' = FailedStartup(state, launcher[l].segment, FALSE)
    /\ launcher' = [launcher EXCEPT ![l] = Idle]
    /\ faults' = faults + 1
    /\ UNCHANGED <<world, paper, handoff, copies, lock, stop, worker, seen, crashes>>

(* The parent's deadline passes without a claim: the failed startup is     *)
(* recorded and the process it spawned is terminated.                      *)
GiveUp ==
    /\ state.active.awaited /\ state.active.late /\ lock = "FREE"
    /\ state' = FailedStartup(state, state.active.segment, FALSE)
    /\ worker' = [worker EXCEPT ![state.active.segment] = "GONE"]
    /\ UNCHANGED <<world, paper, handoff, copies, lock, stop, seen, launcher, faults, crashes>>

(* A lock that stays busy for five seconds ends the command that wants it. *)
LauncherBlocked(l) ==
    /\ launcher[l].at = "PREPARE" /\ lock # "FREE"
    /\ launcher' = [launcher EXCEPT ![l] = Idle]
    /\ UNCHANGED <<world, paper, files, worker, seen, faults, crashes>>

LauncherDies(l) ==
    /\ launcher[l].at # "IDLE" /\ faults + crashes < MaxMishaps
    /\ launcher' = [launcher EXCEPT ![l] = Idle]
    /\ crashes' = crashes + 1
    /\ \/ UNCHANGED lock
       \/ launcher[l].at = "PREPARE" /\ lock = "FREE" /\ lock' = "STUCK"
    /\ UNCHANGED <<world, paper, state, handoff, copies, stop, worker, seen, faults>>

WaiterDies ==
    /\ state.active.awaited /\ faults + crashes < MaxMishaps
    /\ state' = [state EXCEPT !.active.awaited = FALSE]
    /\ crashes' = crashes + 1
    /\ UNCHANGED <<world, paper, handoff, copies, lock, stop, procs, faults>>

(* ------------------------------- a worker ------------------------------ *)
Goes(k, pc) == worker' = [worker EXCEPT ![k] = pc]

ClaimSegment(k) ==
    /\ worker[k] = "SPAWNED" /\ lock = "FREE"
    /\ Pending(state, k) /\ ~state.active.late
    /\ state' = [state EXCEPT !.active.own = "OWNED", !.active.awaited = FALSE,
                              !.segments[k] = "OWNED"]
    /\ seen' = Unread
    /\ Goes(k, "CLAIMED")
    /\ UNCHANGED <<world, paper, handoff, copies, lock, stop, launcher, faults, crashes>>

(* The claim is refused and the process closes what it can prove its own.  *)
ClaimRejected(k) ==
    /\ worker[k] = "SPAWNED" /\ lock = "FREE"
    /\ ~Pending(state, k) \/ state.active.late
    /\ state' = FailedStartup(state, k, TRUE)
    /\ Goes(k, "GONE")
    /\ UNCHANGED <<world, paper, handoff, copies, lock, stop, seen, launcher, faults, crashes>>

(* Opening the databases fails: an owned segment makes the run INVALID.    *)
OpenFails(k) ==
    /\ worker[k] = "CLAIMED" /\ lock = "FREE" /\ faults + crashes < MaxMishaps
    /\ state' = FailedStartup(state, k, TRUE)
    /\ Goes(k, "GONE")
    /\ faults' = faults + 1
    /\ UNCHANGED <<world, paper, handoff, copies, lock, stop, seen, launcher, crashes>>

Open(k) ==
    /\ worker[k] = "CLAIMED"
    /\ Goes(k, "LOOP")
    /\ UNCHANGED <<world, paper, files, seen, launcher, faults, crashes>>

(* The top of the loop reads the state, the clock, the stop file and the   *)
(* source, and decides what this turn does.                                *)
Turn(k, pc, what) ==
    /\ Goes(k, pc) /\ seen' = what
    /\ UNCHANGED <<world, paper, files, launcher, faults, crashes>>

CatchingUp == now >= state.target /\ ~Covered(state.target)

StopWhileArmed(k) ==
    /\ worker[k] = "LOOP" /\ now < Start /\ stop
    /\ Turn(k, "ENDING", Unread)

SeeCatchUp(k) ==
    /\ worker[k] = "LOOP" /\ CatchingUp
    /\ Turn(k, "CATCHUP", [Unread EXCEPT !.covered = Covered(state.target),
                             !.stop = stop])

SeeEnd(k) ==
    /\ worker[k] = "LOOP" /\ now >= Start /\ ~CatchingUp
    /\ stop \/ now >= state.target
    /\ Turn(k, "FINAL", [Unread EXCEPT !.instant = Min({now, state.target})])

SeeRows(k) ==
    /\ worker[k] = "LOOP" /\ now >= Start /\ now < state.target /\ ~stop
    /\ Turn(k, "MAIN", [Unread EXCEPT !.instant = now, !.mark = source.rows])

(* Mistake: the timer is driven to the time of the drain, not to the time  *)
(* the turn read before it compared it with the target.                    *)
DrainedLate(instant) ==
    [cursor |-> source.rows,
     beyond |-> paper.beyond \/ Max({instant, now}) > state.target]

(* The timer fence at an instant: every row so far, then the timer.        *)
Drained(instant) ==
    [cursor |-> source.rows, beyond |-> paper.beyond \/ instant > state.target]

Batch == [paper EXCEPT !.cursor = Min({@ + BatchSize, source.rows})]

(* An ordinary turn: a clock drain or a batch, then the record.            *)
MainWork(k) ==
    /\ worker[k] = "MAIN"
    /\ paper' \in {Drained(seen.instant), Batch}
    /\ Goes(k, "MAIN_RECORD")
    /\ UNCHANGED <<world, files, seen, launcher, faults, crashes>>

(* Mistake: the watermark stays what it was before the work.               *)
MainProgressUnraised ==
    [cursor |-> paper.cursor, mark |-> seen.mark,
     count |-> paper.cursor, covered |-> Covered(state.target)]

(* The coverage is probed after the work, the watermark was read before.   *)
MainProgress ==
    [cursor |-> paper.cursor, mark |-> Max({paper.cursor, seen.mark}),
     count |-> paper.cursor, covered |-> Covered(state.target)]

(* A record the journal contradicts raises: FAIL_CLOSED.                   *)
Record(k, progress, next, what) ==
    /\ lock = "FREE"
    /\ IF Contradicts(state, k, progress)
       THEN /\ Goes(k, "ENDING") /\ seen' = [Unread EXCEPT !.failed = TRUE]
            /\ UNCHANGED state
       ELSE /\ Goes(k, next) /\ seen' = what
            /\ state' = Recorded(state, progress)
    /\ UNCHANGED <<world, paper, handoff, copies, lock, stop, launcher, faults, crashes>>

RecordMain(k) ==
    /\ worker[k] = "MAIN_RECORD"
    /\ Record(k, MainProgress, "LOOP", Unread)

(* After the target: rows without timers, with the coverage read before.   *)
CatchUpWork(k) ==
    /\ worker[k] = "CATCHUP"
    /\ paper' = Batch
    /\ Goes(k, "CATCHUP_RECORD")
    /\ UNCHANGED <<world, files, seen, launcher, faults, crashes>>

CatchUpProgress ==
    [cursor |-> paper.cursor, mark |-> Max({paper.cursor, source.rows}),
     count |-> paper.cursor, covered |-> seen.covered]

RecordCatchUp(k) ==
    /\ worker[k] = "CATCHUP_RECORD"
    /\ Record(k, CatchUpProgress, IF seen.stop THEN "CATCHUP_DRAIN" ELSE "LOOP",
              IF seen.stop THEN [seen EXCEPT !.count = paper.cursor,
                                   !.instant = state.target]
              ELSE Unread)

Drain(k, from, next) ==
    /\ worker[k] = from
    /\ paper' = Drained(seen.instant)
    /\ seen' = [seen EXCEPT !.mark = source.rows]
    /\ Goes(k, next)
    /\ UNCHANGED <<world, files, launcher, faults, crashes>>

DrainCatchUp(k) == Drain(k, "CATCHUP_DRAIN", "CATCHUP_STOP")
DrainFinal(k)   == Drain(k, "FINAL", "FINAL_RECORD")

(* The stop during catch-up records the counts read before its drain.      *)
RecordCatchUpStop(k) ==
    /\ worker[k] = "CATCHUP_STOP"
    /\ Record(k, [cursor |-> paper.cursor, mark |-> seen.mark, count |-> seen.count,
                  covered |-> seen.covered], "ENDING", seen)

FinalProgress ==
    [cursor |-> paper.cursor, mark |-> seen.mark, count |-> paper.cursor,
     covered |-> Covered(state.target)]

RecordFinal(k) ==
    /\ worker[k] = "FINAL_RECORD"
    /\ Record(k, FinalProgress, "ENDING", seen)

WorkerFails(k) ==
    /\ worker[k] \in {"LOOP", "MAIN", "CATCHUP", "CATCHUP_DRAIN", "FINAL"}
    /\ faults + crashes < MaxMishaps
    /\ faults' = faults + 1
    /\ Goes(k, "ENDING") /\ seen' = [Unread EXCEPT !.failed = TRUE]
    /\ UNCHANGED <<world, paper, files, launcher, crashes>>

(* finally: the stop file goes, then the segment is ended, whoever owns it. *)
RemoveStop(k) ==
    /\ worker[k] = "ENDING"
    /\ stop' = FALSE
    /\ Goes(k, "CLOSING")
    /\ UNCHANGED <<world, paper, state, handoff, copies, lock, seen, launcher, faults, crashes>>

EndSegment(k) ==
    /\ worker[k] = "CLOSING" /\ lock = "FREE"
    /\ state' = IF state.active = NoProcess THEN state
                ELSE IF seen.failed
                THEN [Closed(state, "INVALID") EXCEPT !.coverage = "OOS_INCOMPLETE"]
                ELSE Closed(state, "STOPPED")
    /\ Goes(k, "GONE") /\ seen' = Unread
    /\ UNCHANGED <<world, paper, handoff, copies, lock, stop, launcher, faults, crashes>>

(* The worker's next step is a section under the lock.                     *)
Recording(k) == worker[k] \in {"MAIN_RECORD", "CATCHUP_RECORD", "CATCHUP_STOP", "FINAL_RECORD"}
Locking(k)   == Recording(k) \/ worker[k] \in {"SPAWNED", "CLOSING"}

(* A lock that stays busy: a record raises, a claim or an end is given up.  *)
WorkerBlocked(k) ==
    /\ Locking(k) /\ lock # "FREE"
    /\ Goes(k, IF Recording(k) THEN "ENDING" ELSE "GONE")
    /\ seen' = CASE Recording(k)            -> [Unread EXCEPT !.failed = TRUE]
                 [] worker[k] = "SPAWNED"   -> seen
                 [] worker[k] = "CLOSING"   -> Unread
    /\ UNCHANGED <<world, paper, files, launcher, faults, crashes>>

(* The process is killed, between two sections or inside one of them: the  *)
(* lock file of a dead holder is never removed.                            *)
Killed(k) ==
    /\ Live(k) /\ faults + crashes < MaxMishaps
    /\ crashes' = crashes + 1
    /\ Goes(k, "GONE")
    /\ seen' = IF worker[k] = "SPAWNED" THEN seen ELSE Unread
    /\ \/ UNCHANGED lock
       \/ Locking(k) /\ lock = "FREE" /\ lock' = "STUCK"
    /\ UNCHANGED <<world, paper, state, handoff, copies, stop, launcher, faults>>
(* ----------------------------- the operator ---------------------------- *)
Status ==
    /\ lock = "FREE"
    /\ state' = Reconciled(state)
    /\ UNCHANGED <<world, paper, handoff, copies, lock, stop, procs, faults, crashes>>

(* stop: a status, then the request if the status found a process, which   *)
(* may be any time ago when the file is written: no lock is held.          *)
RequestStop ==
    /\ state.segments # <<>>
    /\ stop' = TRUE
    /\ UNCHANGED <<world, paper, state, handoff, copies, lock, procs, faults, crashes>>

(* Mistake: an extension without the longest duration.                     *)
ExtendUnbounded ==
    /\ lock = "FREE" /\ state.life = "STOPPED"
    /\ now >= state.target
    /\ state' = [state EXCEPT !.target = @ + 1, !.coverage = "COLLECTING"]
    /\ UNCHANGED <<world, paper, handoff, copies, lock, stop, procs, faults, crashes>>

Extend ==
    /\ lock = "FREE" /\ state.life = "STOPPED"
    /\ state.target < Maximum /\ now >= state.target
    /\ state' = [state EXCEPT !.target = @ + 1, !.coverage = "COLLECTING"]
    /\ UNCHANGED <<world, paper, handoff, copies, lock, stop, procs, faults, crashes>>

Freezable ==
    /\ now >= state.target
    /\ ~(state.active.own = "OWNED" /\ Live(state.active.segment))
    /\ state.coverage = "COMPLETE"
    /\ state.cursor >= state.mark
    /\ Covered(state.target)

(* finalize: under the lock the handoff is written, then the state.        *)
WriteHandoff ==
    /\ lock = "FREE" /\ handoff = {} /\ Freezable
    /\ lock' = "FINALIZER"
    /\ handoff' = {[target |-> state.target, cursor |-> state.cursor,
                    segments |-> Len(state.segments),
                    idle |-> state.active = NoProcess]}
    /\ UNCHANGED <<world, paper, state, copies, stop, procs, faults, crashes>>

Freeze ==
    /\ lock = "FINALIZER"
    /\ state' = [state EXCEPT !.life = "FROZEN"]
    /\ lock' = "FREE"
    /\ UNCHANGED <<world, paper, handoff, copies, stop, procs, faults, crashes>>

FinalizerDies ==
    /\ lock = "FINALIZER" /\ faults + crashes < MaxMishaps
    /\ crashes' = crashes + 1
    /\ lock' = "STUCK"
    /\ \/ UNCHANGED state
       \/ state' = [state EXCEPT !.life = "FROZEN"]
    /\ UNCHANGED <<world, paper, handoff, copies, stop, procs, faults>>

Frozen(s) == [s EXCEPT !.life = "FROZEN"]

(* finalize again: an existing handoff is adopted without the lock.  The   *)
(* journal is read, and what was read is saved later, whatever status,     *)
(* resume, claim or extend have written in between.                        *)
ReadForAdoption ==
    /\ handoff # {} /\ state.life = "STOPPED"
    /\ copies' = copies \union {state}
    /\ UNCHANGED <<world, paper, state, handoff, lock, stop, procs, faults, crashes>>

AdoptHandoff(copy) ==
    /\ state' = Frozen(copy)
    /\ copies' = copies \ {copy}
    /\ UNCHANGED <<world, paper, handoff, lock, stop, procs, faults, crashes>>

(* The handoff appeared while this finalize waited for the lock.           *)
AdoptLocked ==
    /\ lock = "FREE" /\ handoff # {} /\ state.life = "STOPPED"
    /\ state' = Frozen(state)
    /\ UNCHANGED <<world, paper, handoff, copies, lock, stop, procs, faults, crashes>>
-----------------------------------------------------------------------------
World == Tick \/ InsertRow \/ OpenGap \/ ResolveGap

Launching(l) ==
    ClearStop(l) \/ PrepareSegment(l) \/ Spawn(l) \/ LauncherBlocked(l)

Working(k) ==
    \/ ClaimSegment(k) \/ ClaimRejected(k) \/ Open(k)
    \/ StopWhileArmed(k) \/ SeeCatchUp(k) \/ SeeEnd(k) \/ SeeRows(k)
    \/ MainWork(k) \/ RecordMain(k)
    \/ CatchUpWork(k) \/ RecordCatchUp(k) \/ DrainCatchUp(k) \/ RecordCatchUpStop(k)
    \/ DrainFinal(k) \/ RecordFinal(k)
    \/ RemoveStop(k) \/ EndSegment(k) \/ WorkerBlocked(k)

Operator ==
    \/ Status \/ RequestStop \/ Extend \/ WriteHandoff \/ Freeze
    \/ ReadForAdoption \/ AdoptLocked \/ \E copy \in copies : AdoptHandoff(copy)

Next ==
    \/ World \/ ClaimDeadline \/ GiveUp \/ WaiterDies \/ Operator \/ FinalizerDies
    \/ \E l \in Launchers : Resume(l) \/ Launching(l) \/ SpawnFails(l) \/ LauncherDies(l)
    \/ \E k \in Segments : Working(k) \/ OpenFails(k) \/ WorkerFails(k) \/ Killed(k)

(* Processes that live go on, time passes a claim's deadline, a finalizer  *)
(* ends, and the operator keeps asking for the status.                     *)
Fairness ==
    /\ \A k \in Segments : WF_vars(Working(k))
    /\ \A l \in Launchers : WF_vars(Launching(l))
    /\ WF_vars(ClaimDeadline) /\ WF_vars(GiveUp) /\ WF_vars(Status) /\ WF_vars(Freeze)

Spec == Init /\ [][Next]_vars /\ Fairness
-----------------------------------------------------------------------------
Lives == {"STOPPED", "ACTIVE", "INVALID", "FROZEN"}

(* Every variable keeps its type; the window never exceeds the longest one *)
(* the protocol allows (extend, _validate_temporal_state).                 *)
TypeOK ==
    /\ now \in 0 .. Maximum
    /\ source \in [rows : 0 .. MaxRows, activity : Start .. Maximum, gap : BOOLEAN]
    /\ paper \in [cursor : 0 .. MaxRows, beyond : BOOLEAN]
    /\ state.life \in Lives /\ state.target \in Minimum .. Maximum
    /\ {state.cursor, state.mark, state.count} \subseteq 0 .. MaxRows
    /\ state.coverage \in {"COLLECTING", "INCOMPLETE", "COMPLETE", "OOS_INCOMPLETE"}
    /\ state.active \in [segment : 0 .. MaxSegments, late : BOOLEAN, awaited : BOOLEAN,
                        own : {"NONE", "PENDING", "OWNED"}]
    /\ \A k \in DOMAIN state.segments : state.segments[k] \in {"PENDING", "OWNED", "ENDED"}
    /\ Cardinality(handoff) <= 1 /\ \A copy \in copies : copy.life = "STOPPED"
    /\ lock \in {"FREE", "FINALIZER", "STUCK"}
    /\ stop \in BOOLEAN

PastClaim(k) == worker[k] \notin {"GONE", "SPAWNED"}

(* A journal saved from a stale copy, after a handoff was written over a   *)
(* segment that was open: frozen, and it names no process.                 *)
CutOff == /\ state.life = "FROZEN" /\ state.active = NoProcess
          /\ \E h \in handoff : ~h.idle

(* Never two processes are past their claims, so never two write the paper *)
(* database; and the one that is past it is the owner the journal names,   *)
(* unless a finalize that holds no lock has frozen the journal under it:   *)
(* claim_segment against reconcile_process, fail_segment_startup, a second *)
(* launch, and the read and the write of finalize (1595, 1603).            *)
OneWriter ==
    \A k \in Segments : PastClaim(k) =>
        /\ Owned(state, k) \/ CutOff
        /\ \A j \in Segments : PastClaim(j) => j = k

(* What verify_identity checks of the state file holds whatever processes  *)
(* and commands are interleaved: otherwise every command would raise.      *)
StateVerifies ==
    /\ state.life = "ACTIVE" => state.active # NoProcess
    /\ \A k \in DOMAIN state.segments :
          state.segments[k] \in {"PENDING", "OWNED"} =>
              state.active.segment = k /\ state.active.own = state.segments[k]
    /\ state.active # NoProcess =>
          state.segments[state.active.segment] = state.active.own
    /\ state.cursor <= state.mark /\ state.cursor <= paper.cursor

(* Once the handoff of an idle run is written, no launch, stop, extension  *)
(* or death of the finalizer lets the state drift away from it: the run is *)
(* frozen or the lock keeps every other command out (finalize).  A handoff *)
(* written over a segment that is still open promises nothing: the claim,  *)
(* or a status that closes the segment, thaws the run.                     *)
HandoffAgrees ==
    \A h \in handoff : h.idle =>
        /\ h.target = state.target /\ h.cursor = state.cursor
        /\ h.segments = Len(state.segments) /\ state.active = NoProcess
        /\ state.life = "FROZEN" \/ lock # "FREE"

(* No timer is driven beyond the frozen boundary, though the boundary may  *)
(* pass while a turn is under way (run_worker reads the clock once a turn), *)
(* unless a stale copy has taken back an extension the turn counted on.    *)
WithinWindow == paper.beyond => CutOff

(* Without an exception of its own the run never becomes INVALID: the      *)
(* checks of record_progress accept every cursor, watermark and count that *)
(* segments, stops, crashes and gaps lead to.  The code breaks it: see the *)
(* next property.                                                          *)
HealthyRunSurvives == state.life = "INVALID" => faults > 0

(* The checks of record_progress fail a healthy run for one reason only: a *)
(* stop during catch-up had recorded a row count older than its cursor.    *)
FailsOnlyOnStaleCount ==
    state.life = "INVALID" => faults > 0 \/ state.count < state.cursor

Dangling ==
    \/ state.active.own = "PENDING"
    \/ state.active.own = "OWNED" /\ ~Live(state.active.segment)

(* A segment nobody claims, or whose process is gone, does not stay open   *)
(* for ever, whichever process died, unless one of them died inside a      *)
(* section and left the lock behind (reconcile_process, claim deadline).   *)
DanglingResolves == []<>(~Dangling \/ lock = "STUCK")
=============================================================================
