---------------------------- MODULE LiveCollector ----------------------------
(***************************************************************************)
(* The live collector v0.3.4: a websocket listener and three workers in    *)
(* one event loop.  The listener stores the pump events of every notified  *)
(* transaction and queues its confirmation; the confirmation worker asks   *)
(* the cluster how the transactions ended; the deep worker fetches the     *)
(* launches; the gap worker reads the confirmed blocks of the slots that   *)
(* went by while the stream was broken.                                    *)
(*                                                                         *)
(* An action is what a task does between two awaits: no other task runs in *)
(* the middle of it, but the process may die there, after any of its       *)
(* commits.  A delay has no length: a job put back is RETRY until it falls *)
(* due, and PENDING again then.  Notifications come in slot order, as the  *)
(* chain processes the transactions; the cluster confirms later, and it    *)
(* confirms a transaction where it stands or never.  Until then a node may *)
(* tell that it failed, be it on a fork.                                   *)
(***************************************************************************)
EXTENDS Naturals, FiniteSets, SequencesExt

CONSTANTS
    Signatures,
    Payloads,       \* signature -> its pump events: "launch" or "trade"
    Chain,          \* what is processed: [sig, slot, lives, ok], slots ascending
    BatchSize,      \* STATUS_BATCH_SIZE
    Patience,       \* launches put back before the first one is due again
    MaxSpan,        \* GAP_RECONCILE_MAX_SLOT_SPAN
    ConfirmLimit,   \* GAP_RECONCILE_CONFIRMATION_BACKLOG_LIMIT
    DeepLimit,      \* GAP_RECONCILE_DEEP_BACKLOG_LIMIT
    MaxFaults,      \* bound: connections that break, processes that end and
                    \* answers of the RPC that are errors, empty or late, together
    NONE

Inclusions == 1 .. Len(Chain)
Sig(k)     == Chain[k].sig
Slot(k)    == Chain[k].slot
Slots      == {Slot(k) : k \in Inclusions}
Waits      == {"PENDING", "RETRY", "IN_PROGRESS"}

ASSUME SignatureAssumption == IsFiniteSet(Signatures)
ASSUME PayloadAssumption == Payloads \in [Signatures -> Seq({"launch", "trade"})]
ASSUME ChainAssumption ==
    /\ Chain \in Seq([sig : Signatures, slot : Nat, lives : BOOLEAN, ok : BOOLEAN])
    /\ \A j, k \in Inclusions : j < k => Slot(j) <= Slot(k)
    /\ \A j, k \in Inclusions : Chain[j].lives /\ Chain[k].lives /\ Sig(j) = Sig(k) => j = k
ASSUME BoundAssumption ==
    /\ BatchSize \in Nat \ {0}
    /\ {Patience, MaxSpan, ConfirmLimit, DeepLimit, MaxFaults} \subseteq Nat
ASSUME NoneAssumption ==
    /\ NONE \notin Signatures /\ NONE \notin Slots
    /\ NONE \notin Waits \cup {"DONE", "executed", "failed", "processed", "confirmed", "clean"}
    /\ NONE \notin [before : Slots \cup {NONE}]
    /\ NONE \notin [job : Nat, slots : SUBSET Slots]

VARIABLES
    head,        \* inclusions processed by the cluster
    tip,         \* inclusions confirmed, or known to be dropped
    stage,       \* "down", "offline", "subscribed", "draining", "ending"
    next,        \* the next notification of this subscription
    last,        \* last_seen_slot
    pending,     \* pending_gap: the slot before it
    observed,    \* signature -> its websocket_observations row: executed or failed
    event,       \* signature -> payload -> confirmation_status of its row
    confirm,     \* signature -> status of its confirmation job
    deep,        \* signature -> status of its deep enrichment job
    enriched,    \* signatures whose transaction was fetched
    gaps,        \* gap jobs: [before, after, status]
    created,     \* signature -> created_at of its jobs, 0 if it has none
    asked,       \* the batch the confirmation worker awaits
    fetching,    \* the signature the deep worker awaits
    reading,     \* the job the gap worker reads and the slots it still awaits
    left,        \* the workers that have left their loop
    report,      \* what the last run that was stopped said of its queues
    missed,      \* history: inclusions a broken stream did not deliver
    abandoned,   \* history: those of them a process took with it
    overlooked,  \* history: slots a finished listing or a null block left out
    cut,         \* history: signatures a crash or an exception left half handled
    premature,   \* history: signatures settled by an err not yet confirmed
    faults

stream  == <<next, last, pending>>
store   == <<observed, event, enriched>>
queues  == <<confirm, deep, gaps, created>>
workers == <<asked, fetching, reading, left>>
history == <<missed, abandoned, overlooked, cut, premature>>
vars    == <<head, tip, stage, stream, store, queues, workers, report, history, faults>>

Events(s) == DOMAIN Payloads[s]
Workers   == {"confirmer", "enricher", "reader"}
Up        == stage # "down"
Listening == stage \in {"offline", "subscribed"}

Init ==
    /\ head = 0 /\ tip = 0
    /\ stage = "down" /\ next = 1 /\ last = NONE /\ pending = NONE
    /\ observed = [s \in Signatures |-> NONE] /\ enriched = {}
    /\ event = [s \in Signatures |-> [n \in Events(s) |-> NONE]]
    /\ confirm = [s \in Signatures |-> NONE] /\ deep = [s \in Signatures |-> NONE]
    /\ gaps = <<>> /\ created = [s \in Signatures |-> 0]
    /\ asked = {} /\ fetching = NONE /\ reading = NONE /\ left = {} /\ report = NONE
    /\ missed = {} /\ abandoned = {} /\ overlooked = {} /\ cut = {} /\ premature = {}
    /\ faults = 0
-----------------------------------------------------------------------------
(* The cluster.                                                            *)
Process ==
    /\ head < Len(Chain)
    /\ head' = head + 1
    /\ missed' = IF stage = "offline" /\ pending # NONE THEN missed \cup {head + 1} ELSE missed
    /\ UNCHANGED <<tip, stage, stream, store, queues, workers, report, abandoned, overlooked,
                   cut, premature, faults>>

(* A slot is confirmed as a whole, once it is over.                        *)
Confirm ==
    /\ \E t \in tip + 1 .. head :
          /\ \A k \in tip + 1 .. t : Slot(k) = Slot(t)
          /\ \A k \in t + 1 .. Len(Chain) : Slot(t) < Slot(k)
          /\ tip' = t
    /\ UNCHANGED <<head, stage, stream, store, queues, workers, report, history, faults>>

(* What it tells of a transaction.                                         *)
Lives(s)  == {k \in Inclusions : Sig(k) = s /\ Chain[k].lives}
Landed(s) == \E k \in Lives(s) : k <= tip
Fate(s)   == IF \A k \in Lives(s) : Chain[k].ok THEN "confirmed" ELSE "failed"

(* The err a node reports at commitment processed, perhaps of a fork.      *)
Erring(s) == \E k \in tip + 1 .. head : Sig(k) = s /\ ~Chain[k].ok
-----------------------------------------------------------------------------
(* enqueue_gap_job: the slots between the last notification before a break *)
(* and the first one after it, both excluded.                              *)
(* Mistake: the last slot of the gap is left out.                          *)
InteriorShort(before, after) == IF before = NONE THEN {} ELSE before + 1 .. after - 2
Interior(before, after)      == IF before = NONE THEN {} ELSE before + 1 .. after - 1
Span(g)                      == Interior(g.before, g.after)

GapJob(before, after) ==
    [before |-> before, after |-> after,
     status |-> IF Interior(before, after) = {} THEN "DONE" ELSE "PENDING"]

(* A missed inclusion between the slots of a gap job, and one that is not  *)
(* its concern: there is no slot before the gap, or it shares one of them. *)
Between(k, g)  == g.before # NONE /\ g.before < Slot(k) /\ Slot(k) < g.after
Recorded(k, G) == \E g \in Range(G) : Between(k, g)
Outside(k, G)  == \E g \in Range(G) : \/ g.before = NONE /\ Slot(k) <= g.after
                                      \/ Slot(k) \in {g.before, g.after}

Fault == faults < MaxFaults /\ faults' = faults + 1

(* The process ends: what it knew of an open gap dies with it.             *)
Ends(to, G) ==
    /\ Fault
    /\ stage' = to /\ next' = 1 /\ last' = NONE /\ pending' = NONE
    /\ missed' = missed \cup (IF stage = "subscribed" THEN next .. head ELSE {})
    /\ abandoned' = abandoned \cup {k \in missed' : ~Recorded(k, G)}

Dies(G) ==
    /\ Ends("down", G)
    /\ asked' = {} /\ fetching' = NONE /\ reading' = NONE /\ left' = {}

Crash ==
    /\ Up /\ Dies(gaps)
    /\ UNCHANGED <<head, tip, store, queues, report, overlooked, cut, premature>>

(* Mistake: a job the last process was at stays in progress.               *)
NotResumed(q) == q
Resumed(q) == [s \in DOMAIN q |-> IF q[s] = "IN_PROGRESS" THEN "PENDING" ELSE q[s]]
ResumedGaps(G) ==
    [i \in DOMAIN G |-> IF G[i].status = "IN_PROGRESS" THEN [G[i] EXCEPT !.status = "RETRY"]
                        ELSE G[i]]

Start ==
    /\ stage = "down"
    /\ stage' = "offline" /\ report' = NONE
    /\ confirm' = Resumed(confirm) /\ deep' = Resumed(deep) /\ gaps' = ResumedGaps(gaps)
    /\ UNCHANGED <<head, tip, stream, store, created, workers, history, faults>>
-----------------------------------------------------------------------------
(* Delays pass, which shows when the worker looks at its queue again.  A   *)
(* batch of retries may be due by the next look, after the answer to       *)
(* another; a launch put back rests while the worker takes Patience others *)
(* or idles; a gap rests until the worker idles.                           *)
Waiting(q)  == {s \in Signatures : q[s] = "PENDING"}
Resting(q)  == {s \in Signatures : q[s] = "RETRY"}
DueAgain(q) == [s \in DOMAIN q |-> IF q[s] = "RETRY" THEN "PENDING" ELSE q[s]]

ConfirmationsDue ==
    /\ Up /\ "confirmer" \notin left /\ asked = {}
    /\ Resting(confirm) # {} /\ confirm' = DueAgain(confirm)
    /\ UNCHANGED <<head, tip, stage, stream, store, deep, gaps, created, workers, report,
                   history, faults>>

LaunchesDue ==
    /\ Up /\ "enricher" \notin left /\ fetching = NONE
    /\ Resting(deep) # {}
    /\ Waiting(deep) = {} \/ Cardinality(Resting(deep)) > Patience
    /\ deep' = DueAgain(deep)
    /\ UNCHANGED <<head, tip, stage, stream, store, confirm, gaps, created, workers, report,
                   history, faults>>

GapsDue ==
    /\ Up /\ "reader" \notin left /\ reading = NONE
    /\ \E i \in DOMAIN gaps : gaps[i].status = "RETRY"
    /\ \A i \in DOMAIN gaps : gaps[i].status # "PENDING"
    /\ gaps' = [i \in DOMAIN gaps |->
          IF gaps[i].status = "RETRY" THEN [gaps[i] EXCEPT !.status = "PENDING"] ELSE gaps[i]]
    /\ UNCHANGED <<head, tip, stage, stream, store, confirm, deep, created, workers, report,
                   history, faults>>

(* created_at: the jobs of a signature are created at one moment, as are   *)
(* those of a block.                                                       *)
Stamped(S) == [s \in Signatures |->
    IF s \in S /\ created[s] = 0 THEN Cardinality({o \in Signatures : created[o] # 0}) + 1
    ELSE created[s]]
Older(s)   == {o \in Signatures : created[o] < created[s]}
-----------------------------------------------------------------------------
(* The listener.                                                           *)
Subscribe ==
    /\ stage = "offline"
    /\ stage' = "subscribed" /\ next' = head + 1
    /\ UNCHANGED <<head, tip, last, pending, store, queues, workers, report, history, faults>>

Pending == IF pending = NONE THEN [before |-> last] ELSE pending

Breaks ==
    /\ Fault
    /\ stage' = "offline" /\ next' = 1
    /\ missed' = missed \cup (IF stage = "subscribed" THEN next .. head ELSE {})
    /\ UNCHANGED <<workers, abandoned>>

Break ==
    /\ Listening /\ Breaks
    /\ pending' = Pending
    /\ UNCHANGED <<head, tip, last, store, queues, report, overlooked, cut, premature>>

(* An exception amidst a notification is taken for a break: before the gap *)
(* is closed, which leaves it open, or after its slot is the last one seen.*)
Interrupted(m) ==
    /\ Breaks
    /\ \/ pending # NONE /\ m <= 1 /\ UNCHANGED <<last, pending>>
       \/ /\ pending # NONE => m >= 1
          /\ last' = Slot(next) /\ pending' = [before |-> Slot(next)]

Commit(do, s, n) == [do |-> do, sig |-> s, n |-> n]
Rows(s) == [n \in Events(s) |-> Commit("event", s, n)]
HasLaunch(s) == \E n \in Events(s) : Payloads[s][n] = "launch"

(* The commits that handling one notification makes, in order.             *)
Handling(k) ==
    LET s == Sig(k)
        gap == IF pending = NONE THEN <<>> ELSE <<Commit("gap", s, 0)>>
        rest == IF observed[s] # NONE \/ ~Chain[k].ok THEN <<>>
                ELSE Rows(s)
                     \o (IF \E n \in Events(s) : event[s][n] = NONE
                         THEN <<Commit("confirm", s, 0)>> ELSE <<>>)
                     \o (IF \E n \in Events(s) : event[s][n] = NONE /\ Payloads[s][n] = "launch"
                         THEN <<Commit("deep", s, 0)>> ELSE <<>>)
    IN gap \o <<Commit("observe", s, 0)>> \o rest

(* What the commits C made.                                                *)
Made(C, do)  == {c.sig : c \in {c \in C : c.do = do}}
Stored(C, s) == {n \in Events(s) : Commit("event", s, n) \in C}

(* Rows that are there already stay as they are.                           *)
WithRows(C, status) ==
    [s \in Signatures |-> [n \in Events(s) |->
        IF event[s][n] = NONE /\ n \in Stored(C, s) THEN status ELSE event[s][n]]]
Queued(q, S) == [s \in Signatures |-> IF s \in S /\ q[s] # "DONE" THEN "PENDING" ELSE q[s]]
QueuedOnce(q, S) == [s \in Signatures |-> IF s \in S /\ q[s] = NONE THEN "PENDING" ELSE q[s]]

Receive ==
    /\ stage = "subscribed" /\ next <= head
    /\ LET all == Handling(next) IN
       \E m \in 0 .. Len(all) :
          LET C == Range(SubSeq(all, 1, m)) IN
          /\ gaps' = IF Made(C, "gap") = {} THEN gaps
                     ELSE Append(gaps, GapJob(pending.before, Slot(next)))
          /\ observed' = [s \in Signatures |->
                 IF s \in Made(C, "observe") /\ observed[s] = NONE
                 THEN IF Chain[next].ok THEN "executed" ELSE "failed" ELSE observed[s]]
          /\ event' = WithRows(C, "processed")
          /\ confirm' = Queued(confirm, Made(C, "confirm"))
          /\ deep' = QueuedOnce(deep, Made(C, "deep"))
          /\ created' = Stamped(Made(C, "confirm"))
          /\ \/ /\ m = Len(all)
                /\ next' = next + 1 /\ last' = Slot(next) /\ pending' = NONE
                /\ UNCHANGED <<stage, workers, missed, abandoned, cut, faults>>
             \/ /\ m < Len(all) /\ Dies(gaps')
                /\ cut' = cut \cup Made(C, "observe")
             \/ /\ m < Len(all) /\ Interrupted(m)
                /\ cut' = cut \cup Made(C, "observe")
    /\ UNCHANGED <<head, tip, enriched, report, overlooked, premature>>

(* The event target is reached, or the operator interrupts.                *)
Stop ==
    /\ Listening
    /\ Ends("draining", gaps)
    /\ UNCHANGED <<head, tip, store, queues, workers, report, overlooked, cut, premature>>
-----------------------------------------------------------------------------
(* The confirmation worker.  The batch: the oldest jobs that are due.      *)
Batch == {s \in Waiting(confirm) : Cardinality(Older(s) \cap Waiting(confirm)) < BatchSize}

Poll ==
    /\ Up /\ "confirmer" \notin left /\ asked = {} /\ Waiting(confirm) # {}
    /\ asked' = Batch
    /\ confirm' = [s \in Signatures |-> IF s \in asked' THEN "IN_PROGRESS" ELSE confirm[s]]
    /\ UNCHANGED <<head, tip, stage, stream, store, deep, gaps, created, fetching, reading, left,
                   report, history, faults>>

(* The answer: a signature is settled as failed for an err at whatever     *)
(* commitment (F), else as the cluster confirmed it; the others are asked  *)
(* again.  Of those told of (S) a late answer leaves some out, and an      *)
(* exception puts every job back, also those settled in this batch.        *)
Told(F) == F \cup {s \in asked : Landed(s)}

Settle(S, F) ==
    /\ event' = [s \in Signatures |-> [n \in Events(s) |->
          IF s \in S /\ event[s][n] # NONE
          THEN IF s \in F THEN "failed" ELSE Fate(s)
          ELSE event[s][n]]]
    /\ premature' = premature \cup (S \cap F)

AfterPoll(D) == [s \in Signatures |-> IF s \in D THEN "DONE"
                                      ELSE IF s \in asked THEN "RETRY" ELSE confirm[s]]

Statuses ==
    /\ asked # {}
    /\ \E F \in SUBSET {s \in asked : Erring(s)} : \E S \in SUBSET Told(F) :
          /\ Settle(S, F)
          /\ \/ /\ confirm' = AfterPoll(S)
                /\ IF S = Told(F) THEN UNCHANGED faults ELSE Fault
             \/ confirm' = AfterPoll({}) /\ Fault
    /\ asked' = {}
    /\ UNCHANGED <<head, tip, stage, stream, observed, enriched, deep, gaps, created, fetching,
                   reading, left, report, missed, abandoned, overlooked, cut>>

DieInStatuses ==
    /\ asked # {}
    /\ \E F \in SUBSET {s \in asked : Erring(s)} : \E S \in (SUBSET Told(F)) \ {{}} :
          /\ Settle(S, F)
          /\ \E D \in SUBSET S : confirm' = AfterPoll(D)
    /\ Dies(gaps)
    /\ UNCHANGED <<head, tip, observed, enriched, deep, gaps, created, report, overlooked, cut>>
-----------------------------------------------------------------------------
(* The deep worker.  It takes the oldest launch that is due, and puts it   *)
(* back while its confirmation is open.                                    *)
(* Mistakes: it is fetched at once; one that was never asked about waits.  *)
AtOnce(s) == TRUE
AfterJob(s) == confirm[s] = "DONE"
Confirmed(s) == confirm[s] \in {NONE, "DONE"}

NextLaunch(s) ==
    /\ Up /\ "enricher" \notin left /\ fetching = NONE
    /\ s \in Waiting(deep) /\ Older(s) \cap Waiting(deep) = {}

TakeLaunch(s) ==
    /\ NextLaunch(s) /\ Confirmed(s)
    /\ fetching' = s /\ deep' = [deep EXCEPT ![s] = "IN_PROGRESS"]
    /\ UNCHANGED <<head, tip, stage, stream, store, confirm, gaps, created, asked, reading, left,
                   report, history, faults>>

PutBack(s) ==
    /\ NextLaunch(s) /\ ~Confirmed(s)
    /\ deep' = [deep EXCEPT ![s] = "RETRY"]
    /\ UNCHANGED <<head, tip, stage, stream, store, confirm, gaps, created, workers, report,
                   history, faults>>

LaunchFetched ==
    /\ fetching # NONE /\ Landed(fetching)
    /\ enriched' = enriched \cup {fetching}
    /\ deep' = [deep EXCEPT ![fetching] = "DONE"]
    /\ fetching' = NONE
    /\ UNCHANGED <<head, tip, stage, stream, observed, event, confirm, gaps, created, asked,
                   reading, left, report, history, faults>>

(* The transaction is saved, its job not yet done.                         *)
DieInFetch ==
    /\ fetching # NONE /\ Landed(fetching)
    /\ enriched' = enriched \cup {fetching}
    /\ Dies(gaps)
    /\ UNCHANGED <<head, tip, observed, event, queues, report, overlooked, cut, premature>>

LaunchNotFetched ==
    /\ fetching # NONE
    /\ deep' = [deep EXCEPT ![fetching] = "RETRY"]
    /\ fetching' = NONE
    /\ IF Landed(fetching) THEN Fault ELSE UNCHANGED faults
    /\ UNCHANGED <<head, tip, stage, stream, store, confirm, gaps, created, asked, reading, left,
                   report, history>>
-----------------------------------------------------------------------------
(* The gap worker.  With a job due it waits while the other queues are     *)
(* long; a job with too many slots is put back, as often as it is taken.   *)
Open(q)   == {s \in Signatures : q[s] \in Waits}
Congested == \/ Cardinality(Open(confirm)) > ConfirmLimit
             \/ Cardinality(Open(deep)) > DeepLimit
Oversize(g) == Cardinality(Span(g)) > MaxSpan
BlockSlots  == {Slot(k) : k \in {k \in 1 .. tip : Chain[k].lives}}

NextGap(i) ==
    /\ Up /\ "reader" \notin left /\ reading = NONE /\ ~Congested
    /\ gaps[i].status = "PENDING"
    /\ \A j \in DOMAIN gaps : j < i => gaps[j].status # "PENDING"

(* get_confirmed_blocks lists the slots the cluster has confirmed by now.  *)
TakeGap(i) ==
    /\ NextGap(i) /\ ~Oversize(gaps[i])
    /\ gaps' = [gaps EXCEPT ![i].status = "IN_PROGRESS"]
    /\ reading' = [job |-> i, slots |-> Span(gaps[i]) \cap BlockSlots]
    /\ overlooked' = overlooked \cup (Span(gaps[i]) \ {Slot(k) : k \in 1 .. tip})
    /\ UNCHANGED <<head, tip, stage, stream, store, confirm, deep, created, asked, fetching, left,
                   report, missed, abandoned, cut, premature, faults>>

PutGapBack(i) ==
    /\ NextGap(i) /\ Oversize(gaps[i])
    /\ gaps' = [gaps EXCEPT ![i].status = "RETRY"]
    /\ UNCHANGED <<head, tip, stage, stream, store, confirm, deep, created, workers, report,
                   history, faults>>

GapRetried ==
    /\ gaps' = [gaps EXCEPT ![reading.job].status = "RETRY"]
    /\ reading' = NONE

GapFails ==
    /\ reading # NONE /\ Fault /\ GapRetried
    /\ UNCHANGED <<head, tip, stage, stream, store, confirm, deep, created, asked, fetching, left,
                   report, history>>

(* The commits for one transaction of a block, and for the block.          *)
Recovery(s) ==
    Rows(s) \o <<Commit("confirmed", s, 0)>>
            \o (IF \E n \in Events(s) : event[s][n] = NONE /\ Payloads[s][n] = "launch"
                THEN <<Commit("deep", s, 0)>> ELSE <<>>)
InBlock(slot)   == {k \in Inclusions : Slot(k) = slot /\ Chain[k].lives /\ Chain[k].ok}
Recovered(K)    == UNION {Range(Recovery(Sig(k))) : k \in K}
Block(slot)     == Recovered(InBlock(slot))

NextSlot == CHOOSE l \in reading.slots : \A o \in reading.slots : l <= o

StoreBlock(C) ==
    LET rows == WithRows(C, "confirmed") IN
    /\ event' = [s \in Signatures |-> [n \in Events(s) |->
           IF s \in Made(C, "confirmed") /\ rows[s][n] # NONE THEN "confirmed" ELSE rows[s][n]]]
    /\ deep' = QueuedOnce(deep, Made(C, "deep"))
    /\ created' = Stamped(Made(C, "deep"))
    /\ UNCHANGED <<head, tip, observed, enriched, confirm, report, overlooked, premature>>
AtBlock == reading # NONE /\ reading.slots # {}

ReadBlock ==
    /\ AtBlock
    /\ StoreBlock(Block(NextSlot))
    /\ reading' = [reading EXCEPT !.slots = @ \ {NextSlot}]
    /\ UNCHANGED <<stage, stream, gaps, asked, fetching, left, missed, abandoned, cut,
                   faults>>

(* The transactions before the k-th are stored, and part of its commits.   *)
PartOfIt ==
    /\ AtBlock
    /\ \E k \in InBlock(NextSlot) : \E m \in 0 .. Len(Recovery(Sig(k))) - 1 :
          LET C == Recovered({j \in InBlock(NextSlot) : j < k})
                   \cup Range(SubSeq(Recovery(Sig(k)), 1, m)) IN
          /\ StoreBlock(C)
          /\ cut' = cut \cup {s \in Made(C, "event") \ Made(C, "deep") : HasLaunch(s)}

DieInBlock == PartOfIt /\ Dies(gaps) /\ UNCHANGED gaps

FailInBlock ==
    /\ PartOfIt /\ Fault /\ GapRetried
    /\ UNCHANGED <<stage, stream, asked, fetching, left, missed, abandoned>>

NoBlock ==
    /\ AtBlock /\ Fault
    /\ overlooked' = overlooked \cup {NextSlot}
    /\ reading' = [reading EXCEPT !.slots = @ \ {NextSlot}]
    /\ UNCHANGED <<head, tip, stage, stream, store, queues, asked, fetching, left, report, missed,
                   abandoned, cut, premature>>

GapRead ==
    /\ reading # NONE /\ reading.slots = {}
    /\ gaps' = [gaps EXCEPT ![reading.job].status = "DONE"]
    /\ reading' = NONE
    /\ UNCHANGED <<head, tip, stage, stream, store, confirm, deep, created, asked, fetching, left,
                   report, history, faults>>
-----------------------------------------------------------------------------
(* queue_counts, and the end of the run.                                   *)
OpenGaps == {i \in DOMAIN gaps : gaps[i].status \in Waits}
(* Mistake: what a worker is at right now is not counted.                  *)
NothingWaits == /\ \A s \in Signatures : {confirm[s], deep[s]} \cap {"PENDING", "RETRY"} = {}
                /\ \A i \in DOMAIN gaps : gaps[i].status \notin {"PENDING", "RETRY"}
QueuesEmpty == Open(confirm) = {} /\ Open(deep) = {} /\ OpenGaps = {}

Report ==
    /\ stage = "draining"
    /\ stage' = "ending"
    /\ report' = IF QueuesEmpty THEN "clean" ELSE "remaining"
    /\ UNCHANGED <<head, tip, stream, store, queues, workers, history, faults>>

(* A worker that was told to stop leaves when no job of its queue is due:  *)
(* it does not wait for the others, nor for its own retries.               *)
Leave(worker) ==
    /\ stage = "ending" /\ worker \notin left
    /\ left' = left \cup {worker}
    /\ UNCHANGED <<head, tip, stage, stream, store, queues, asked, fetching, reading, report,
                   history, faults>>

ConfirmerLeaves == asked = {} /\ Waiting(confirm) = {} /\ Leave("confirmer")
EnricherLeaves  == fetching = NONE /\ Waiting(deep) = {} /\ Leave("enricher")
ReaderLeaves    == /\ reading = NONE /\ \A g \in Range(gaps) : g.status # "PENDING"
                   /\ Leave("reader")

End ==
    /\ stage = "ending" /\ left = Workers
    /\ stage' = "down" /\ left' = {}
    /\ UNCHANGED <<head, tip, stream, store, queues, asked, fetching, reading, report, history,
                   faults>>
-----------------------------------------------------------------------------
Listener  == Subscribe \/ Break \/ Receive \/ Stop
Confirmer == ConfirmationsDue \/ Poll \/ Statuses
Enricher  == LaunchesDue \/ (\E s \in Signatures : TakeLaunch(s) \/ PutBack(s))
             \/ LaunchFetched \/ LaunchNotFetched
Reader    == GapsDue \/ (\E i \in DOMAIN gaps : TakeGap(i) \/ PutGapBack(i))
             \/ GapFails \/ ReadBlock \/ FailInBlock \/ NoBlock \/ GapRead
Ending    == Report \/ ConfirmerLeaves \/ EnricherLeaves \/ ReaderLeaves \/ End
Next == \/ Process \/ Confirm \/ Start \/ Listener \/ Confirmer \/ Enricher \/ Reader
        \/ Ending \/ Crash \/ DieInStatuses \/ DieInFetch \/ DieInBlock

(* The cluster goes on, the drain has its deadline, a collector that ended *)
(* is started again, and each worker is a task that the event loop runs on,*)
(* as are its delays.  A worker told to stop finds no job due, at last,    *)
(* unless more retries wait than it gets through before the first is due.  *)
Leaving ==
    \/ ConfirmerLeaves /\ Cardinality(Open(confirm)) <= BatchSize
    \/ EnricherLeaves /\ Cardinality(Open(deep)) <= Patience
    \/ ReaderLeaves
Fairness ==
    /\ WF_vars(Process \/ Confirm \/ Start \/ Report \/ End)
    /\ WF_vars(Confirmer) /\ WF_vars(Enricher) /\ WF_vars(Reader) /\ SF_vars(Leaving)
Spec == Init /\ [][Next]_vars /\ Fairness
-----------------------------------------------------------------------------
JobStatus == Waits \cup {"DONE"}

(* Every variable is of its kind, and while a process is up exactly the    *)
(* jobs its workers are at are in progress: what a dead process was at is  *)
(* taken again.                                                            *)
TypeOK ==
    /\ head \in 0 .. Len(Chain) /\ tip \in 0 .. head
    /\ stage \in {"down", "offline", "subscribed", "draining", "ending"}
    /\ next \in 1 .. head + 1 /\ last \in Slots \cup {NONE}
    /\ pending = NONE \/ pending \in [before : Slots \cup {NONE}]
    /\ observed \in [Signatures -> {"executed", "failed", NONE}]
    /\ confirm \in [Signatures -> JobStatus \cup {NONE}]
    /\ deep \in [Signatures -> JobStatus \cup {NONE}]
    /\ enriched \cup cut \cup premature \subseteq Signatures
    /\ created \in [Signatures -> Nat] /\ left \subseteq Workers
    /\ Range(gaps) \subseteq [before : Slots \cup {NONE}, after : Slots, status : JobStatus]
    /\ report \in {"clean", "remaining", NONE}
    /\ missed \cup abandoned \subseteq 1 .. head
    /\ Up => /\ asked = {s \in Signatures : confirm[s] = "IN_PROGRESS"}
             /\ {s \in Signatures : deep[s] = "IN_PROGRESS"}
                   = (IF fetching = NONE THEN {} ELSE {fetching})
             /\ {i \in DOMAIN gaps : gaps[i].status = "IN_PROGRESS"}
                   = (IF reading = NONE THEN {} ELSE {reading.job})

Complete(s) == \A n \in Events(s) : event[s][n] # NONE
Settled(s)  == \A n \in Events(s) : event[s][n] # "processed"
Counts(k)   == Chain[k].lives /\ Chain[k].ok

(* What a broken stream did not deliver is stored, or still owed by a gap  *)
(* that is open or by a job that is not done.  The exceptions are the ones *)
(* the code has: the slots at both ends of a gap, a gap with no slot       *)
(* before it, a process that ended before the gap was recorded, and a slot *)
(* the cluster had not confirmed, or had no block for, when it was read.   *)
GapsCovered ==
    \A k \in {k \in missed : Counts(k)} :
        \/ Complete(Sig(k))
        \/ pending # NONE /\ (pending.before = NONE \/ pending.before <= Slot(k))
        \/ \E g \in Range(gaps) : g.status \in Waits /\ Between(k, g)
        \/ Outside(k, gaps) \/ k \in abandoned \/ Slot(k) \in overlooked

(* A launch is only enriched when the cluster has said how it ended, and   *)
(* nothing of it is left unconfirmed by whichever of the listener and the  *)
(* gap worker stored it first.                                             *)
EnrichedAfterSettled == \A s \in enriched : Landed(s) /\ Settled(s)

(* A run that reports empty queues leaves nothing behind: what it observed *)
(* as executed is stored and settled, launches are enriched, and what its  *)
(* breaks lost is recovered.  A row that is settled says what the cluster  *)
(* confirmed, unless an err of a node was taken for the end before.  The   *)
(* other exceptions are those of the gaps, and signatures that a crash or  *)
(* an exception cut off half handled.                                      *)
CleanMeansComplete ==
    report = "clean" =>
        /\ \A s \in Signatures \ cut :
              /\ observed[s] = "executed" => Complete(s)
              /\ Settled(s)
              /\ s \in premature \/ \A n \in Events(s) : event[s][n] \in {NONE, Fate(s)}
              /\ \A n \in Events(s) : event[s][n] # NONE /\ Payloads[s][n] = "launch"
                                        => s \in enriched
        /\ \A k \in {k \in missed : Counts(k)} :
              Complete(Sig(k)) \/ Outside(k, gaps) \/ k \in abandoned \/ Slot(k) \in overlooked

(* The jobs nobody finishes: of a transaction the cluster dropped, those   *)
(* behind as many older ones as a batch holds, or more than a launch       *)
(* put back leaves time for, and all of a worker that has left.            *)
Dropped    == {s \in Signatures : Lives(s) = {}}
Unanswered ==
    LET stuck == Open(confirm) \cap Dropped IN
    {s \in Open(confirm) : \/ "confirmer" \in left \/ s \in stuck
                           \/ Cardinality(stuck \cap Older(s)) >= BatchSize}
Unfetched  ==
    LET stuck == IF "enricher" \in left THEN Open(deep)
                 ELSE Open(deep) \cap (Dropped \cup Unanswered) IN
    {s \in Open(deep) : s \in stuck \/ Cardinality(stuck \cap Older(s)) > Patience}

(* Every job is done in the end and every run that drains its queues ends, *)
(* but for the jobs nobody finishes, gaps that are too wide, all gaps      *)
(* while such jobs keep the other queues long, and a run that hangs: when  *)
(* it was stopped a worker finds a retry due whenever it looks, or the gap *)
(* worker has a job due and waits for queues nobody works on any more.     *)
JobsFinish ==
    []<>LET unanswered == Unanswered
            unfetched  == Unfetched
            stalled    == \/ Cardinality(unanswered) > ConfirmLimit
                          \/ Cardinality(unfetched) > DeepLimit
            hung       ==
                \/ "confirmer" \notin left /\ Cardinality(unanswered) > BatchSize
                \/ "enricher" \notin left /\ Cardinality(unfetched) > Patience
                \/ stalled /\ \E g \in Range(gaps) : g.status = "PENDING"
        IN \/ stage = "ending" /\ hung
           \/ /\ Open(confirm) = unanswered /\ Open(deep) = unfetched
              /\ stalled \/ \A i \in OpenGaps : Oversize(gaps[i])
              /\ stage \notin {"draining", "ending"}
=============================================================================
