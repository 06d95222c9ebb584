------------------------ MODULE LiveCollector_proofs ------------------------
(***************************************************************************)
(* Proofs about LiveCollector, for any chain, payloads, limits and faults: *)
(* variables keep their kinds, what a broken stream missed stays covered,  *)
(* launches are enriched only when settled, a clean report leaves nothing  *)
(* behind, and nothing stored is taken back.                               *)
(***************************************************************************)
EXTENDS LiveCollector, LeastNumber, SequenceTheorems, FiniteSetTheorems

GapJobs == [before : Slots \cup {NONE}, after : Slots, status : JobStatus]
Reads   == [job : DOMAIN gaps, slots : SUBSET Slots]

Shape ==
    /\ head \in 0 .. Len(Chain) /\ tip \in 0 .. head
    /\ stage \in {"down", "offline", "subscribed", "draining", "ending"}
    /\ next \in 1 .. head + 1 /\ last \in Slots \cup {NONE}
    /\ pending = NONE \/ pending \in [before : Slots \cup {NONE}]
    /\ observed \in [Signatures -> {"executed", "failed", NONE}]
    /\ DOMAIN event = Signatures
    /\ \A s \in Signatures :
          event[s] \in [Events(s) -> {"processed", "confirmed", "failed", NONE}]
    /\ confirm \in [Signatures -> JobStatus \cup {NONE}]
    /\ deep \in [Signatures -> JobStatus \cup {NONE}]
    /\ enriched \subseteq Signatures
    /\ gaps \in Seq(GapJobs)
    /\ asked \subseteq Signatures /\ fetching \in Signatures \cup {NONE}
    /\ reading = NONE \/ reading \in Reads
    /\ report \in {"clean", "remaining", NONE}
    /\ missed \cup abandoned \subseteq 1 .. head

(* The workers are at the jobs in progress, and at none after their end.   *)
Busy ==
    /\ Up => /\ asked = {s \in Signatures : confirm[s] = "IN_PROGRESS"}
             /\ \A s \in Signatures : deep[s] = "IN_PROGRESS" <=> fetching = s
             /\ \A i \in DOMAIN gaps : gaps[i].status = "IN_PROGRESS"
                                       <=> reading # NONE /\ reading.job = i
    /\ ~Up => asked = {} /\ fetching = NONE /\ reading = NONE

(* What the listener has not been told of lies at or beyond the slots it   *)
(* remembers, and what is not confirmed beyond the slots that are.         *)
Unseen(k) == k > head \/ (stage = "subscribed" /\ k >= next)

Order ==
    /\ \A k \in Inclusions : Unseen(k) =>
          /\ k \notin missed
          /\ last # NONE => last <= Slot(k)
          /\ pending # NONE /\ pending.before # NONE => pending.before <= Slot(k)
          /\ \A i \in DOMAIN gaps : gaps[i].after <= Slot(k)
    /\ pending # NONE => Listening
    /\ \A j, k \in Inclusions : j <= tip /\ tip < k => Slot(j) < Slot(k)

(* The rows of a signature against its jobs.                               *)
Jobs ==
    \A s \in Signatures :
        /\ confirm[s] # NONE => observed[s] # NONE
        /\ deep[s] # NONE =>
              /\ Complete(s)
              /\ \A n \in Events(s) : event[s][n] = "processed" => confirm[s] \in Waits
        /\ s \in premature
           \/ \A n \in Events(s) : event[s][n] \in {NONE, "processed", Fate(s)}
        /\ fetching = s => Settled(s)
        /\ s \in enriched => deep[s] # NONE /\ Settled(s) /\ Landed(s)
        /\ deep[s] = "DONE" => s \in enriched
        /\ s \notin cut =>
              /\ observed[s] = "executed" => Complete(s)
              /\ \A n \in Events(s) :
                    /\ event[s][n] = "processed" => confirm[s] \in Waits
                    /\ event[s][n] # NONE /\ Payloads[s][n] = "launch" => deep[s] # NONE

(* What was missed is recorded in a gap that will be read, or will be      *)
(* recorded; what the gap worker has read is stored.                       *)
OpenFor(k)  == \E i \in DOMAIN gaps : gaps[i].status \in Waits /\ Between(k, gaps[i])
Expected(k) == pending # NONE /\ (pending.before = NONE \/ pending.before <= Slot(k))

Excused(k) == Outside(k, gaps) \/ k \in abandoned \/ Slot(k) \in overlooked

Covered ==
    \A k \in missed : Counts(k) =>
        \/ Complete(Sig(k)) \/ Excused(k)
        \/ Recorded(k, gaps) /\ OpenFor(k)
        \/ ~Recorded(k, gaps) /\ Expected(k)

ReadSoFar ==
    reading # NONE => \A k \in Inclusions : Counts(k) /\ Between(k, gaps[reading.job]) =>
        Complete(Sig(k)) \/ Slot(k) \in reading.slots \/ Slot(k) \in overlooked

Clean == report = "clean" => stage \in {"ending", "down"} /\ QueuesEmpty

Main == Shape /\ Busy /\ Order /\ Jobs /\ Covered /\ ReadSoFar /\ Clean

(* A worker that has left is at nothing.                                   *)
Rest ==
    /\ created \in [Signatures -> Nat] /\ left \subseteq Workers
    /\ cut \cup premature \subseteq Signatures
    /\ "confirmer" \in left => asked = {}
    /\ "enricher" \in left => fetching = NONE
    /\ "reader" \in left => reading = NONE

IInv == Main /\ Rest
-----------------------------------------------------------------------------
(* What is in a beginning of a sequence, and a sequence after another.      *)
Upto(q, m) == Range(SubSeq(q, 1, m))
Cat(p, q)  == p \o q

LEMMA BeginningRange ==
    ASSUME NEW S, NEW q \in Seq(S), NEW m \in 0 .. Len(q)
    PROVE  Upto(q, m) = {q[i] : i \in 1 .. m}
<1>1. Len(q) \in Nat /\ DOMAIN q = 1 .. Len(q)
  BY LenProperties
<1>2. \A i \in 1 .. m : q[i] \in S
  BY <1>1, ElementOfSeq
<1>3. /\ SubSeq(q, 1, m) \in Seq(S)
      /\ Len(SubSeq(q, 1, m)) = IF 1 <= m THEN m - 1 + 1 ELSE 0
      /\ \A i \in 1 .. m - 1 + 1 : SubSeq(q, 1, m)[i] = q[1 + i - 1]
  BY <1>1, <1>2, SubSeqProperties
<1>4. Len(SubSeq(q, 1, m)) = m /\ \A i \in 1 .. m : SubSeq(q, 1, m)[i] = q[i]
  BY <1>1, <1>3
<1>5. Range(SubSeq(q, 1, m)) = {SubSeq(q, 1, m)[i] : i \in 1 .. m}
  BY <1>3, <1>4, RangeEquality
<1> QED BY <1>4, <1>5 DEF Upto

(* What comes first is done first.                                         *)
LEMMA CatItems ==
    ASSUME NEW S, NEW p \in Seq(S), NEW q \in Seq(S)
    PROVE  /\ Cat(p, q) \in Seq(S) /\ Len(Cat(p, q)) = Len(p) + Len(q)
           /\ \A i \in 1 .. Len(p) + Len(q) :
                 Cat(p, q)[i] = IF i <= Len(p) THEN p[i] ELSE q[i - Len(p)]
BY ConcatProperties DEF Cat

LEMMA BeginningOfConcat ==
    ASSUME NEW S, NEW p \in Seq(S), NEW q \in Seq(S), NEW t, t = Cat(p, q), NEW m \in 0 .. Len(t),
           NEW C, C = Upto(t, m)
    PROVE  /\ C \subseteq Range(p) \cup Range(q)
           /\ \A c \in C : c \notin Range(p) => Range(p) \subseteq C
<1>1. /\ t \in Seq(S) /\ Len(t) = Len(p) + Len(q)
      /\ \A i \in 1 .. Len(p) + Len(q) : t[i] = IF i <= Len(p) THEN p[i] ELSE q[i - Len(p)]
  BY CatItems
<1>2. Len(p) \in Nat /\ Len(q) \in Nat
  BY LenProperties
<1>3. C = {t[i] : i \in 1 .. m}
  <2>1. t \in Seq(S)
    BY <1>1
  <2>2. Upto(t, m) = {t[i] : i \in 1 .. m}
    BY <2>1, BeginningRange
  <2> QED BY <2>2
<1>4. Range(p) = {p[i] : i \in 1 .. Len(p)} /\ Range(q) = {q[i] : i \in 1 .. Len(q)}
  BY RangeEquality
<1>5. ASSUME NEW i \in 1 .. m
      PROVE  t[i] \in Range(p) \cup Range(q) /\ (i <= Len(p) => t[i] \in Range(p))
  <2>1. i \in 1 .. Len(p) + Len(q)
    BY <1>1, <1>2
  <2>2. CASE i <= Len(p)
    BY <1>1, <1>2, <1>4, <2>1, <2>2
  <2>3. CASE ~(i <= Len(p))
    <3>1. i - Len(p) \in 1 .. Len(q)
      BY <1>2, <2>1, <2>3
    <3> QED BY <1>1, <1>4, <2>1, <2>3, <3>1
  <2> QED BY <2>2, <2>3
<1>6. ASSUME NEW c \in C, c \notin Range(p) PROVE Range(p) \subseteq C
  <2>1. PICK i \in 1 .. m : c = t[i]
    BY <1>3
  <2>2. ~(i <= Len(p))
    BY <1>5, <1>6, <2>1
  <2>3. ASSUME NEW j \in 1 .. Len(p) PROVE p[j] \in C
    <3>1. j \in 1 .. m /\ j \in 1 .. Len(p) + Len(q) /\ j <= Len(p)
      BY <1>1, <1>2, <2>2
    <3>2. t[j] = p[j]
      BY <1>1, <3>1
    <3> QED BY <1>3, <3>1, <3>2
  <2> QED BY <1>4, <2>3
<1> QED BY <1>3, <1>5, <1>6

LEMMA Regroup ==
    ASSUME NEW S, NEW p \in Seq(S), NEW q \in Seq(S), NEW u \in Seq(S)
    PROVE  Cat(Cat(p, q), u) = Cat(p, Cat(q, u))
BY ConcatAssociative, SMTT(30) DEF Cat

LEMMA Joined ==
    ASSUME NEW S, NEW p \in Seq(S), NEW q \in Seq(S)
    PROVE  Cat(p, q) \in Seq(S) /\ Range(Cat(p, q)) = Range(p) \cup Range(q)
BY ConcatProperties, RangeConcatenation DEF Cat

LEMMA WholeRange ==
    ASSUME NEW S, NEW q \in Seq(S)
    PROVE  Upto(q, Len(q)) = Range(q)
<1>1. Len(q) \in 0 .. Len(q)
  BY LenProperties
<1>2. Upto(q, Len(q)) = {q[i] : i \in 1 .. Len(q)}
  BY <1>1, BeginningRange
<1>3. Range(q) = {q[i] : i \in 1 .. Len(q)}
  BY RangeEquality
<1> QED BY <1>2, <1>3

(* Four parts in a row, cut after any of them.                             *)
LEMMA FourParts ==
    ASSUME NEW S, NEW g \in Seq(S), NEW r \in Seq(S), NEW f \in Seq(S), NEW d \in Seq(S)
    PROVE  /\ Cat(Cat(r, f), d) \in Seq(S) /\ Cat(g, r) \in Seq(S) /\ Cat(f, d) \in Seq(S)
           /\ Cat(Cat(g, r), f) \in Seq(S) /\ Cat(g, Cat(Cat(r, f), d)) \in Seq(S)
           /\ Cat(g, Cat(Cat(r, f), d)) = Cat(Cat(g, r), Cat(f, d))
           /\ Cat(g, Cat(Cat(r, f), d)) = Cat(Cat(Cat(g, r), f), d)
           /\ Range(Cat(g, r)) = Range(g) \cup Range(r)
           /\ Range(Cat(Cat(g, r), f)) = Range(g) \cup Range(r) \cup Range(f)
           /\ Range(Cat(Cat(r, f), d)) = Range(r) \cup Range(f) \cup Range(d)
<1>1. Cat(r, f) \in Seq(S) /\ Range(Cat(r, f)) = Range(r) \cup Range(f)
  BY Joined
<1>2. PICK x \in Seq(S) : /\ x = Cat(Cat(r, f), d)
                          /\ Range(x) = Range(r) \cup Range(f) \cup Range(d)
  BY <1>1, Joined
<1>3. PICK y \in Seq(S) : y = Cat(f, d)
  BY Joined
<1>4. PICK v \in Seq(S) : v = Cat(g, r) /\ Range(v) = Range(g) \cup Range(r)
  BY Joined
<1>5. PICK w \in Seq(S) : w = Cat(v, f) /\ Range(w) = Range(g) \cup Range(r) \cup Range(f)
  BY <1>4, Joined
<1>6. x = Cat(r, y)
  BY <1>2, <1>3, Regroup
<1>7. Cat(g, x) = Cat(v, y)
  BY <1>3, <1>4, <1>6, Regroup
<1>8. Cat(v, y) = Cat(w, d)
  BY <1>3, <1>5, Regroup
<1>9. Cat(g, x) \in Seq(S)
  BY Joined
<1> QED BY <1>1, <1>2, <1>3, <1>4, <1>5, <1>7, <1>8, <1>9

LEMMA BeginningOrder ==
    ASSUME NEW S, NEW g \in Seq(S), NEW r \in Seq(S), NEW f \in Seq(S), NEW d \in Seq(S),
           NEW q, q = Cat(g, Cat(Cat(r, f), d)), NEW m \in 0 .. Len(q),
           NEW C, C = Upto(q, m)
    PROVE  /\ C \subseteq Range(g) \cup Range(r) \cup Range(f) \cup Range(d)
           /\ \A c \in C : c \notin Range(g) => Range(g) \subseteq C
           /\ \A c \in C : c \notin Range(g) \cup Range(r) => Range(r) \subseteq C
           /\ \A c \in C : c \notin Range(g) \cup Range(r) \cup Range(f) => Range(f) \subseteq C
           /\ m = Len(q) => C = Range(g) \cup Range(r) \cup Range(f) \cup Range(d)
<1>1. PICK x \in Seq(S), v \in Seq(S), y \in Seq(S), w \in Seq(S) :
         x = Cat(Cat(r, f), d) /\ v = Cat(g, r) /\ y = Cat(f, d) /\ w = Cat(v, f)
  BY FourParts
<1>2. /\ Range(v) = Range(g) \cup Range(r)
      /\ Range(w) = Range(g) \cup Range(r) \cup Range(f)
      /\ Range(x) = Range(r) \cup Range(f) \cup Range(d)
  BY <1>1, FourParts
<1>3. q \in Seq(S) /\ q = Cat(g, x) /\ q = Cat(v, y) /\ q = Cat(w, d)
  BY <1>1, FourParts
<1>4. /\ C \subseteq Range(g) \cup Range(x)
      /\ \A c \in C : c \notin Range(g) => Range(g) \subseteq C
  <2>1. q = Cat(g, x)
    BY <1>3
  <2> QED BY <2>1, BeginningOfConcat
<1>5. \A c \in C : c \notin Range(v) => Range(v) \subseteq C
  <2>1. q = Cat(v, y)
    BY <1>3
  <2> QED BY <2>1, BeginningOfConcat
<1>6. \A c \in C : c \notin Range(w) => Range(w) \subseteq C
  <2>1. q = Cat(w, d)
    BY <1>3
  <2> QED BY <2>1, BeginningOfConcat
<1>7. m = Len(q) => C = Range(g) \cup Range(x)
  <2>1. Range(Cat(g, x)) = Range(g) \cup Range(x)
    BY Joined
  <2>2. Upto(q, Len(q)) = Range(q)
    BY <1>3, WholeRange
  <2> QED BY <1>3, <2>1, <2>2
<1> QED BY <1>2, <1>4, <1>5, <1>6, <1>7
-----------------------------------------------------------------------------
(* The commits of the listener and of the gap worker.                      *)
Commits == [do : {"gap", "observe", "event", "confirm", "confirmed", "deep"}, sig : Signatures,
            n : Nat]
EventsOf(s)  == {Commit("event", s, n) : n \in Events(s)}
NewLaunch(s) == \E n \in Events(s) : event[s][n] = NONE /\ Payloads[s][n] = "launch"

(* A commit is known by what it does and to whom.                          *)
LEMMA CommitKinds ==
    ASSUME NEW s \in Signatures, NEW n \in Nat, NEW do
    PROVE  /\ Commit(do, s, n).do = do /\ Commit(do, s, n).sig = s /\ Commit(do, s, n).n = n
           /\ do \in {"gap", "observe", "event", "confirm", "confirmed", "deep"}
                 => Commit(do, s, n) \in Commits
BY DEF Commit, Commits

LEMMA RowsOf ==
    ASSUME NEW s \in Signatures
    PROVE  /\ Events(s) \subseteq Nat /\ Rows(s) \in Seq(Commits) /\ Range(Rows(s)) = EventsOf(s)
<1>1. Payloads[s] \in Seq({"launch", "trade"})
  BY PayloadAssumption
<1>2. Len(Payloads[s]) \in Nat /\ Events(s) = 1 .. Len(Payloads[s])
  BY <1>1, LenProperties DEF Events
<1>3. \A n \in Events(s) : n \in Nat /\ Commit("event", s, n) \in Commits
  BY <1>2, CommitKinds
<1>4. Rows(s) \in Seq(Commits)
  BY <1>2, <1>3 DEF Rows
<1>5. Range(Rows(s)) = EventsOf(s)
  BY DEF Range, Rows, EventsOf
<1> QED BY <1>3, <1>4, <1>5

LEMMA OneCommit ==
    ASSUME NEW c \in Commits
    PROVE  /\ <<c>> \in Seq(Commits) /\ Range(<<c>>) = {c} /\ <<>> \in Seq(Commits)
           /\ Range(<<>>) = {}
<1>1. DOMAIN <<c>> = {1} /\ <<c>>[1] = c
  OBVIOUS
<1> QED BY <1>1, EmptySeq DEF Range

(* Commits done to one signature only.                                     *)
LEMMA MadeStored ==
    ASSUME NEW C, C \subseteq Commits, NEW s \in Signatures
    PROVE  /\ \A do : s \in Made(C, do) <=> \E c \in C : c.do = do /\ c.sig = s
           /\ Stored(C, s) \subseteq Events(s)
           /\ EventsOf(s) \subseteq C => Stored(C, s) = Events(s)
BY DEF Made, Stored, EventsOf

(* What a beginning of the handling of a notification can hold.            *)
LEMMA Handled ==
    ASSUME Shape, NEW k \in Inclusions, NEW s \in Signatures, s = Sig(k),
           NEW m \in 0 .. Len(Handling(k)), NEW C, C = Range(SubSeq(Handling(k), 1, m))
    PROVE  /\ C \subseteq Commits
           /\ \A c \in C : c.sig = s
           /\ \A c \in C : c.do = "gap" => pending # NONE
           /\ \A c \in C : c.do \notin {"gap", "observe"} =>
                 /\ observed[s] = NONE /\ Chain[k].ok
                 /\ s \in Made(C, "observe")
           /\ s \in Made(C, "deep") =>
                 EventsOf(s) \subseteq C /\ s \in Made(C, "confirm") /\ NewLaunch(s)
           /\ m = Len(Handling(k)) =>
                 /\ s \in Made(C, "observe")
                 /\ pending # NONE => s \in Made(C, "gap")
                 /\ observed[s] = NONE /\ Chain[k].ok =>
                       /\ EventsOf(s) \subseteq C
                       /\ (\E n \in Events(s) : event[s][n] = NONE) => s \in Made(C, "confirm")
                       /\ NewLaunch(s) => s \in Made(C, "deep")
           /\ m >= 1 /\ pending # NONE => s \in Made(C, "gap")
<1> DEFINE quiet == observed[s] # NONE \/ ~Chain[k].ok
           new   == \E n \in Events(s) : event[s][n] = NONE
<1>1. /\ \A do \in {"gap", "observe", "confirm", "deep"} : Commit(do, s, 0) \in Commits
      /\ Rows(s) \in Seq(Commits) /\ Range(Rows(s)) = EventsOf(s)
      /\ <<>> \in Seq(Commits) /\ Range(<<>>) = {}
      /\ \A c \in Commits : <<c>> \in Seq(Commits) /\ Range(<<c>>) = {c}
  <2>1. \A do \in {"gap", "observe", "confirm", "deep"} : Commit(do, s, 0) \in Commits
    BY CommitKinds
  <2>2. Commits # {}
    BY <2>1
  <2> QED BY <2>1, <2>2, RowsOf, OneCommit
<1>2. PICK a \in Seq(Commits) : a = IF pending = NONE THEN <<>> ELSE <<Commit("gap", s, 0)>>
  BY <1>1
<1>3. PICK b \in Seq(Commits) : b = <<Commit("observe", s, 0)>>
  BY <1>1
<1>4. PICK r \in Seq(Commits) : r = IF quiet THEN <<>> ELSE Rows(s)
  BY <1>1
<1>5. PICK f \in Seq(Commits) : f = IF ~quiet /\ new THEN <<Commit("confirm", s, 0)>> ELSE <<>>
  BY <1>1
<1>6. PICK d \in Seq(Commits) : d = IF ~quiet /\ NewLaunch(s) THEN <<Commit("deep", s, 0)>>
                                    ELSE <<>>
  BY <1>1
<1>7. /\ Range(a) = IF pending = NONE THEN {} ELSE {Commit("gap", s, 0)}
      /\ Range(b) = {Commit("observe", s, 0)}
      /\ Range(r) = IF quiet THEN {} ELSE EventsOf(s)
      /\ Range(f) = IF ~quiet /\ new THEN {Commit("confirm", s, 0)} ELSE {}
      /\ Range(d) = IF ~quiet /\ NewLaunch(s) THEN {Commit("deep", s, 0)} ELSE {}
  BY <1>1, <1>2, <1>3, <1>4, <1>5, <1>6
<1>8. PICK q : q = Handling(k)
  OBVIOUS
<1>9. q = (a \o b) \o ((r \o f) \o d)
  <2>1. CASE quiet
    <3>1. r = <<>> /\ f = <<>> /\ d = <<>>
      BY <2>1, <1>4, <1>5, <1>6
    <3>2. <<>> \o <<>> = <<>>
      OBVIOUS
    <3>3. (r \o f) \o d = <<>>
      BY <3>1, <3>2, SMTT(60)
    <3>4. q = (a \o b) \o <<>>
      BY <1>2, <1>3, <1>8, <2>1 DEF Handling
    <3> QED BY <3>3, <3>4
  <2>2. CASE ~quiet
    <3>1. r = Rows(s)
      BY <1>4, <2>2
    <3>2. f = IF new THEN <<Commit("confirm", s, 0)>> ELSE <<>>
      BY <1>5, <2>2
    <3>3. d = IF \E n \in Events(s) : event[s][n] = NONE /\ Payloads[s][n] = "launch"
              THEN <<Commit("deep", s, 0)>> ELSE <<>>
      BY <1>6, <2>2 DEF NewLaunch
    <3> QED BY <1>2, <1>3, <1>8, <2>2, <3>1, <3>2, <3>3 DEF Handling
  <2> QED BY <2>1, <2>2
<1>10. PICK g \in Seq(Commits) : g = Cat(a, b) /\ Range(g) = Range(a) \cup Range(b)
  BY Joined
<1>11. q = Cat(g, Cat(Cat(r, f), d))
  BY <1>9, <1>10 DEF Cat
<1>12. m \in 0 .. Len(q) /\ C = Upto(q, m) /\ (m = Len(Handling(k)) <=> m = Len(q))
  BY <1>8 DEF Upto
<1> HIDE DEF quiet, new
<1>13. /\ C \subseteq Range(g) \cup Range(r) \cup Range(f) \cup Range(d)
       /\ \A c \in C : c \notin Range(g) => Range(g) \subseteq C
       /\ \A c \in C : c \notin Range(g) \cup Range(r) => Range(r) \subseteq C
       /\ \A c \in C : c \notin Range(g) \cup Range(r) \cup Range(f) => Range(f) \subseteq C
       /\ m = Len(q) => C = Range(g) \cup Range(r) \cup Range(f) \cup Range(d)
  BY <1>11, <1>12, BeginningOrder, SMTT(60)
<1>15. \A c \in EventsOf(s) : c.do = "event" /\ c.sig = s /\ c \in Commits
  BY CommitKinds, RowsOf DEF EventsOf
<1>16. \A do \in {"gap", "observe", "confirm", "deep"} :
          Commit(do, s, 0).do = do /\ Commit(do, s, 0).sig = s
  BY CommitKinds
<1>17. C \subseteq Commits /\ \A c \in C : c.sig = s
  <2> DEFINE K == {c \in Commits : c.sig = s}
  <2>1. \A do \in {"gap", "observe", "confirm", "deep"} : Commit(do, s, 0) \in K
    BY <1>1, <1>16
  <2>2. EventsOf(s) \subseteq K
    BY <1>15
  <2> HIDE DEF K
  <2>3. Range(a) \cup Range(b) \subseteq K
    BY <1>7, <2>1
  <2>4. Range(r) \subseteq K
    BY <1>7, <2>2
  <2>5. Range(f) \cup Range(d) \subseteq K
    BY <1>7, <2>1
  <2>6. C \subseteq K
    BY <1>10, <1>13, <2>3, <2>4, <2>5
  <2> QED BY <2>6 DEF K
<1>18. \A do : s \in Made(C, do) <=> \E c \in C : c.do = do
  BY <1>17 DEF Made
<1>19. \A c \in C : c.do = "gap" => pending # NONE
  BY <1>7, <1>10, <1>13, <1>15, <1>16
<1>20. ASSUME NEW c \in C, c.do \notin {"gap", "observe"}
       PROVE  ~quiet /\ Commit("observe", s, 0) \in C
  <2>1. c \notin Range(g)
    BY <1>7, <1>10, <1>16, <1>20
  <2> QED BY <1>7, <1>10, <1>13, <2>1
<1>21. ASSUME NEW c \in C, c.do = "deep"
       PROVE  EventsOf(s) \subseteq C /\ Commit("confirm", s, 0) \in C /\ NewLaunch(s)
  <2>1. ~quiet /\ c \notin Range(g) \cup Range(r) \cup Range(f)
    BY <1>7, <1>10, <1>15, <1>16, <1>20, <1>21
  <2>2. NewLaunch(s) /\ new
    <3>1. NewLaunch(s)
      BY <1>7, <1>13, <2>1
    <3> QED BY <3>1 DEF NewLaunch, new
  <2> QED BY <1>7, <1>13, <2>1, <2>2
<1>22. ASSUME m = Len(q)
       PROVE  /\ Commit("observe", s, 0) \in C
              /\ pending # NONE => Commit("gap", s, 0) \in C
              /\ ~quiet => /\ EventsOf(s) \subseteq C
                           /\ new => Commit("confirm", s, 0) \in C
                           /\ NewLaunch(s) => Commit("deep", s, 0) \in C
  BY <1>7, <1>10, <1>13, <1>22
<1>23. s \in Made(C, "deep") =>
          EventsOf(s) \subseteq C /\ s \in Made(C, "confirm") /\ NewLaunch(s)
  BY <1>16, <1>18, <1>21
<1>24. \A c \in C : c.do \notin {"gap", "observe"} =>
           observed[s] = NONE /\ Chain[k].ok /\ s \in Made(C, "observe")
  BY <1>16, <1>18, <1>20 DEF quiet
<1>25. m = Len(Handling(k)) =>
                 /\ s \in Made(C, "observe")
                 /\ pending # NONE => s \in Made(C, "gap")
                 /\ observed[s] = NONE /\ Chain[k].ok =>
                       /\ EventsOf(s) \subseteq C
                       /\ (\E n \in Events(s) : event[s][n] = NONE) => s \in Made(C, "confirm")
                       /\ NewLaunch(s) => s \in Made(C, "deep")
  BY <1>12, <1>16, <1>18, <1>22 DEF quiet, new
<1>26. ASSUME m >= 1, pending # NONE PROVE s \in Made(C, "gap")
  <2>1. PICK x \in Seq(Commits) : x = Cat(Cat(r, f), d)
    BY FourParts
  <2>2. PICK y \in Seq(Commits) : y = Cat(b, x)
    BY Joined
  <2>3. q = Cat(a, y)
    BY <1>10, <1>11, <2>1, <2>2, Regroup
  <2>4. \A c \in C : c \notin Range(a) => Range(a) \subseteq C
    BY <1>12, <2>3, BeginningOfConcat
  <2>5. q \in Seq(Commits)
    BY <2>3, Joined
  <2>6. C = {q[i] : i \in 1 .. m}
    BY <1>12, <2>5, BeginningRange
  <2>7. q[1] \in C
    BY <1>12, <1>26, <2>6
  <2>8. Range(a) = {Commit("gap", s, 0)}
    BY <1>7, <1>26
  <2>9. Commit("gap", s, 0) \in C
    BY <2>4, <2>7, <2>8
  <2> QED BY <1>16, <1>18, <2>9
<1> QED BY <1>17, <1>19, <1>23, <1>24, <1>25, <1>26

(* What a beginning of the commits for a recovered transaction can hold.   *)
LEMMA RecoveredInOrder ==
    ASSUME NEW s \in Signatures, NEW m \in 0 .. Len(Recovery(s)),
           NEW C, C = Range(SubSeq(Recovery(s), 1, m))
    PROVE  /\ C \subseteq Commits
           /\ \A c \in C : c.sig = s /\ c.do \in {"event", "confirmed", "deep"}
           /\ \A c \in C : c.do # "event" => EventsOf(s) \subseteq C
           /\ \A c \in C : c.do = "deep" => NewLaunch(s) /\ s \in Made(C, "confirmed")
           /\ m = Len(Recovery(s)) =>
                 /\ C = Range(Recovery(s))
                 /\ EventsOf(s) \subseteq C
                 /\ s \in Made(C, "confirmed")
                 /\ NewLaunch(s) => s \in Made(C, "deep")
<1>1. /\ \A do \in {"confirmed", "deep"} : Commit(do, s, 0) \in Commits
      /\ Rows(s) \in Seq(Commits) /\ Range(Rows(s)) = EventsOf(s)
      /\ <<>> \in Seq(Commits) /\ Range(<<>>) = {}
      /\ \A c \in Commits : <<c>> \in Seq(Commits) /\ Range(<<c>>) = {c}
  <2>1. \A do \in {"confirmed", "deep"} : Commit(do, s, 0) \in Commits
    BY CommitKinds
  <2>2. Commits # {}
    BY <2>1
  <2> QED BY <2>1, <2>2, RowsOf, OneCommit
<1>2. PICK g \in Seq(Commits) : g = <<>>
  BY <1>1
<1>3. PICK r \in Seq(Commits) : r = Rows(s)
  BY <1>1
<1>4. PICK f \in Seq(Commits) : f = <<Commit("confirmed", s, 0)>>
  BY <1>1
<1>5. PICK d \in Seq(Commits) : d = IF NewLaunch(s) THEN <<Commit("deep", s, 0)>> ELSE <<>>
  BY <1>1
<1>6. /\ Range(g) = {} /\ Range(r) = EventsOf(s) /\ Range(f) = {Commit("confirmed", s, 0)}
      /\ Range(d) = IF NewLaunch(s) THEN {Commit("deep", s, 0)} ELSE {}
  BY <1>1, <1>2, <1>3, <1>4, <1>5
<1>7. PICK q : q = Recovery(s)
  OBVIOUS
<1>8. q = (r \o f) \o d
  BY <1>3, <1>4, <1>5, <1>7 DEF Recovery, NewLaunch
<1>9. PICK u \in Seq(Commits) : u = (r \o f) \o d
  <2>1. PICK w \in Seq(Commits) : w = Cat(r, f)
    BY Joined
  <2>2. Cat(w, d) \in Seq(Commits)
    BY Joined
  <2> QED BY <2>1, <2>2 DEF Cat
<1>10. q = g \o u /\ q \in Seq(Commits)
  BY <1>2, <1>8, <1>9
<1>11. q = Cat(g, Cat(Cat(r, f), d))
  BY <1>9, <1>10 DEF Cat
<1>12. m \in 0 .. Len(q) /\ C = Upto(q, m) /\ (m = Len(Recovery(s)) <=> m = Len(q))
  BY <1>7 DEF Upto
<1>13. /\ C \subseteq Range(g) \cup Range(r) \cup Range(f) \cup Range(d)
       /\ \A c \in C : c \notin Range(g) => Range(g) \subseteq C
       /\ \A c \in C : c \notin Range(g) \cup Range(r) => Range(r) \subseteq C
       /\ \A c \in C : c \notin Range(g) \cup Range(r) \cup Range(f) => Range(f) \subseteq C
       /\ m = Len(q) => C = Range(g) \cup Range(r) \cup Range(f) \cup Range(d)
  BY <1>11, <1>12, BeginningOrder, SMTT(60)
<1>14. m = Len(q) => C = Range(q) /\ C = Range(r) \cup Range(f) \cup Range(d)
  BY <1>6, <1>10, <1>12, <1>13, WholeRange
<1>15. \A c \in EventsOf(s) : c.do = "event" /\ c.sig = s /\ c \in Commits
  BY CommitKinds, RowsOf DEF EventsOf
<1>16. \A do \in {"confirmed", "deep"} :
          Commit(do, s, 0).do = do /\ Commit(do, s, 0).sig = s
  BY CommitKinds
<1>17. /\ C \subseteq Commits
       /\ \A c \in C : c.sig = s /\ c.do \in {"event", "confirmed", "deep"}
  BY <1>1, <1>6, <1>13, <1>15, <1>16
<1>18. \A do : s \in Made(C, do) <=> \E c \in C : c.do = do
  BY <1>17 DEF Made
<1>19. \A c \in C : c.do # "event" => EventsOf(s) \subseteq C
  BY <1>6, <1>13, <1>15
<1>20. ASSUME NEW c \in C, c.do = "deep"
       PROVE  NewLaunch(s) /\ Commit("confirmed", s, 0) \in C
  <2>1. c \notin Range(g) \cup Range(r) \cup Range(f)
    BY <1>6, <1>15, <1>16, <1>20
  <2>2. NewLaunch(s)
    BY <1>6, <1>13, <2>1
  <2> QED BY <1>6, <1>13, <2>1, <2>2
<1>21. \A c \in C : c.do = "deep" => NewLaunch(s) /\ s \in Made(C, "confirmed")
  BY <1>16, <1>18, <1>20
<1>22. ASSUME m = Len(q)
       PROVE  /\ EventsOf(s) \subseteq C
              /\ Commit("confirmed", s, 0) \in C
              /\ NewLaunch(s) => Commit("deep", s, 0) \in C
  BY <1>6, <1>14, <1>22
<1>23. m = Len(Recovery(s)) =>
                 /\ C = Range(Recovery(s))
                 /\ EventsOf(s) \subseteq C
                 /\ s \in Made(C, "confirmed")
                 /\ NewLaunch(s) => s \in Made(C, "deep")
  BY <1>7, <1>12, <1>14, <1>16, <1>18, <1>22
<1> QED BY <1>17, <1>19, <1>21, <1>23

(* What the commits for transactions of a block are: each belongs to one   *)
(* of the transactions K, its rows come before its confirmation, and that  *)
(* before the queued launch.                                               *)
BlockOf(C, K) ==
    /\ C \subseteq Commits
    /\ \A c \in C : \E k \in K : c.sig = Sig(k)
    /\ \A s \in Signatures :
          /\ s \in Made(C, "confirmed") => EventsOf(s) \subseteq C
          /\ s \in Made(C, "deep") => NewLaunch(s) /\ s \in Made(C, "confirmed")

(* All that there is to store of the transactions K.                       *)
AllOf(C, K) ==
    \A k \in K : /\ EventsOf(Sig(k)) \subseteq C /\ Sig(k) \in Made(C, "confirmed")
                 /\ NewLaunch(Sig(k)) => Sig(k) \in Made(C, "deep")

LEMMA SigOf == ASSUME NEW k \in Inclusions
               PROVE /\ Sig(k) \in Signatures /\ Slot(k) \in Nat /\ Slot(k) \in Slots
                     /\ k \in Nat /\ Chain[k].lives \in BOOLEAN /\ Chain[k].ok \in BOOLEAN
<1>1. Chain[k] \in [sig : Signatures, slot : Nat, lives : BOOLEAN, ok : BOOLEAN]
  BY ChainAssumption, ElementOfSeq DEF Inclusions
<1>2. Len(Chain) \in Nat
  BY ChainAssumption, LenProperties
<1> QED BY <1>1, <1>2 DEF Sig, Slot, Slots, Inclusions

(* Joining the commits of two groups keeps them well ordered.              *)
LEMMA MadeUnion ==
    ASSUME NEW C, NEW D, NEW do PROVE Made(C \cup D, do) = Made(C, do) \cup Made(D, do)
BY DEF Made

LEMMA BlockUnion ==
    ASSUME NEW C, NEW D, NEW K, NEW L, BlockOf(C, K), BlockOf(D, L)
    PROVE  BlockOf(C \cup D, K \cup L)
BY MadeUnion DEF BlockOf

LEMMA RecoveredBlock ==
    ASSUME NEW K, K \subseteq Inclusions
    PROVE  BlockOf(Recovered(K), K) /\ AllOf(Recovered(K), K)
<1> DEFINE C == Recovered(K)
           R(k) == Range(Recovery(Sig(k)))
<1>1. ASSUME NEW k \in K
      PROVE  /\ R(k) \subseteq Commits
             /\ \A c \in R(k) : c.sig = Sig(k)
             /\ \A c \in R(k) : c.do = "deep" =>
                   NewLaunch(Sig(k)) /\ Sig(k) \in Made(R(k), "confirmed")
             /\ EventsOf(Sig(k)) \subseteq R(k)
             /\ Sig(k) \in Made(R(k), "confirmed")
             /\ NewLaunch(Sig(k)) => Sig(k) \in Made(R(k), "deep")
  <2>1. PICK s \in Signatures : s = Sig(k)
    BY SigOf
  <2>2. PICK q : q = Recovery(s)
    OBVIOUS
  <2>3. PICK m : m = Len(q)
    OBVIOUS
  <2>4. m \in 0 .. Len(Recovery(s))
    <3>1. Rows(s) \in Seq(Commits)
      BY RowsOf
    <3>2. Commit("confirmed", s, 0) \in Commits /\ Commit("deep", s, 0) \in Commits
      BY CommitKinds
    <3>3. q \in Seq(Commits)
      BY <2>2, <3>1, <3>2 DEF Recovery
    <3>4. Len(q) \in Nat
      BY <3>3, LenProperties
    <3> QED BY <2>2, <2>3, <3>4
  <2>5. PICK D : D = Range(SubSeq(Recovery(s), 1, m))
    OBVIOUS
  <2>6. D = Range(Recovery(s)) /\ m = Len(Recovery(s))
    BY <2>2, <2>3, <2>4, <2>5, RecoveredInOrder
  <2>7. D = R(k)
    BY <2>1, <2>6
  <2> HIDE DEF R
  <2> QED BY <2>1, <2>4, <2>5, <2>6, <2>7, RecoveredInOrder
<1>2. C = UNION {R(k) : k \in K}
  BY DEF Recovered
<1> HIDE DEF R, C
<1>3. C \subseteq Commits /\ \A c \in C : \E k \in K : c \in R(k) /\ c.sig = Sig(k)
  BY <1>1, <1>2
<1>4. \A k \in K : \A do : Sig(k) \in Made(R(k), do) => Sig(k) \in Made(C, do)
  BY <1>2 DEF Made
<1>5. AllOf(C, K)
  <2>1. \A k \in K : EventsOf(Sig(k)) \subseteq C
    BY <1>1, <1>2
  <2> QED BY <1>1, <1>4, <2>1 DEF AllOf
<1>6. ASSUME NEW s \in Signatures
      PROVE  /\ s \in Made(C, "confirmed") => EventsOf(s) \subseteq C
             /\ s \in Made(C, "deep") => NewLaunch(s) /\ s \in Made(C, "confirmed")
  <2>1. \A do : s \in Made(C, do) => \E k \in K : s = Sig(k) /\ \E c \in R(k) : c.do = do
    BY <1>3 DEF Made
  <2>2. s \in Made(C, "confirmed") => EventsOf(s) \subseteq C
    BY <1>1, <1>2, <2>1
  <2>3. s \in Made(C, "deep") => NewLaunch(s) /\ s \in Made(C, "confirmed")
    BY <1>1, <1>4, <2>1
  <2> QED BY <2>2, <2>3
<1>7. BlockOf(C, K)
  BY <1>3, <1>6 DEF BlockOf
<1> QED BY <1>5, <1>7 DEF C

LEMMA PartOfBlock ==
    ASSUME NEW K, K \subseteq Inclusions, NEW k \in Inclusions,
           NEW m \in 0 .. Len(Recovery(Sig(k))) - 1,
           NEW C, C = Recovered(K) \cup Range(SubSeq(Recovery(Sig(k)), 1, m))
    PROVE  BlockOf(C, K \cup {k})
<1>1. PICK s \in Signatures : s = Sig(k)
  BY SigOf
<1>2. m \in 0 .. Len(Recovery(s))
  <2>1. PICK q : q = Recovery(s)
    OBVIOUS
  <2>2. Rows(s) \in Seq(Commits)
    BY RowsOf
  <2>3. Commit("confirmed", s, 0) \in Commits /\ Commit("deep", s, 0) \in Commits
    BY CommitKinds
  <2>4. q \in Seq(Commits)
    BY <2>1, <2>2, <2>3 DEF Recovery
  <2>5. Len(q) \in Nat
    BY <2>4, LenProperties
  <2>6. m \in 0 .. Len(q) - 1
    BY <1>1, <2>1
  <2> QED BY <2>1, <2>5, <2>6
<1>3. PICK D : D = Range(SubSeq(Recovery(s), 1, m))
  OBVIOUS
<1>4. /\ D \subseteq Commits
      /\ \A c \in D : c.sig = s /\ c.do \in {"event", "confirmed", "deep"}
      /\ \A c \in D : c.do # "event" => EventsOf(s) \subseteq D
      /\ \A c \in D : c.do = "deep" => NewLaunch(s) /\ s \in Made(D, "confirmed")
  BY <1>2, <1>3, RecoveredInOrder
<1>5. ASSUME NEW t \in Signatures
      PROVE  /\ t \in Made(D, "confirmed") => EventsOf(t) \subseteq D
             /\ t \in Made(D, "deep") => NewLaunch(t) /\ t \in Made(D, "confirmed")
  BY <1>4 DEF Made
<1>6. BlockOf(D, {k})
  <2>1. \A c \in D : \E j \in {k} : c.sig = Sig(j)
    BY <1>1, <1>4
  <2> QED BY <1>4, <1>5, <2>1 DEF BlockOf
<1>7. BlockOf(Recovered(K), K)
  BY RecoveredBlock
<1>8. C = Recovered(K) \cup D
  BY <1>1, <1>3
<1> QED BY <1>6, <1>7, <1>8, BlockUnion

(* A transaction that lives and executed is confirmed, wherever it stands. *)
LEMMA FateOf ==
    ASSUME NEW k \in Inclusions, Counts(k)
    PROVE  Fate(Sig(k)) = "confirmed"
BY ChainAssumption DEF Counts, Fate, Lives

LEMMA FateKinds == \A s : Fate(s) \in {"confirmed", "failed"} /\ Fate(s) # NONE
BY NoneAssumption, ChainAssumption, SigOf DEF Fate
-----------------------------------------------------------------------------
(* What a step leaves as it was.                                           *)
RowsKept == \A s \in Signatures : \A n \in Events(s) : event[s][n] # NONE => event'[s][n] # NONE

GapsKept ==
    /\ DOMAIN gaps' = DOMAIN gaps
    /\ \A i \in DOMAIN gaps :
          /\ gaps'[i].before = gaps[i].before /\ gaps'[i].after = gaps[i].after
          /\ gaps[i].status \in Waits => gaps'[i].status \in Waits

LEMMA CompleteKept ==
    ASSUME RowsKept, NEW s \in Signatures, Complete(s) PROVE Complete(s)'
BY DEF RowsKept, Complete

LEMMA MissedKnown == ASSUME Shape, NEW k \in missed
                     PROVE k \in Inclusions /\ k \in Nat /\ k <= head /\ Sig(k) \in Signatures
<1>1. Len(Chain) \in Nat
  BY ChainAssumption, LenProperties
<1>2. k \in 1 .. head /\ head \in 0 .. Len(Chain)
  BY DEF Shape
<1>3. k \in Inclusions
  BY <1>1, <1>2 DEF Inclusions
<1> QED BY <1>1, <1>2, <1>3, SigOf

LEMMA InRange ==
    ASSUME NEW k, NEW G
    PROVE  /\ Recorded(k, G) <=> \E i \in DOMAIN G : Between(k, G[i])
           /\ Outside(k, G) <=> \E i \in DOMAIN G :
                 \/ G[i].before = NONE /\ Slot(k) <= G[i].after
                 \/ Slot(k) \in {G[i].before, G[i].after}
BY DEF Recorded, Outside, Range

LEMMA CoveredKept ==
    ASSUME Shape, Covered, RowsKept, GapsKept, pending' = pending, missed' = missed,
           abandoned \subseteq abandoned', overlooked \subseteq overlooked'
    PROVE  Covered'
<1> SUFFICES ASSUME NEW k \in missed, Counts(k)
             PROVE  \/ Complete(Sig(k))' \/ Excused(k)'
                    \/ Recorded(k, gaps') /\ OpenFor(k)'
                    \/ ~Recorded(k, gaps') /\ Expected(k)'
  BY DEF Covered, Counts
<1>1. Sig(k) \in Signatures
  BY MissedKnown
<1>2. \A i \in DOMAIN gaps : Between(k, gaps'[i]) <=> Between(k, gaps[i])
  BY DEF GapsKept, Between
<1>3. /\ Recorded(k, gaps') <=> Recorded(k, gaps)
      /\ Outside(k, gaps') <=> Outside(k, gaps)
  BY <1>2, InRange DEF GapsKept
<1>4. OpenFor(k) => OpenFor(k)'
  BY <1>2 DEF OpenFor, GapsKept
<1>5. Expected(k) => Expected(k)'
  BY DEF Expected
<1>6. Excused(k) => Excused(k)'
  BY <1>3 DEF Excused
<1>7. Complete(Sig(k)) => Complete(Sig(k))'
  BY <1>1, CompleteKept
<1> QED BY <1>3, <1>4, <1>5, <1>6, <1>7 DEF Covered

LEMMA ReadKept ==
    ASSUME Shape, ReadSoFar, RowsKept, overlooked \subseteq overlooked',
           \/ reading' = NONE
           \/ /\ reading' = reading
              /\ \A i \in DOMAIN gaps : gaps'[i].before = gaps[i].before
                                        /\ gaps'[i].after = gaps[i].after
    PROVE  ReadSoFar'
<1> SUFFICES ASSUME reading' # NONE, NEW k \in Inclusions, Counts(k),
                    Between(k, gaps'[reading'.job])
             PROVE  Complete(Sig(k))' \/ Slot(k) \in reading'.slots \/ Slot(k) \in overlooked'
  BY DEF ReadSoFar, Counts, Between
<1>1. reading' = reading /\ reading # NONE
  OBVIOUS
<1>2. reading.job \in DOMAIN gaps
  BY <1>1 DEF Shape, Reads
<1>3. Between(k, gaps[reading.job])
  BY <1>1, <1>2 DEF Between
<1>4. Sig(k) \in Signatures
  BY SigOf
<1>5. Complete(Sig(k)) \/ Slot(k) \in reading.slots \/ Slot(k) \in overlooked
  BY <1>1, <1>3 DEF ReadSoFar
<1> QED BY <1>1, <1>4, <1>5, CompleteKept

LEMMA OrderKept ==
    ASSUME Order, GapsKept, UNCHANGED <<head, tip, stage, next, missed, last, pending>>
    PROVE  Order'
BY DEF Order, GapsKept, Unseen, Listening

(* A job that is recorded now: what lies strictly inside is still to read. *)
LEMMA NewJob ==
    ASSUME Shape, pending # NONE, NEW k \in Inclusions,
           NEW g, g = GapJob(pending.before, Slot(k))
    PROVE  /\ g \in GapJobs /\ g.before = pending.before /\ g.after = Slot(k)
           /\ g.status # "IN_PROGRESS"
           /\ \A j \in Inclusions : Between(j, g) => g.status \in Waits
<1>1. pending.before \in Slots \cup {NONE}
  BY DEF Shape
<1>2. Slot(k) \in Slots /\ Slot(k) \in Nat
  BY SigOf
<1>3. /\ g.before = pending.before /\ g.after = Slot(k)
      /\ g.status = IF Interior(pending.before, Slot(k)) = {} THEN "DONE" ELSE "PENDING"
  BY DEF GapJob
<1>4. g \in GapJobs /\ g.status # "IN_PROGRESS"
  BY <1>1, <1>2 DEF GapJob, GapJobs, JobStatus, Waits
<1>5. ASSUME NEW j \in Inclusions, Between(j, g) PROVE g.status \in Waits
  <2>1. pending.before # NONE /\ pending.before < Slot(j) /\ Slot(j) < Slot(k)
    BY <1>3, <1>5 DEF Between
  <2>2. Slot(j) \in Nat /\ pending.before \in Nat
    BY <1>1, <2>1, SigOf DEF Slots
  <2>3. Slot(j) \in Interior(pending.before, Slot(k))
    BY <1>2, <2>1, <2>2 DEF Interior
  <2> QED BY <1>3, <2>3 DEF Waits
<1> QED BY <1>3, <1>4, <1>5

LEMMA Appended ==
    ASSUME Shape, NEW g \in GapJobs, NEW G, G = Append(gaps, g)
    PROVE  /\ G \in Seq(GapJobs) /\ DOMAIN G = DOMAIN gaps \cup {Len(gaps) + 1}
           /\ Len(gaps) + 1 \notin DOMAIN gaps
           /\ \A i \in DOMAIN gaps : G[i] = gaps[i]
           /\ G[Len(gaps) + 1] = g
<1>1. gaps \in Seq(GapJobs)
  BY DEF Shape
<1>2. Len(gaps) \in Nat /\ DOMAIN gaps = 1 .. Len(gaps)
  BY <1>1, LenProperties
<1>3. /\ G \in Seq(GapJobs) /\ Len(G) = Len(gaps) + 1
      /\ \A i \in 1 .. Len(gaps) : G[i] = gaps[i]
      /\ G[Len(gaps) + 1] = g
  BY <1>1, AppendProperties
<1>4. DOMAIN G = 1 .. Len(gaps) + 1
  BY <1>3, LenProperties
<1> QED BY <1>2, <1>3, <1>4

(* The gap that was pending is recorded, or the jobs stay as they are.     *)
GapsGrow ==
    \/ gaps' = gaps
    \/ /\ stage = "subscribed" /\ next <= head /\ pending # NONE
       /\ gaps' = Append(gaps, GapJob(pending.before, Slot(next)))

LEMMA NextKnown ==
    ASSUME Shape, next <= head PROVE next \in Inclusions /\ next \in Nat
<1>1. Len(Chain) \in Nat
  BY ChainAssumption, LenProperties
<1> QED BY <1>1 DEF Shape, Inclusions

(* After such a step a job is an old one, or one for the pending gap.      *)
LEMMA Grown ==
    ASSUME Shape, GapsGrow
    PROVE  /\ gaps' \in Seq(GapJobs)
           /\ \A i \in DOMAIN gaps : i \in DOMAIN gaps' /\ gaps'[i] = gaps[i]
           /\ \A i \in DOMAIN gaps' : i \in DOMAIN gaps \/
                 /\ stage = "subscribed" /\ next <= head /\ pending # NONE
                 /\ next \in Inclusions /\ i = Len(gaps) + 1
                 /\ gaps'[i].before = pending.before /\ gaps'[i].after = Slot(next)
                 /\ gaps'[i].status # "IN_PROGRESS"
                 /\ \A j \in Inclusions : Between(j, gaps'[i]) => gaps'[i].status \in Waits
<1>1. CASE gaps' = gaps
  BY <1>1 DEF Shape
<1>2. CASE gaps' # gaps
  <2>1. /\ stage = "subscribed" /\ next <= head /\ pending # NONE /\ next \in Inclusions
        /\ gaps' = Append(gaps, GapJob(pending.before, Slot(next)))
    BY <1>2, NextKnown DEF GapsGrow
  <2>2. PICK g : g = GapJob(pending.before, Slot(next))
    OBVIOUS
  <2>3. /\ g \in GapJobs /\ g.before = pending.before /\ g.after = Slot(next)
        /\ g.status # "IN_PROGRESS"
        /\ \A j \in Inclusions : Between(j, g) => g.status \in Waits
    BY <2>1, <2>2, NewJob
  <2>4. PICK G : G = gaps'
    OBVIOUS
  <2>5. G = Append(gaps, g)
    BY <2>1, <2>2, <2>4
  <2>6. /\ G \in Seq(GapJobs) /\ DOMAIN G = DOMAIN gaps \cup {Len(gaps) + 1}
        /\ \A i \in DOMAIN gaps : G[i] = gaps[i]
        /\ G[Len(gaps) + 1] = g
    BY <2>3, <2>5, Appended
  <2> QED BY <2>1, <2>3, <2>4, <2>6
<1> QED BY <1>1, <1>2

LEMMA CoveredEnds ==
    ASSUME Shape, Order, Covered, RowsKept, GapsGrow, NEW to, Ends(to, gaps'),
           overlooked \subseteq overlooked'
    PROVE  Covered'
<1>1. /\ missed' = missed \cup (IF stage = "subscribed" THEN next .. head ELSE {})
      /\ abandoned' = abandoned \cup {k \in missed' : ~Recorded(k, gaps')}
  BY DEF Ends
<1> SUFFICES ASSUME NEW k \in missed', Counts(k)
             PROVE  \/ Complete(Sig(k))' \/ Excused(k)'
                    \/ Recorded(k, gaps') /\ OpenFor(k)'
  BY DEF Covered, Counts
<1>2. CASE ~Recorded(k, gaps')
  BY <1>1, <1>2 DEF Excused
<1>3. ASSUME Recorded(k, gaps'), NEW i \in DOMAIN gaps', Between(k, gaps'[i]), i \notin DOMAIN gaps
      PROVE  OpenFor(k)'
  <2>1. k \in Inclusions
    <3>1. Len(Chain) \in Nat
      BY ChainAssumption, LenProperties
    <3>2. k \in missed \/ k \in next .. head
      BY <1>1
    <3>3. k \in next .. head => k \in Inclusions
      BY <3>1 DEF Shape, Inclusions
    <3> QED BY <3>2, <3>3, MissedKnown
  <2> QED BY <1>3, <2>1, Grown DEF OpenFor
<1>4. ASSUME Recorded(k, gaps'), NEW i \in DOMAIN gaps, Between(k, gaps'[i])
      PROVE  \/ Complete(Sig(k))' \/ Excused(k)' \/ OpenFor(k)'
  <2>1. i \in DOMAIN gaps' /\ gaps'[i] = gaps[i]
    BY Grown
  <2>2. Between(k, gaps[i])
    BY <1>4, <2>1
  <2>3. Recorded(k, gaps)
    BY <2>2, InRange
  <2>4. k \in missed
    <3>1. SUFFICES ASSUME k \notin missed PROVE FALSE
      OBVIOUS
    <3>2. stage = "subscribed" /\ k \in next .. head
      BY <1>1, <3>1
    <3>3. k \in Inclusions /\ next \in Nat
      <4>1. Len(Chain) \in Nat
        BY ChainAssumption, LenProperties
      <4> QED BY <3>2, <4>1 DEF Shape, Inclusions
    <3>4. Unseen(k)
      BY <3>2, <3>3 DEF Unseen
    <3>5. gaps[i].after <= Slot(k)
      BY <3>3, <3>4 DEF Order
    <3>6. Slot(k) < gaps[i].after
      BY <2>2 DEF Between
    <3>7. Slot(k) \in Nat /\ gaps[i].after \in Nat
      <4>1. gaps[i] \in GapJobs
        BY ElementOfSeq, LenProperties DEF Shape
      <4>2. gaps[i].after \in Slots
        BY <4>1 DEF GapJobs
      <4> QED BY <3>3, <4>2, SigOf DEF Slots
    <3> QED BY <3>5, <3>6, <3>7
  <2>5. Complete(Sig(k)) \/ Excused(k) \/ OpenFor(k)
    BY <2>3, <2>4 DEF Covered
  <2>6. Complete(Sig(k)) => Complete(Sig(k))'
    BY <2>4, MissedKnown, CompleteKept
  <2>7. OpenFor(k) => OpenFor(k)'
    BY Grown DEF OpenFor
  <2>8. Outside(k, gaps) => Outside(k, gaps')
    BY Grown, InRange
  <2>9. Excused(k) => Excused(k)'
    BY <1>1, <2>8 DEF Excused
  <2> QED BY <2>5, <2>6, <2>7, <2>9
<1>5. Recorded(k, gaps') => \E i \in DOMAIN gaps' : Between(k, gaps'[i])
  BY InRange
<1> QED BY <1>2, <1>3, <1>4, <1>5

LEMMA OrderEnds ==
    ASSUME Shape, Order, GapsGrow, NEW to, Ends(to, gaps'), to # "subscribed",
           head' = head, tip' = tip
    PROVE  Order'
<1>1. /\ missed' = missed \cup (IF stage = "subscribed" THEN next .. head ELSE {})
      /\ stage' = to /\ last' = NONE /\ pending' = NONE
  BY DEF Ends
<1>2. ASSUME NEW k \in Inclusions, Unseen(k)'
      PROVE  k \notin missed' /\ \A i \in DOMAIN gaps' : gaps'[i].after <= Slot(k)
  <2>1. k > head /\ k \in Nat
    BY <1>1, <1>2, SigOf DEF Unseen
  <2>2. k \notin missed'
    <3>1. k \notin missed
      BY <2>1 DEF Order, Unseen
    <3>2. k \notin next .. head
      BY <2>1 DEF Shape
    <3> QED BY <1>1, <3>1, <3>2
  <2>3. ASSUME NEW i \in DOMAIN gaps' PROVE gaps'[i].after <= Slot(k)
    <3>1. CASE i \in DOMAIN gaps
      <4>1. gaps[i].after <= Slot(k)
        BY <2>1, <3>1 DEF Order, Unseen
      <4> QED BY <3>1, <4>1, Grown
    <3>2. CASE i \notin DOMAIN gaps
      <4>1. gaps'[i].after = Slot(next) /\ next \in Inclusions /\ next <= head
        BY <3>2, Grown
      <4>2. next < k
        BY <2>1, <4>1, SigOf DEF Shape
      <4>3. Slot(next) <= Slot(k)
        BY <4>1, <4>2, ChainAssumption
      <4> QED BY <4>1, <4>3
    <3> QED BY <3>1, <3>2
  <2> QED BY <2>2, <2>3
<1>3. \A j, k \in Inclusions : j <= tip' /\ tip' < k => Slot(j) < Slot(k)
  BY DEF Order
<1>4. pending' # NONE => Listening'
  BY <1>1
<1>5. \A k \in Inclusions : Unseen(k)' =>
         /\ k \notin missed'
         /\ last' # NONE => last' <= Slot(k)
         /\ pending' # NONE /\ pending'.before # NONE => pending'.before <= Slot(k)
         /\ \A i \in DOMAIN gaps' : gaps'[i].after <= Slot(k)
  BY <1>1, <1>2
<1> QED BY <1>3, <1>4, <1>5 DEF Order

-----------------------------------------------------------------------------
(* What a step may do to the jobs when it leaves the rows alone.           *)
JobsOnly ==
    /\ UNCHANGED <<observed, event, enriched>>
    /\ cut \subseteq cut' /\ premature \subseteq premature'
    /\ \A s \in Signatures :
          /\ confirm'[s] # NONE => confirm[s] # NONE
          /\ confirm[s] \in Waits => confirm'[s] \in Waits
          /\ deep'[s] # NONE <=> deep[s] # NONE
          /\ deep'[s] = "DONE" => deep[s] = "DONE"
          /\ fetching' = s => fetching = s \/ Settled(s)
    /\ tip' >= tip

LEMMA LandedKept ==
    ASSUME Shape, Shape', tip' >= tip, NEW s, Landed(s) PROVE Landed(s)'
<1>1. PICK k \in Lives(s) : k <= tip
  BY DEF Landed
<1>2. k \in Nat
  BY SigOf DEF Lives
<1>3. tip \in Nat /\ tip' \in Nat
  BY DEF Shape
<1>4. k <= tip'
  BY <1>1, <1>2, <1>3
<1> QED BY <1>1, <1>4 DEF Landed, Lives

LEMMA JobsKept ==
    ASSUME Shape, Shape', Jobs, JobsOnly PROVE Jobs'
<1> SUFFICES ASSUME NEW s \in Signatures
             PROVE  /\ confirm'[s] # NONE => observed'[s] # NONE
                    /\ deep'[s] # NONE =>
                          /\ Complete(s)'
                          /\ \A n \in Events(s) :
                              event'[s][n] = "processed" => confirm'[s] \in Waits
                    /\ s \in premature' \/
                          \A n \in Events(s) : event'[s][n] \in {NONE, "processed", Fate(s)}
                    /\ fetching' = s => Settled(s)'
                    /\ s \in enriched' => deep'[s] # NONE /\ Settled(s)' /\ Landed(s)'
                    /\ deep'[s] = "DONE" => s \in enriched'
                    /\ s \notin cut' =>
                          /\ observed'[s] = "executed" => Complete(s)'
                          /\ \A n \in Events(s) :
                                /\ event'[s][n] = "processed" => confirm'[s] \in Waits
                                /\ event'[s][n] # NONE /\ Payloads[s][n] = "launch"
                                      => deep'[s] # NONE
  BY DEF Jobs, Fate, Lives
<1>1. event' = event /\ observed' = observed /\ enriched' = enriched
  BY DEF JobsOnly
<1>2. Complete(s)' <=> Complete(s)
  BY <1>1 DEF Complete
<1>3. Settled(s)' <=> Settled(s)
  BY <1>1 DEF Settled
<1>4. Landed(s) => Landed(s)'
  BY LandedKept DEF JobsOnly
<1> QED BY <1>1, <1>2, <1>3, <1>4 DEF Jobs, JobsOnly

(* The answer for the signatures S, of which F failed.                     *)
Ended(s, F) == IF s \in F THEN "failed" ELSE Fate(s)

LEMMA EndedKinds ==
    \A s, F : Ended(s, F) \in {"confirmed", "failed"} /\ Ended(s, F) # NONE
BY NoneAssumption, FateKinds DEF Ended

LEMMA SettledRows ==
    ASSUME Shape, NEW S, NEW F, Settle(S, F)
    PROVE  /\ RowsKept /\ DOMAIN event' = Signatures
           /\ \A s \in Signatures :
                 /\ event'[s] \in [Events(s) -> {"processed", "confirmed", "failed", NONE}]
                 /\ \A n \in Events(s) :
                       event'[s][n] = IF s \in S /\ event[s][n] # NONE THEN Ended(s, F)
                                      ELSE event[s][n]
                 /\ Complete(s)' => Complete(s)
<1>1. \A s \in Signatures : \A n \in Events(s) :
         event'[s][n] = IF s \in S /\ event[s][n] # NONE THEN Ended(s, F) ELSE event[s][n]
  BY DEF Settle, Ended
<1>2. DOMAIN event' = Signatures
  BY DEF Settle
<1>3. ASSUME NEW s \in Signatures
      PROVE  event'[s] \in [Events(s) -> {"processed", "confirmed", "failed", NONE}]
  <2>1. \A n \in Events(s) : event[s][n] \in {"processed", "confirmed", "failed", NONE}
    BY DEF Shape
  <2>2. event'[s] = [n \in Events(s) |->
                        IF s \in S /\ event[s][n] # NONE THEN Ended(s, F) ELSE event[s][n]]
    BY DEF Settle, Ended
  <2> QED BY <2>1, <2>2, EndedKinds
<1>4. RowsKept
  BY <1>1, EndedKinds DEF RowsKept
<1>5. \A s \in Signatures : Complete(s)' => Complete(s)
  BY <1>1 DEF Complete
<1> QED BY <1>1, <1>2, <1>3, <1>4, <1>5

LEMMA JobsSettled ==
    ASSUME Shape, Shape', Jobs, NEW S, NEW F, Settle(S, F),
           UNCHANGED <<observed, deep, enriched, cut, tip>>,
           fetching' \in {fetching, NONE},
           \A s \in Signatures :
              /\ confirm'[s] # NONE => confirm[s] # NONE
              /\ s \notin S => (confirm[s] \in Waits => confirm'[s] \in Waits)
    PROVE  Jobs'
<1> SUFFICES ASSUME NEW s \in Signatures
             PROVE  /\ confirm'[s] # NONE => observed'[s] # NONE
                    /\ deep'[s] # NONE =>
                          /\ Complete(s)'
                          /\ \A n \in Events(s) :
                              event'[s][n] = "processed" => confirm'[s] \in Waits
                    /\ s \in premature' \/
                          \A n \in Events(s) : event'[s][n] \in {NONE, "processed", Fate(s)}
                    /\ fetching' = s => Settled(s)'
                    /\ s \in enriched' => deep'[s] # NONE /\ Settled(s)' /\ Landed(s)'
                    /\ deep'[s] = "DONE" => s \in enriched'
                    /\ s \notin cut' =>
                          /\ observed'[s] = "executed" => Complete(s)'
                          /\ \A n \in Events(s) :
                                /\ event'[s][n] = "processed" => confirm'[s] \in Waits
                                /\ event'[s][n] # NONE /\ Payloads[s][n] = "launch"
                                      => deep'[s] # NONE
  BY DEF Jobs, Fate, Lives
<1>1. \A n \in Events(s) :
         event'[s][n] = IF s \in S /\ event[s][n] # NONE THEN Ended(s, F) ELSE event[s][n]
  BY SettledRows
<1>2. Complete(s) => Complete(s)'
  BY SettledRows, CompleteKept
<1>3. \A n \in Events(s) : event'[s][n] = "processed" =>
         s \notin S /\ event[s][n] = "processed"
  BY <1>1, EndedKinds, NoneAssumption
<1>4. Settled(s) => Settled(s)'
  BY <1>3 DEF Settled
<1>5. Landed(s)' <=> Landed(s)
  BY DEF Landed, Lives
<1>6. \A n \in Events(s) : event'[s][n] # NONE => event[s][n] # NONE
  BY <1>1
<1>7. s \in premature' \/ \A n \in Events(s) : event'[s][n] \in {NONE, "processed", Fate(s)}
  <2>1. premature' = premature \cup (S \cap F)
    BY DEF Settle
  <2> QED BY <1>1, <2>1 DEF Jobs, Ended
<1>8. fetching' = s => fetching = s
  BY NoneAssumption
<1> QED BY <1>2, <1>3, <1>4, <1>5, <1>6, <1>7, <1>8 DEF Jobs

(* Rows stored with a status: the ones there were stay.                    *)
LEMMA StoredRows ==
    ASSUME Shape, NEW C, NEW status, NEW rows, rows = WithRows(C, status)
    PROVE  /\ DOMAIN rows = Signatures
           /\ \A s \in Signatures :
                 /\ DOMAIN rows[s] = Events(s)
                 /\ \A n \in Events(s) :
                       rows[s][n] = IF event[s][n] = NONE /\ n \in Stored(C, s) THEN status
                                    ELSE event[s][n]
                 /\ status \in {"processed", "confirmed"} =>
                       rows[s] \in [Events(s) -> {"processed", "confirmed", "failed", NONE}]
<1>1. \A s \in Signatures : rows[s] = [n \in Events(s) |->
          IF event[s][n] = NONE /\ n \in Stored(C, s) THEN status ELSE event[s][n]]
  BY DEF WithRows
<1>2. DOMAIN rows = Signatures
  BY DEF WithRows
<1>3. \A s \in Signatures : \A n \in Events(s) :
         event[s][n] \in {"processed", "confirmed", "failed", NONE}
  BY DEF Shape
<1> QED BY <1>1, <1>2, <1>3

(* The jobs after a block, or part of one, is stored.                      *)
LEMMA BlockRows ==
    ASSUME Shape, NEW C, NEW K, K \subseteq Inclusions, \A k \in K : Counts(k),
           BlockOf(C, K), StoreBlock(C), NEW s \in Signatures
    PROVE  /\ DOMAIN event' = Signatures
           /\ event'[s] \in [Events(s) -> {"processed", "confirmed", "failed", NONE}]
           /\ \A n \in Events(s) :
                 /\ event[s][n] # NONE => event'[s][n] \in {event[s][n], Fate(s)}
                 /\ event[s][n] = NONE => event'[s][n] \in {NONE, Fate(s)}
                 /\ event[s][n] = NONE /\ event'[s][n] # NONE => n \in Stored(C, s)
                 /\ EventsOf(s) \subseteq C => event'[s][n] # NONE
                 /\ s \in Made(C, "confirmed") => event'[s][n] = Fate(s)
           /\ Fate(s) \in {"confirmed", "failed"} /\ Fate(s) # NONE
<1>1. PICK rows : rows = WithRows(C, "confirmed")
  OBVIOUS
<1>2. \A n \in Events(s) :
         rows[s][n] = IF event[s][n] = NONE /\ n \in Stored(C, s) THEN "confirmed"
                      ELSE event[s][n]
  BY <1>1, StoredRows
<1>3. rows[s] \in [Events(s) -> {"processed", "confirmed", "failed", NONE}]
  BY <1>1, StoredRows
<1>4. event' = [t \in Signatures |-> [n \in Events(t) |->
           IF t \in Made(C, "confirmed") /\ rows[t][n] # NONE THEN "confirmed" ELSE rows[t][n]]]
  BY <1>1 DEF StoreBlock
<1>5. \A n \in Events(s) :
         event'[s][n] = IF s \in Made(C, "confirmed") /\ rows[s][n] # NONE THEN "confirmed"
                        ELSE rows[s][n]
  BY <1>4
<1>6. DOMAIN event' = Signatures
  BY <1>4
<1>7. event'[s] \in [Events(s) -> {"processed", "confirmed", "failed", NONE}]
  <2>1. event'[s] = [n \in Events(s) |->
           IF s \in Made(C, "confirmed") /\ rows[s][n] # NONE THEN "confirmed" ELSE rows[s][n]]
    BY <1>4
  <2> QED BY <1>3, <2>1
<1>8. (\E c \in C : c.sig = s) => Fate(s) = "confirmed"
  <2>1. ASSUME NEW c \in C, c.sig = s PROVE Fate(s) = "confirmed"
    <3>1. PICK k \in K : s = Sig(k)
      BY <2>1 DEF BlockOf
    <3> QED BY <3>1, FateOf
  <2> QED BY <2>1
<1>9. s \in Made(C, "confirmed") => Fate(s) = "confirmed"
  BY <1>8 DEF Made
<1>10. \A n \in Stored(C, s) : Fate(s) = "confirmed"
  <2>1. \A n \in Stored(C, s) : n \in Events(s) /\ Commit("event", s, n) \in C
    BY DEF Stored
  <2>2. \A n : Commit("event", s, n).sig = s
    BY DEF Commit
  <2> QED BY <1>8, <2>1, <2>2
<1>11. "confirmed" # NONE /\ Fate(s) \in {"confirmed", "failed"} /\ Fate(s) # NONE
  BY NoneAssumption, FateKinds
<1>12. EventsOf(s) \subseteq C => \A n \in Events(s) : n \in Stored(C, s)
  BY DEF EventsOf, Stored
<1>13. s \in Made(C, "confirmed") => EventsOf(s) \subseteq C
  BY DEF BlockOf
<1>14. EventsOf(s) \subseteq C => \A n \in Events(s) : event'[s][n] # NONE /\ rows[s][n] # NONE
  BY <1>2, <1>5, <1>11, <1>12
<1>15. s \in Made(C, "confirmed") => \A n \in Events(s) : event'[s][n] = Fate(s)
  BY <1>5, <1>9, <1>13, <1>14
<1>16. ASSUME NEW n \in Events(s)
       PROVE  /\ event[s][n] # NONE => event'[s][n] \in {event[s][n], Fate(s)}
              /\ event[s][n] = NONE => event'[s][n] \in {NONE, Fate(s)}
              /\ event[s][n] = NONE /\ event'[s][n] # NONE => n \in Stored(C, s)
  <2>1. CASE event[s][n] # NONE
    BY <1>2, <1>5, <1>9, <2>1
  <2>2. CASE event[s][n] = NONE /\ n \in Stored(C, s)
    BY <1>2, <1>5, <1>10, <2>2
  <2>3. CASE event[s][n] = NONE /\ n \notin Stored(C, s)
    BY <1>2, <1>5, <2>3
  <2> QED BY <2>1, <2>2, <2>3
<1> QED BY <1>6, <1>7, <1>11, <1>14, <1>15, <1>16

LEMMA JobsStored ==
    ASSUME Shape, Shape', Jobs, NEW C, NEW K, K \subseteq Inclusions, \A k \in K : Counts(k),
           BlockOf(C, K), StoreBlock(C), fetching' \in {fetching, NONE}, cut \subseteq cut',
           \A s \in Signatures : \A n \in Stored(C, s) :
               s \notin cut' /\ event[s][n] = NONE /\ Payloads[s][n] = "launch"
                  => s \in Made(C, "deep")
    PROVE  Jobs' /\ RowsKept
<1>0. UNCHANGED <<head, tip, observed, enriched, confirm, report, overlooked, premature>>
  BY DEF StoreBlock
<1>1. RowsKept
  BY BlockRows DEF RowsKept
<1>2. SUFFICES ASSUME NEW s \in Signatures
             PROVE  /\ confirm'[s] # NONE => observed'[s] # NONE
                    /\ deep'[s] # NONE =>
                          /\ Complete(s)'
                          /\ \A n \in Events(s) :
                              event'[s][n] = "processed" => confirm'[s] \in Waits
                    /\ s \in premature' \/
                          \A n \in Events(s) : event'[s][n] \in {NONE, "processed", Fate(s)}
                    /\ fetching' = s => Settled(s)'
                    /\ s \in enriched' => deep'[s] # NONE /\ Settled(s)' /\ Landed(s)'
                    /\ deep'[s] = "DONE" => s \in enriched'
                    /\ s \notin cut' =>
                          /\ observed'[s] = "executed" => Complete(s)'
                          /\ \A n \in Events(s) :
                                /\ event'[s][n] = "processed" => confirm'[s] \in Waits
                                /\ event'[s][n] # NONE /\ Payloads[s][n] = "launch"
                                      => deep'[s] # NONE
  BY <1>1 DEF Jobs, Fate, Lives
<1>3. \A n \in Events(s) :
         /\ event[s][n] # NONE => event'[s][n] \in {event[s][n], Fate(s)}
         /\ event[s][n] = NONE => event'[s][n] \in {NONE, Fate(s)}
         /\ event[s][n] = NONE /\ event'[s][n] # NONE => n \in Stored(C, s)
         /\ EventsOf(s) \subseteq C => event'[s][n] # NONE
         /\ s \in Made(C, "confirmed") => event'[s][n] = Fate(s)
  BY BlockRows
<1>4. Fate(s) \in {"confirmed", "failed"} /\ Fate(s) # NONE
  BY FateKinds
<1>5. deep'[s] = IF s \in Made(C, "deep") /\ deep[s] = NONE THEN "PENDING" ELSE deep[s]
  BY DEF StoreBlock, QueuedOnce
<1>6. Complete(s) => Complete(s)'
  BY <1>1, CompleteKept
<1>7. \A n \in Events(s) : event'[s][n] = "processed" =>
         event[s][n] = "processed" /\ s \notin Made(C, "confirmed")
  BY <1>3, <1>4, NoneAssumption
<1>8. Settled(s) => Settled(s)'
  BY <1>7 DEF Settled
<1>9. Landed(s)' <=> Landed(s)
  BY <1>0 DEF Landed, Lives
<1>10. s \in Made(C, "deep") => s \in Made(C, "confirmed") /\ EventsOf(s) \subseteq C
  BY DEF BlockOf
<1>11. s \in Made(C, "deep") =>
          Complete(s)' /\ \A n \in Events(s) : event'[s][n] # "processed"
  BY <1>3, <1>7, <1>10 DEF Complete
<1>12. "PENDING" # NONE /\ "PENDING" # "DONE"
  BY NoneAssumption DEF Waits
<1>13. deep'[s] # NONE <=> deep[s] # NONE \/ s \in Made(C, "deep")
  BY <1>5, <1>12
<1>14. deep'[s] = "DONE" => deep[s] = "DONE"
  BY <1>5, <1>12
<1>15. fetching' = s => fetching = s
  BY NoneAssumption
<1>16. deep'[s] # NONE =>
          /\ Complete(s)'
          /\ \A n \in Events(s) : event'[s][n] = "processed" => confirm[s] \in Waits
  BY <1>6, <1>7, <1>11, <1>13 DEF Jobs
<1>17. s \in premature' \/ \A n \in Events(s) : event'[s][n] \in {NONE, "processed", Fate(s)}
  BY <1>0, <1>3 DEF Jobs
<1>18. \A n \in Events(s) : s \notin cut' /\ event'[s][n] # NONE /\ Payloads[s][n] = "launch"
                               => deep'[s] # NONE
  BY <1>3, <1>13 DEF Jobs
<1>19. s \notin cut' => \A n \in Events(s) : event'[s][n] = "processed" => confirm[s] \in Waits
  BY <1>7 DEF Jobs
<1>20. s \notin cut' => (observed[s] = "executed" => Complete(s)')
  BY <1>6 DEF Jobs
<1> QED BY <1>0, <1>8, <1>9, <1>13, <1>14, <1>15, <1>16, <1>17, <1>18, <1>19, <1>20 DEF Jobs

(* The rows, jobs and observation a notification leaves behind.            *)
ReceivedBy(k, C) ==
    /\ observed' = [s \in Signatures |->
           IF s \in Made(C, "observe") /\ observed[s] = NONE
           THEN IF Chain[k].ok THEN "executed" ELSE "failed" ELSE observed[s]]
    /\ event' = WithRows(C, "processed")
    /\ confirm' = Queued(confirm, Made(C, "confirm"))
    /\ deep' = QueuedOnce(deep, Made(C, "deep"))

LEMMA JobsReceived ==
    ASSUME Shape, Shape', Jobs, \A s \in Signatures : fetching = s => deep[s] # NONE,
           NEW k \in Inclusions,
           NEW m \in 0 .. Len(Handling(k)), NEW C, C = Range(SubSeq(Handling(k), 1, m)),
           ReceivedBy(k, C),
           UNCHANGED <<enriched, tip, premature>>, fetching' \in {fetching, NONE},
           \/ m = Len(Handling(k)) /\ cut' = cut
           \/ cut' = cut \cup Made(C, "observe")
    PROVE  Jobs' /\ RowsKept
<1>1. PICK o \in Signatures : o = Sig(k)
  BY SigOf
<1>2. /\ C \subseteq Commits /\ \A c \in C : c.sig = o
      /\ \A c \in C : c.do \notin {"gap", "observe"} =>
            observed[o] = NONE /\ Chain[k].ok /\ o \in Made(C, "observe")
      /\ o \in Made(C, "deep") =>
            EventsOf(o) \subseteq C /\ o \in Made(C, "confirm") /\ NewLaunch(o)
      /\ m = Len(Handling(k)) =>
            /\ o \in Made(C, "observe")
            /\ observed[o] = NONE /\ Chain[k].ok =>
                  /\ EventsOf(o) \subseteq C
                  /\ (\E n \in Events(o) : event[o][n] = NONE) => o \in Made(C, "confirm")
                  /\ NewLaunch(o) => o \in Made(C, "deep")
  BY <1>1, Handled
<1>3. \A s \in Signatures : \A n \in Events(s) :
         event'[s][n] = IF event[s][n] = NONE /\ n \in Stored(C, s) THEN "processed"
                        ELSE event[s][n]
  BY StoredRows DEF ReceivedBy
<1>4. "processed" # NONE /\ "PENDING" # NONE /\ "PENDING" # "DONE" /\ "PENDING" \in Waits
      /\ NONE # "DONE" /\ "executed" # NONE /\ "failed" # NONE
  BY NoneAssumption DEF Waits
<1>5. RowsKept
  BY <1>3, <1>4 DEF RowsKept
<1>6. SUFFICES ASSUME NEW s \in Signatures
             PROVE  /\ confirm'[s] # NONE => observed'[s] # NONE
                    /\ deep'[s] # NONE =>
                          /\ Complete(s)'
                          /\ \A n \in Events(s) :
                              event'[s][n] = "processed" => confirm'[s] \in Waits
                    /\ s \in premature' \/
                          \A n \in Events(s) : event'[s][n] \in {NONE, "processed", Fate(s)}
                    /\ fetching' = s => Settled(s)'
                    /\ s \in enriched' => deep'[s] # NONE /\ Settled(s)' /\ Landed(s)'
                    /\ deep'[s] = "DONE" => s \in enriched'
                    /\ s \notin cut' =>
                          /\ observed'[s] = "executed" => Complete(s)'
                          /\ \A n \in Events(s) :
                                /\ event'[s][n] = "processed" => confirm'[s] \in Waits
                                /\ event'[s][n] # NONE /\ Payloads[s][n] = "launch"
                                      => deep'[s] # NONE
  BY <1>5 DEF Jobs, Fate, Lives
<1>7. Complete(s) => Complete(s)'
  BY <1>5, CompleteKept
<1>8. Complete(s) => (Settled(s) => Settled(s)')
  BY <1>3 DEF Complete, Settled
<1>9. Landed(s)' <=> Landed(s)
  BY DEF Landed, Lives
<1>10. fetching' = s => fetching = s
  BY NoneAssumption
<1>11. observed'[s] = IF s \in Made(C, "observe") /\ observed[s] = NONE
                      THEN IF Chain[k].ok THEN "executed" ELSE "failed" ELSE observed[s]
  BY DEF ReceivedBy
<1>12. confirm'[s] = IF s \in Made(C, "confirm") /\ confirm[s] # "DONE" THEN "PENDING"
                     ELSE confirm[s]
  BY DEF ReceivedBy, Queued
<1>13. deep'[s] = IF s \in Made(C, "deep") /\ deep[s] = NONE THEN "PENDING" ELSE deep[s]
  BY DEF ReceivedBy, QueuedOnce
<1>14. s \in Made(C, "confirm") \/ s \in Made(C, "deep") \/ Stored(C, s) # {} =>
          /\ s = o /\ observed[s] = NONE /\ Chain[k].ok /\ s \in Made(C, "observe")
          /\ confirm[s] = NONE
  <2>1. ASSUME NEW c \in C, c.sig = s, c.do \in {"confirm", "deep", "event"}
        PROVE  s = o /\ observed[s] = NONE /\ Chain[k].ok /\ s \in Made(C, "observe")
    BY <1>2, <2>1
  <2>2. s \in Made(C, "confirm") \/ s \in Made(C, "deep") \/ Stored(C, s) # {} =>
           \E c \in C : c.sig = s /\ c.do \in {"confirm", "deep", "event"}
    BY DEF Made, Stored, Commit
  <2> QED BY <2>1, <2>2 DEF Jobs
<1>15. confirm'[s] # NONE => observed'[s] # NONE
  BY <1>4, <1>11, <1>12, <1>14 DEF Jobs
<1>16. confirm[s] \in Waits \/ s \in Made(C, "confirm") => confirm'[s] \in Waits
  BY <1>4, <1>12, <1>14
<1>17. deep'[s] # NONE <=> deep[s] # NONE \/ s \in Made(C, "deep")
  BY <1>4, <1>13
<1>18. deep'[s] = "DONE" => deep[s] = "DONE"
  BY <1>4, <1>13
<1>19. deep[s] # NONE => \A n \in Events(s) : event'[s][n] = event[s][n]
  BY <1>3 DEF Jobs, Complete
<1>20. s \in Made(C, "deep") => Complete(s)' /\ confirm'[s] \in Waits
  <2>1. s \in Made(C, "deep") => EventsOf(s) \subseteq C /\ s \in Made(C, "confirm")
    BY <1>2, <1>14
  <2>2. EventsOf(s) \subseteq C => \A n \in Events(s) : n \in Stored(C, s)
    BY DEF EventsOf, Stored
  <2>3. (\A n \in Events(s) : n \in Stored(C, s)) => Complete(s)'
    BY <1>3, <1>4 DEF Complete
  <2> QED BY <1>16, <2>1, <2>2, <2>3
<1>21. deep'[s] # NONE =>
          /\ Complete(s)'
          /\ \A n \in Events(s) : event'[s][n] = "processed" => confirm'[s] \in Waits
  BY <1>7, <1>16, <1>17, <1>19, <1>20 DEF Jobs
<1>22. s \in premature' \/ \A n \in Events(s) : event'[s][n] \in {NONE, "processed", Fate(s)}
  BY <1>3 DEF Jobs
<1>23. fetching' = s => Settled(s)'
  BY <1>8, <1>10 DEF Jobs
<1>24. s \in enriched' => deep'[s] # NONE /\ Settled(s)' /\ Landed(s)'
  BY <1>8, <1>9, <1>17 DEF Jobs
<1>25. s \notin cut' /\ s \in Made(C, "observe") => m = Len(Handling(k))
  OBVIOUS
<1>26. s \in Made(C, "observe") => s = o
  BY <1>2 DEF Made
<1>27. s \notin cut' => (observed'[s] = "executed" => Complete(s)')
  <2>1. CASE observed[s] = "executed"
    BY <1>7, <2>1 DEF Jobs
  <2>2. ASSUME s \notin cut', observed[s] # "executed", observed'[s] = "executed"
        PROVE  Complete(s)'
    <3>1. /\ s \in Made(C, "observe") /\ observed[s] = NONE /\ Chain[k].ok /\ s = o
          /\ m = Len(Handling(k))
      BY <1>11, <1>25, <1>26, <2>2
    <3>2. EventsOf(s) \subseteq C
      BY <1>2, <3>1
    <3>3. \A n \in Events(s) : n \in Stored(C, s)
      BY <3>2 DEF EventsOf, Stored
    <3> QED BY <1>3, <1>4, <3>3 DEF Complete
  <2> QED BY <2>1, <2>2
<1>28. ASSUME s \notin cut', NEW n \in Events(s)
       PROVE  /\ event'[s][n] = "processed" => confirm'[s] \in Waits
              /\ event'[s][n] # NONE /\ Payloads[s][n] = "launch" => deep'[s] # NONE
  <2>1. CASE event'[s][n] = event[s][n]
    BY <1>16, <1>17, <1>28, <2>1 DEF Jobs
  <2>2. CASE event'[s][n] # event[s][n]
    <3>1. event[s][n] = NONE /\ n \in Stored(C, s)
      BY <1>3, <2>2
    <3>2. s = o /\ observed[s] = NONE /\ Chain[k].ok /\ m = Len(Handling(k))
      BY <1>14, <1>25, <1>28, <3>1
    <3>3. s \in Made(C, "confirm")
      BY <1>2, <3>1, <3>2
    <3>4. Payloads[s][n] = "launch" => s \in Made(C, "deep")
      BY <1>2, <3>1, <3>2 DEF NewLaunch
    <3> QED BY <1>16, <1>17, <3>3, <3>4
  <2> QED BY <2>1, <2>2
<1> QED BY <1>15, <1>18, <1>21, <1>22, <1>23, <1>24, <1>27, <1>28 DEF Jobs

-----------------------------------------------------------------------------
(* A collector that has reported empty queues does nothing more.           *)
LEMMA CleanIdle ==
    ASSUME IInv, report = "clean"
    PROVE  /\ stage \in {"ending", "down"} /\ Waiting(confirm) = {} /\ Waiting(deep) = {}
           /\ asked = {} /\ fetching = NONE /\ reading = NONE
           /\ \A s \in Signatures : confirm[s] \notin Waits /\ deep[s] \notin Waits
           /\ \A i \in DOMAIN gaps : gaps[i].status \notin Waits
<1>1. stage \in {"ending", "down"} /\ QueuesEmpty
  BY DEF IInv, Main, Clean
<1>2. /\ \A s \in Signatures : confirm[s] \notin Waits /\ deep[s] \notin Waits
      /\ \A i \in DOMAIN gaps : gaps[i].status \notin Waits
  BY <1>1 DEF QueuesEmpty, Open, OpenGaps
<1>3. Waiting(confirm) = {} /\ Waiting(deep) = {}
  BY <1>2 DEF Waiting, Waits
<1>4. CASE Up
  <2>1. /\ asked = {s \in Signatures : confirm[s] = "IN_PROGRESS"}
        /\ \A s \in Signatures : deep[s] = "IN_PROGRESS" <=> fetching = s
        /\ \A i \in DOMAIN gaps : gaps[i].status = "IN_PROGRESS"
                                  <=> reading # NONE /\ reading.job = i
    BY <1>4 DEF IInv, Main, Busy
  <2>2. asked = {}
    BY <1>2, <2>1 DEF Waits
  <2>3. fetching = NONE
    BY <1>2, <2>1 DEF IInv, Main, Shape, Waits
  <2>4. reading # NONE => reading.job \in DOMAIN gaps
    BY DEF IInv, Main, Shape, Reads
  <2>5. reading = NONE
    BY <1>2, <2>1, <2>4 DEF Waits
  <2> QED BY <1>1, <1>2, <1>3, <2>2, <2>3, <2>5
<1>5. CASE ~Up
  BY <1>1, <1>2, <1>3, <1>5 DEF IInv, Main, Busy
<1> QED BY <1>4, <1>5

LEMMA CleanKept ==
    ASSUME Clean, UNCHANGED <<report, confirm, deep, gaps>>, stage' \in {stage, "down"}
    PROVE  Clean'
BY DEF Clean, QueuesEmpty, Open, OpenGaps

LEMMA Kept ==
    ASSUME UNCHANGED <<event, gaps>> PROVE RowsKept /\ GapsKept
BY DEF RowsKept, GapsKept

LEMMA ChainKnown == Len(Chain) \in Nat /\ Inclusions = 1 .. Len(Chain)
BY ChainAssumption, LenProperties DEF Inclusions

LEMMA ProcessKeeps == ASSUME IInv, Process PROVE Main'
<1>0. /\ head < Len(Chain) /\ head' = head + 1
      /\ missed' = IF stage = "offline" /\ pending # NONE THEN missed \cup {head + 1} ELSE missed
      /\ UNCHANGED <<tip, stage, next, last, pending, observed, event, enriched, confirm, deep,
                     gaps, asked, fetching, reading, report, abandoned, overlooked, cut, premature>>
  BY DEF Process, stream, store, queues, workers
<1>1. head \in Nat /\ head + 1 \in Inclusions
  BY <1>0, ChainKnown DEF IInv, Main, Shape
<1>2. Shape'
  BY <1>0, ChainKnown DEF IInv, Main, Shape, Reads
<1>3. Busy'
  BY <1>0 DEF IInv, Main, Busy, Up
<1>4. Order'
  <2>1. ASSUME NEW k \in Inclusions, Unseen(k)'
        PROVE  /\ k \notin missed'
               /\ last' # NONE => last' <= Slot(k)
               /\ pending' # NONE /\ pending'.before # NONE => pending'.before <= Slot(k)
               /\ \A i \in DOMAIN gaps' : gaps'[i].after <= Slot(k)
    <3>1. k \in Nat
      BY SigOf
    <3>2. Unseen(k)
      BY <1>0, <1>1, <2>1, <3>1 DEF Unseen
    <3>3. k \notin missed'
      BY <1>0, <1>1, <2>1, <3>1, <3>2 DEF IInv, Main, Order, Unseen
    <3> QED BY <1>0, <3>2, <3>3 DEF IInv, Main, Order
  <2> QED BY <1>0, <2>1 DEF IInv, Main, Order, Listening
<1>5. Jobs'
  BY <1>0 DEF IInv, Main, Jobs, Complete, Settled, Landed, Lives, Fate
<1>6. Covered'
  <2> SUFFICES ASSUME NEW k \in missed', Counts(k)
               PROVE  \/ Complete(Sig(k)) \/ Excused(k)
                      \/ Recorded(k, gaps) /\ OpenFor(k)
                      \/ ~Recorded(k, gaps) /\ Expected(k)
    BY <1>0 DEF Covered, Counts, Complete, Excused, OpenFor, Expected
  <2>1. CASE k \in missed
    BY <2>1 DEF IInv, Main, Covered
  <2>2. CASE k \notin missed
    <3>1. k = head + 1 /\ pending # NONE
      BY <1>0, <2>2
    <3>2. Unseen(k)
      BY <1>1, <3>1 DEF Unseen
    <3>3. /\ pending.before # NONE => pending.before <= Slot(k)
          /\ \A i \in DOMAIN gaps : gaps[i].after <= Slot(k)
      BY <1>1, <3>1, <3>2 DEF IInv, Main, Order
    <3>4. \A i \in DOMAIN gaps : ~(Slot(k) < gaps[i].after)
      <4>1. \A i \in DOMAIN gaps : gaps[i].after \in Nat
        <5>1. \A i \in DOMAIN gaps : gaps[i] \in GapJobs
          BY ElementOfSeq, LenProperties DEF IInv, Main, Shape
        <5> QED BY <5>1, SigOf DEF GapJobs, Slots
      <4>2. Slot(k) \in Nat
        BY <1>1, <3>1, SigOf
      <4> QED BY <3>3, <4>1, <4>2
    <3>5. ~Recorded(k, gaps)
      BY <3>4, InRange DEF Between
    <3> QED BY <3>1, <3>3, <3>5 DEF Expected
  <2> QED BY <2>1, <2>2
<1>7. ReadSoFar'
  BY <1>0, Kept, ReadKept DEF IInv, Main
<1>8. Clean'
  BY <1>0, CleanKept DEF IInv, Main
<1> QED BY <1>2, <1>3, <1>4, <1>5, <1>6, <1>7, <1>8 DEF IInv, Main

LEMMA ConfirmKeeps == ASSUME IInv, Confirm PROVE Main'
<1>0. UNCHANGED <<head, stage, next, last, pending, observed, event, enriched, confirm, deep,
                  gaps, asked, fetching, reading, report, missed, abandoned, overlooked, cut,
                  premature>>
  BY DEF Confirm, stream, store, queues, workers, history
<1>1. PICK t \in tip + 1 .. head : /\ \A k \in t + 1 .. Len(Chain) : Slot(t) < Slot(k)
                                   /\ tip' = t
  BY DEF Confirm
<1>2. t \in Inclusions /\ t \in Nat /\ tip \in Nat /\ head \in Nat /\ tip' >= tip
  BY <1>1, ChainKnown DEF IInv, Main, Shape
<1>3. Shape'
  BY <1>0, <1>1, <1>2 DEF IInv, Main, Shape, Reads
<1>4. Busy'
  BY <1>0 DEF IInv, Main, Busy, Up
<1>5. Order'
  <2>1. ASSUME NEW j \in Inclusions, NEW k \in Inclusions, j <= t, t < k
        PROVE  Slot(j) < Slot(k)
    <3>1. k \in t + 1 .. Len(Chain)
      BY <1>2, <2>1, ChainKnown
    <3>2. Slot(t) < Slot(k)
      BY <1>1, <3>1
    <3>3. j = t \/ j < t
      BY <1>2, <2>1, SigOf
    <3>4. Slot(j) <= Slot(t)
      BY <1>2, <3>3, ChainAssumption, SigOf
    <3> QED BY <1>2, <3>2, <3>4, SigOf
  <2> QED BY <1>0, <1>1, <2>1 DEF IInv, Main, Order, Unseen, Listening
<1>6. Jobs'
  <2>1. JobsOnly
    BY <1>0, <1>2 DEF JobsOnly
  <2> QED BY <1>3, <2>1, JobsKept DEF IInv, Main
<1>7. Covered'
  BY <1>0, Kept, CoveredKept DEF IInv, Main
<1>8. ReadSoFar'
  BY <1>0, Kept, ReadKept DEF IInv, Main
<1>9. Clean'
  BY <1>0, CleanKept DEF IInv, Main
<1> QED BY <1>3, <1>4, <1>5, <1>6, <1>7, <1>8, <1>9 DEF IInv, Main

(* The variables after the end of a process.                               *)
LEMMA EndsShape ==
    ASSUME Shape, NEW to, NEW G, Ends(to, G), head' = head
    PROVE  /\ next' = 1 /\ next' \in 1 .. head' + 1 /\ last' = NONE /\ pending' = NONE
           /\ stage' = to /\ missed' \cup abandoned' \subseteq 1 .. head'
BY DEF Ends, Shape

LEMMA CrashKeeps == ASSUME IInv, Crash PROVE Main'
<1>0. /\ UNCHANGED <<head, tip, observed, event, enriched, confirm, deep, gaps, report,
                     overlooked, cut, premature>>
      /\ Ends("down", gaps) /\ asked' = {} /\ fetching' = NONE /\ reading' = NONE
  BY DEF Crash, Dies, store, queues
<1>1. Ends("down", gaps') /\ GapsGrow /\ stage' = "down"
  BY <1>0 DEF GapsGrow, Ends
<1>2. Shape'
  BY <1>0, <1>1, EndsShape DEF IInv, Main, Shape
<1>3. Busy'
  BY <1>0, <1>1 DEF Busy, Up
<1>4. Order'
  BY <1>0, <1>1, OrderEnds DEF IInv, Main
<1>5. Jobs'
  <2>1. tip' >= tip
    BY <1>0 DEF IInv, Main, Shape
  <2>2. JobsOnly
    BY <1>0, <2>1, NoneAssumption DEF JobsOnly
  <2> QED BY <1>2, <2>2, JobsKept DEF IInv, Main
<1>6. Covered'
  BY <1>0, <1>1, Kept, CoveredEnds DEF IInv, Main
<1>7. ReadSoFar'
  BY <1>0 DEF ReadSoFar
<1>8. Clean'
  BY <1>0, <1>1, CleanKept DEF IInv, Main
<1> QED BY <1>2, <1>3, <1>4, <1>5, <1>6, <1>7, <1>8 DEF IInv, Main

LEMMA StopKeeps == ASSUME IInv, Stop PROVE Main'
<1>0. /\ UNCHANGED <<head, tip, observed, event, enriched, confirm, deep, gaps, asked, fetching,
                     reading, report, overlooked, cut, premature>>
      /\ Ends("draining", gaps) /\ Listening
  BY DEF Stop, store, queues, workers
<1>1. Ends("draining", gaps') /\ GapsGrow /\ stage' = "draining" /\ Up /\ Up'
  BY <1>0 DEF GapsGrow, Ends, Up, Listening
<1>2. Shape'
  BY <1>0, <1>1, EndsShape DEF IInv, Main, Shape, Reads
<1>3. Busy'
  BY <1>0, <1>1 DEF IInv, Main, Busy
<1>4. Order'
  BY <1>0, <1>1, OrderEnds DEF IInv, Main
<1>5. Jobs'
  <2>1. tip' >= tip
    BY <1>0 DEF IInv, Main, Shape
  <2>2. JobsOnly
    BY <1>0, <2>1 DEF JobsOnly
  <2> QED BY <1>2, <2>2, JobsKept DEF IInv, Main
<1>6. Covered'
  BY <1>0, <1>1, Kept, CoveredEnds DEF IInv, Main
<1>7. ReadSoFar'
  BY <1>0, Kept, ReadKept DEF IInv, Main
<1>8. Clean'
  <2>1. report # "clean"
    BY <1>0, CleanIdle DEF Listening
  <2> QED BY <1>0, <2>1 DEF Clean
<1> QED BY <1>2, <1>3, <1>4, <1>5, <1>6, <1>7, <1>8 DEF IInv, Main

LEMMA ResumedJobs ==
    ASSUME NEW q \in [Signatures -> JobStatus \cup {NONE}], NEW p, p = Resumed(q)
    PROVE  /\ p \in [Signatures -> JobStatus \cup {NONE}]
           /\ \A s \in Signatures :
                 /\ p[s] # "IN_PROGRESS"
                 /\ p[s] # NONE <=> q[s] # NONE
                 /\ q[s] \in Waits => p[s] \in Waits
                 /\ p[s] = "DONE" => q[s] = "DONE"
<1>1. p = [s \in Signatures |-> IF q[s] = "IN_PROGRESS" THEN "PENDING" ELSE q[s]]
  BY DEF Resumed
<1>2. "PENDING" \in Waits /\ "IN_PROGRESS" \in Waits /\ Waits \subseteq JobStatus
      /\ "PENDING" # NONE /\ "IN_PROGRESS" # NONE
  BY NoneAssumption DEF Waits, JobStatus
<1>3. \A s \in Signatures : q[s] \in JobStatus \cup {NONE}
  OBVIOUS
<1> QED BY <1>1, <1>2, <1>3

LEMMA ResumedReads ==
    ASSUME NEW G \in Seq(GapJobs), NEW H, H = ResumedGaps(G)
    PROVE  /\ H \in Seq(GapJobs) /\ DOMAIN H = DOMAIN G
           /\ \A i \in DOMAIN G :
                 /\ H[i].before = G[i].before /\ H[i].after = G[i].after
                 /\ H[i].status # "IN_PROGRESS"
                 /\ G[i].status \in Waits => H[i].status \in Waits
<1>1. Len(G) \in Nat /\ DOMAIN G = 1 .. Len(G)
  BY LenProperties
<1>2. \A i \in DOMAIN G : G[i] \in GapJobs
  BY <1>1, ElementOfSeq
<1>3. /\ DOMAIN H = 1 .. Len(G)
      /\ H = [i \in 1 .. Len(G) |-> H[i]]
      /\ \A i \in DOMAIN G : H[i] = IF G[i].status = "IN_PROGRESS"
                                    THEN [G[i] EXCEPT !.status = "RETRY"] ELSE G[i]
  BY <1>1 DEF ResumedGaps
<1>4. "RETRY" \in Waits /\ "RETRY" \in JobStatus
  BY DEF Waits, JobStatus
<1>5. ASSUME NEW i \in DOMAIN G
      PROVE  /\ H[i] \in GapJobs /\ H[i].before = G[i].before /\ H[i].after = G[i].after
             /\ H[i].status # "IN_PROGRESS"
             /\ G[i].status \in Waits => H[i].status \in Waits
  <2>1. CASE G[i].status = "IN_PROGRESS"
    <3>1. H[i] = [G[i] EXCEPT !.status = "RETRY"] /\ G[i] \in GapJobs
      BY <1>2, <1>3, <2>1
    <3> QED BY <1>4, <3>1 DEF GapJobs
  <2>2. CASE G[i].status # "IN_PROGRESS"
    BY <1>2, <1>3, <2>2
  <2> QED BY <2>1, <2>2
<1>6. H \in Seq(GapJobs)
  BY <1>1, <1>3, <1>5, SeqDef
<1> QED BY <1>1, <1>3, <1>5, <1>6

LEMMA StartKeeps == ASSUME IInv, Start PROVE Main'
<1>0. /\ stage = "down" /\ stage' = "offline" /\ report' = NONE
      /\ confirm' = Resumed(confirm) /\ deep' = Resumed(deep) /\ gaps' = ResumedGaps(gaps)
      /\ UNCHANGED <<head, tip, next, last, pending, observed, event, enriched, asked, fetching,
                     reading, missed, abandoned, overlooked, cut, premature>>
  BY DEF Start, stream, store, workers, history
<1>1. /\ asked = {} /\ fetching = NONE /\ reading = NONE /\ pending = NONE
  BY <1>0 DEF IInv, Main, Busy, Up, Order, Listening
<1>2. /\ confirm' \in [Signatures -> JobStatus \cup {NONE}]
      /\ deep' \in [Signatures -> JobStatus \cup {NONE}]
      /\ \A s \in Signatures :
            /\ confirm'[s] # "IN_PROGRESS" /\ deep'[s] # "IN_PROGRESS"
            /\ confirm'[s] # NONE <=> confirm[s] # NONE
            /\ confirm[s] \in Waits => confirm'[s] \in Waits
            /\ deep'[s] # NONE <=> deep[s] # NONE
            /\ deep'[s] = "DONE" => deep[s] = "DONE"
  <2>1. /\ confirm \in [Signatures -> JobStatus \cup {NONE}]
        /\ deep \in [Signatures -> JobStatus \cup {NONE}]
    BY DEF IInv, Main, Shape
  <2> QED BY <1>0, <2>1, ResumedJobs
<1>3. /\ gaps' \in Seq(GapJobs) /\ DOMAIN gaps' = DOMAIN gaps
      /\ \A i \in DOMAIN gaps :
            /\ gaps'[i].before = gaps[i].before /\ gaps'[i].after = gaps[i].after
            /\ gaps'[i].status # "IN_PROGRESS"
            /\ gaps[i].status \in Waits => gaps'[i].status \in Waits
  BY <1>0, ResumedReads DEF IInv, Main, Shape
<1>4. GapsKept /\ RowsKept
  BY <1>0, <1>3 DEF GapsKept, RowsKept
<1>5. Shape'
  BY <1>0, <1>1, <1>2, <1>3 DEF IInv, Main, Shape
<1>6. Busy'
  BY <1>0, <1>1, <1>2, <1>3, NoneAssumption DEF Busy, Up
<1>7. Order'
  <2>1. \A k \in Inclusions : Unseen(k)' => Unseen(k)
    BY <1>0 DEF Unseen
  <2>2. pending' = NONE
    BY <1>0, <1>1
  <2> QED BY <1>0, <1>3, <2>1, <2>2 DEF IInv, Main, Order
<1>8. Jobs'
  <2>1. tip' >= tip
    BY <1>0 DEF IInv, Main, Shape
  <2>2. JobsOnly
    BY <1>0, <1>2, <2>1 DEF JobsOnly
  <2> QED BY <1>5, <2>2, JobsKept DEF IInv, Main
<1>9. Covered'
  BY <1>0, <1>4, CoveredKept DEF IInv, Main
<1>10. ReadSoFar'
  BY <1>0, <1>1 DEF ReadSoFar
<1>11. Clean'
  BY <1>0, NoneAssumption DEF Clean
<1> QED BY <1>5, <1>6, <1>7, <1>8, <1>9, <1>10, <1>11 DEF IInv, Main

LEMMA SubscribeKeeps == ASSUME IInv, Subscribe PROVE Main'
<1>0. /\ stage = "offline" /\ stage' = "subscribed" /\ next' = head + 1
      /\ UNCHANGED <<head, tip, last, pending, observed, event, enriched, confirm, deep, gaps,
                     asked, fetching, reading, report, missed, abandoned, overlooked, cut,
                     premature>>
  BY DEF Subscribe, store, queues, workers, history
<1>1. Shape'
  BY <1>0 DEF IInv, Main, Shape, Reads
<1>2. Busy'
  BY <1>0 DEF IInv, Main, Busy, Up
<1>3. Order'
  <2>1. \A k \in Inclusions : Unseen(k)' => Unseen(k)
    BY <1>0, SigOf DEF IInv, Main, Shape, Unseen
  <2>2. Listening'
    BY <1>0 DEF Listening
  <2> QED BY <1>0, <2>1, <2>2 DEF IInv, Main, Order
<1>4. Jobs'
  <2>1. tip' >= tip
    BY <1>0 DEF IInv, Main, Shape
  <2>2. JobsOnly
    BY <1>0, <2>1 DEF JobsOnly
  <2> QED BY <1>1, <2>2, JobsKept DEF IInv, Main
<1>5. Covered'
  BY <1>0, Kept, CoveredKept DEF IInv, Main
<1>6. ReadSoFar'
  BY <1>0, Kept, ReadKept DEF IInv, Main
<1>7. Clean'
  <2>1. report # "clean"
    BY <1>0, CleanIdle
  <2> QED BY <1>0, <2>1 DEF Clean
<1> QED BY <1>1, <1>2, <1>3, <1>4, <1>5, <1>6, <1>7 DEF IInv, Main

(* No job looks at or beyond what the listener has not been told of.       *)
LEMMA NotRecorded ==
    ASSUME Shape, Order, NEW k \in Inclusions, Unseen(k) PROVE ~Recorded(k, gaps)
<1>1. ASSUME NEW i \in DOMAIN gaps PROVE ~(Slot(k) < gaps[i].after)
  <2>1. gaps[i].after <= Slot(k)
    BY DEF Order
  <2>2. gaps[i] \in GapJobs
    BY ElementOfSeq, LenProperties DEF Shape
  <2>3. gaps[i].after \in Nat
    BY <2>2, SigOf DEF GapJobs, Slots
  <2> QED BY <2>1, <2>3, SigOf
<1> QED BY <1>1, InRange DEF Between

LEMMA BreakKeeps == ASSUME IInv, Break PROVE Main'
<1>0. /\ Listening /\ stage' = "offline" /\ pending' = Pending /\ next' = 1
      /\ missed' = missed \cup (IF stage = "subscribed" THEN next .. head ELSE {})
      /\ UNCHANGED <<head, tip, last, observed, event, enriched, confirm, deep, gaps, asked,
                     fetching, reading, report, abandoned, overlooked, cut, premature>>
  BY DEF Break, Breaks, store, queues, workers
<1>1. /\ pending' \in [before : Slots \cup {NONE}]
      /\ pending # NONE => pending' = pending
      /\ pending = NONE => pending'.before = last
  BY <1>0 DEF IInv, Main, Shape, Pending
<1>2. pending' # NONE
  BY <1>1, NoneAssumption
<1>3. Shape'
  BY <1>0, <1>1 DEF IInv, Main, Shape, Reads
<1>4. Busy'
  BY <1>0 DEF IInv, Main, Busy, Up, Listening
<1>5. Order'
  <2>1. ASSUME NEW k \in Inclusions, Unseen(k)'
        PROVE  /\ k \notin missed'
               /\ last' # NONE => last' <= Slot(k)
               /\ pending' # NONE /\ pending'.before # NONE => pending'.before <= Slot(k)
               /\ \A i \in DOMAIN gaps' : gaps'[i].after <= Slot(k)
    <3>1. k > head /\ Unseen(k) /\ k \in Nat
      BY <1>0, <2>1, SigOf DEF Unseen
    <3>2. k \notin missed'
      <4>1. k \notin missed /\ k \notin next .. head
        BY <3>1 DEF IInv, Main, Order, Shape
      <4> QED BY <1>0, <4>1
    <3>3. last # NONE => last <= Slot(k)
      BY <3>1 DEF IInv, Main, Order
    <3>4. pending # NONE /\ pending.before # NONE => pending.before <= Slot(k)
      BY <3>1 DEF IInv, Main, Order
    <3>5. pending'.before # NONE => pending'.before <= Slot(k)
      BY <1>1, <3>3, <3>4
    <3>6. \A i \in DOMAIN gaps : gaps[i].after <= Slot(k)
      BY <3>1 DEF IInv, Main, Order
    <3> QED BY <1>0, <3>2, <3>3, <3>5, <3>6
  <2>2. Listening'
    BY <1>0 DEF Listening
  <2> QED BY <1>0, <2>1, <2>2 DEF IInv, Main, Order
<1>6. Jobs'
  <2>1. tip' >= tip
    BY <1>0 DEF IInv, Main, Shape
  <2>2. JobsOnly
    BY <1>0, <2>1 DEF JobsOnly
  <2> QED BY <1>3, <2>2, JobsKept DEF IInv, Main
<1>7. Covered'
  <2> SUFFICES ASSUME NEW k \in missed', Counts(k)
               PROVE  \/ Complete(Sig(k)) \/ Excused(k)
                      \/ Recorded(k, gaps) /\ OpenFor(k)
                      \/ ~Recorded(k, gaps) /\ Expected(k)'
    BY <1>0 DEF Covered, Counts, Complete, Excused, OpenFor
  <2>1. CASE k \in missed
    <3>1. Expected(k) => Expected(k)'
      BY <1>1 DEF Expected
    <3> QED BY <2>1, <3>1 DEF IInv, Main, Covered
  <2>2. CASE k \notin missed
    <3>1. stage = "subscribed" /\ k \in next .. head
      BY <1>0, <2>2
    <3>2. k \in Inclusions
      BY <3>1, ChainKnown DEF IInv, Main, Shape
    <3>3. Unseen(k)
      BY <3>1, <3>2 DEF Unseen, IInv, Main, Shape
    <3>4. ~Recorded(k, gaps)
      BY <3>2, <3>3, NotRecorded DEF IInv, Main
    <3>5. /\ last # NONE => last <= Slot(k)
          /\ pending # NONE /\ pending.before # NONE => pending.before <= Slot(k)
      BY <3>2, <3>3 DEF IInv, Main, Order
    <3>6. Expected(k)'
      BY <1>1, <1>2, <3>5 DEF Expected
    <3> QED BY <3>4, <3>6
  <2> QED BY <2>1, <2>2
<1>8. ReadSoFar'
  BY <1>0, Kept, ReadKept DEF IInv, Main
<1>9. Clean'
  <2>1. report # "clean"
    BY <1>0, CleanIdle DEF Listening
  <2> QED BY <1>0, <2>1 DEF Clean
<1> QED BY <1>3, <1>4, <1>5, <1>6, <1>7, <1>8, <1>9 DEF IInv, Main

(* The rows and jobs that a notification leaves are of their kinds, and no *)
(* job that is in progress is touched.                                     *)
LEMMA ReceivedShape ==
    ASSUME Shape, Jobs, NEW k \in Inclusions, NEW m \in 0 .. Len(Handling(k)),
           NEW C, C = Range(SubSeq(Handling(k), 1, m)), ReceivedBy(k, C)
    PROVE  /\ observed' \in [Signatures -> {"executed", "failed", NONE}]
           /\ DOMAIN event' = Signatures
           /\ \A s \in Signatures :
                 event'[s] \in [Events(s) -> {"processed", "confirmed", "failed", NONE}]
           /\ confirm' \in [Signatures -> JobStatus \cup {NONE}]
           /\ deep' \in [Signatures -> JobStatus \cup {NONE}]
           /\ \A s \in Signatures :
                 /\ confirm'[s] = "IN_PROGRESS" <=> confirm[s] = "IN_PROGRESS"
                 /\ deep'[s] = "IN_PROGRESS" <=> deep[s] = "IN_PROGRESS"
<1>1. PICK o \in Signatures : o = Sig(k)
  BY SigOf
<1>2. /\ C \subseteq Commits /\ \A c \in C : c.sig = o
      /\ \A c \in C : c.do \notin {"gap", "observe"} =>
            observed[o] = NONE /\ Chain[k].ok /\ o \in Made(C, "observe")
  BY <1>1, Handled
<1>3. \A s \in Signatures : s \in Made(C, "confirm") => confirm[s] = NONE
  <2>1. ASSUME NEW s \in Signatures, NEW c \in C, c.do = "confirm", c.sig = s
        PROVE  confirm[s] = NONE
    BY <1>2, <2>1 DEF Jobs
  <2> QED BY <2>1 DEF Made
<1>4. "PENDING" \in JobStatus /\ "PENDING" # "IN_PROGRESS" /\ NONE # "IN_PROGRESS"
  BY NoneAssumption DEF JobStatus, Waits
<1>5. observed' \in [Signatures -> {"executed", "failed", NONE}]
  BY DEF ReceivedBy, Shape
<1>6. /\ DOMAIN event' = Signatures
      /\ \A s \in Signatures :
            event'[s] \in [Events(s) -> {"processed", "confirmed", "failed", NONE}]
  BY StoredRows DEF ReceivedBy
<1>7. confirm' \in [Signatures -> JobStatus \cup {NONE}]
  BY <1>4 DEF ReceivedBy, Queued, Shape
<1>8. deep' \in [Signatures -> JobStatus \cup {NONE}]
  BY <1>4 DEF ReceivedBy, QueuedOnce, Shape
<1>9. ASSUME NEW s \in Signatures
      PROVE  confirm'[s] = "IN_PROGRESS" <=> confirm[s] = "IN_PROGRESS"
  <2>1. confirm'[s] = IF s \in Made(C, "confirm") /\ confirm[s] # "DONE" THEN "PENDING"
                      ELSE confirm[s]
    BY DEF ReceivedBy, Queued
  <2> QED BY <1>3, <1>4, <2>1
<1>10. ASSUME NEW s \in Signatures
       PROVE  deep'[s] = "IN_PROGRESS" <=> deep[s] = "IN_PROGRESS"
  <2>1. deep'[s] = IF s \in Made(C, "deep") /\ deep[s] = NONE THEN "PENDING" ELSE deep[s]
    BY DEF ReceivedBy, QueuedOnce
  <2> QED BY <1>4, <2>1
<1> QED BY <1>5, <1>6, <1>7, <1>8, <1>9, <1>10

LEMMA ReceiveKeeps == ASSUME IInv, Receive PROVE Main'
<1>1. stage = "subscribed" /\ next <= head /\ next \in Inclusions /\ next \in Nat
  BY NextKnown DEF Receive, IInv, Main
<1>2. PICK k \in Inclusions : k = next
  BY <1>1
<1>3. PICK m \in 0 .. Len(Handling(next)) :
          LET C == Range(SubSeq(Handling(next), 1, m)) IN
          /\ gaps' = IF Made(C, "gap") = {} THEN gaps
                     ELSE Append(gaps, GapJob(pending.before, Slot(next)))
          /\ ReceivedBy(next, C)
          /\ \/ /\ m = Len(Handling(next))
                /\ next' = next + 1 /\ last' = Slot(next) /\ pending' = NONE
                /\ UNCHANGED <<stage, workers, missed, abandoned, cut, faults>>
             \/ /\ m < Len(Handling(next)) /\ Dies(gaps')
                /\ cut' = cut \cup Made(C, "observe")
             \/ /\ m < Len(Handling(next)) /\ Interrupted(m)
                /\ cut' = cut \cup Made(C, "observe")
  BY DEF Receive, ReceivedBy
<1>4. PICK C : C = Range(SubSeq(Handling(next), 1, m))
  OBVIOUS
<1>5. UNCHANGED <<head, tip, enriched, report, overlooked, premature>>
  BY DEF Receive
<1>6. /\ gaps' = IF Made(C, "gap") = {} THEN gaps
                 ELSE Append(gaps, GapJob(pending.before, Slot(next)))
      /\ ReceivedBy(next, C)
      /\ \/ /\ m = Len(Handling(next))
            /\ next' = next + 1 /\ last' = Slot(next) /\ pending' = NONE
            /\ UNCHANGED <<stage, asked, fetching, reading, missed, abandoned, cut>>
         \/ Dies(gaps') /\ cut' = cut \cup Made(C, "observe")
         \/ Interrupted(m) /\ cut' = cut \cup Made(C, "observe")
  BY <1>3, <1>4 DEF workers
<1>7. /\ Made(C, "gap") # {} => pending # NONE
      /\ m = Len(Handling(next)) \/ m >= 1 => (pending # NONE => Made(C, "gap") # {})
  <2>1. PICK s \in Signatures : s = Sig(next)
    BY <1>1, SigOf
  <2>2. /\ \A c \in C : c.do = "gap" => pending # NONE
        /\ m = Len(Handling(next)) \/ m >= 1 => (pending # NONE => s \in Made(C, "gap"))
    BY <1>1, <1>4, <2>1, Handled DEF IInv, Main
  <2>3. Made(C, "gap") # {} => pending # NONE
    BY <2>2 DEF Made
  <2> QED BY <2>2, <2>3
<1>8. GapsGrow
  BY <1>1, <1>6, <1>7 DEF GapsGrow
<1>9. /\ gaps' \in Seq(GapJobs)
      /\ \A i \in DOMAIN gaps : i \in DOMAIN gaps' /\ gaps'[i] = gaps[i]
      /\ \A i \in DOMAIN gaps' : i \in DOMAIN gaps \/
            /\ gaps'[i].after = Slot(next) /\ gaps'[i].before = pending.before
            /\ gaps'[i].status # "IN_PROGRESS"
            /\ \A j \in Inclusions : Between(j, gaps'[i]) => gaps'[i].status \in Waits
  BY <1>8, Grown DEF IInv, Main
<1>10. /\ observed' \in [Signatures -> {"executed", "failed", NONE}]
       /\ DOMAIN event' = Signatures
       /\ \A s \in Signatures :
             event'[s] \in [Events(s) -> {"processed", "confirmed", "failed", NONE}]
       /\ confirm' \in [Signatures -> JobStatus \cup {NONE}]
       /\ deep' \in [Signatures -> JobStatus \cup {NONE}]
       /\ \A s \in Signatures :
             /\ confirm'[s] = "IN_PROGRESS" <=> confirm[s] = "IN_PROGRESS"
             /\ deep'[s] = "IN_PROGRESS" <=> deep[s] = "IN_PROGRESS"
  BY <1>1, <1>4, <1>6, ReceivedShape DEF IInv, Main
<1>11. Up
  BY <1>1 DEF Up
<1>12. ASSUME Shape', \/ m = Len(Handling(next)) /\ cut' = cut
                      \/ cut' = cut \cup Made(C, "observe"),
              fetching' \in {fetching, NONE}
       PROVE  Jobs' /\ RowsKept
  <2>1. \A s \in Signatures : fetching = s => deep[s] # NONE
    BY <1>11, NoneAssumption DEF IInv, Main, Busy, Waits
  <2> QED BY <1>1, <1>4, <1>5, <1>6, <1>12, <2>1, JobsReceived DEF IInv, Main
<1>13. Clean'
  <2>1. report # "clean"
    BY <1>1, CleanIdle
  <2> QED BY <1>5, <2>1 DEF Clean
<1>14. ASSUME UNCHANGED <<asked, fetching, reading>>, Up'
       PROVE  Busy' /\ (reading' = NONE \/ reading' \in Reads')
  <2>1. asked' = {s \in Signatures : confirm'[s] = "IN_PROGRESS"}
    BY <1>10, <1>11, <1>14 DEF IInv, Main, Busy
  <2>2. \A s \in Signatures : deep'[s] = "IN_PROGRESS" <=> fetching' = s
    BY <1>10, <1>11, <1>14 DEF IInv, Main, Busy
  <2>3. ASSUME NEW i \in DOMAIN gaps'
        PROVE  gaps'[i].status = "IN_PROGRESS" <=> reading' # NONE /\ reading'.job = i
    <3>1. CASE i \in DOMAIN gaps
      BY <1>9, <1>11, <1>14, <3>1 DEF IInv, Main, Busy
    <3>2. CASE i \notin DOMAIN gaps
      <4>1. reading # NONE => reading.job \in DOMAIN gaps
        BY DEF IInv, Main, Shape, Reads
      <4> QED BY <1>9, <1>14, <3>2, <4>1
    <3> QED BY <3>1, <3>2
  <2>4. reading' = NONE \/ reading' \in Reads'
    BY <1>9, <1>14 DEF IInv, Main, Shape, Reads
  <2> QED BY <1>14, <2>1, <2>2, <2>3, <2>4 DEF Busy
<1>15. Slot(next) \in Slots /\ Slot(next) \in Nat
  BY <1>1, SigOf
<1>16. ASSUME NEW j \in Inclusions, next < j
       PROVE  /\ Slot(next) <= Slot(j)
              /\ Unseen(j) => \A i \in DOMAIN gaps' : gaps'[i].after <= Slot(j)
  <2>1. Slot(next) <= Slot(j)
    BY <1>1, <1>16, ChainAssumption
  <2>2. Unseen(j) => \A i \in DOMAIN gaps : gaps[i].after <= Slot(j)
    BY DEF IInv, Main, Order
  <2> QED BY <1>9, <2>1, <2>2
<1>17. ASSUME NEW j \in missed, Counts(j), RowsKept, abandoned' = abandoned
       PROVE  \/ Complete(Sig(j))' \/ Excused(j)'
              \/ Recorded(j, gaps') /\ OpenFor(j)'
              \/ Made(C, "gap") = {} /\ ~Recorded(j, gaps) /\ Expected(j)
  <2>1. j \in Inclusions /\ j \in Nat /\ j <= head /\ Sig(j) \in Signatures
    BY MissedKnown DEF IInv, Main
  <2>2. \/ Complete(Sig(j)) \/ Excused(j)
        \/ Recorded(j, gaps) /\ OpenFor(j)
        \/ ~Recorded(j, gaps) /\ Expected(j)
    BY <1>17 DEF IInv, Main, Covered
  <2>3. Complete(Sig(j)) => Complete(Sig(j))'
    BY <1>17, <2>1, CompleteKept
  <2>4. Outside(j, gaps) => Outside(j, gaps')
    BY <1>9, InRange
  <2>5. Excused(j) => Excused(j)'
    BY <1>5, <1>17, <2>4 DEF Excused
  <2>6. Recorded(j, gaps) /\ OpenFor(j) => Recorded(j, gaps') /\ OpenFor(j)'
    BY <1>9, InRange DEF OpenFor
  <2>7. ASSUME Expected(j), Made(C, "gap") # {}
        PROVE  Excused(j)' \/ (Recorded(j, gaps') /\ OpenFor(j)')
    <3>1. pending # NONE /\ (pending.before = NONE \/ pending.before <= Slot(j))
      BY <2>7 DEF Expected
    <3>2. gaps' = Append(gaps, GapJob(pending.before, Slot(next)))
      BY <1>6, <2>7
    <3>3. PICK g : g = GapJob(pending.before, Slot(next))
      OBVIOUS
    <3>4. /\ g \in GapJobs /\ g.before = pending.before /\ g.after = Slot(next)
          /\ \A l \in Inclusions : Between(l, g) => g.status \in Waits
      BY <1>1, <3>1, <3>3, NewJob DEF IInv, Main
    <3>5. PICK i : i = Len(gaps) + 1
      OBVIOUS
    <3>6. i \in DOMAIN gaps' /\ gaps'[i] = g
      BY <3>2, <3>3, <3>4, <3>5, Appended DEF IInv, Main
    <3>7. ~(j >= next)
      <4>1. j \notin {l \in Inclusions : Unseen(l)}
        BY DEF IInv, Main, Order
      <4> QED BY <1>1, <2>1, <4>1 DEF Unseen
    <3>8. Slot(j) <= Slot(next)
      BY <1>1, <2>1, <3>7, ChainAssumption
    <3>9. CASE pending.before = NONE \/ Slot(j) \in {pending.before, Slot(next)}
      <4>1. Outside(j, gaps')
        BY <3>4, <3>6, <3>8, <3>9, InRange
      <4> QED BY <4>1 DEF Excused
    <3>10. CASE pending.before # NONE /\ Slot(j) \notin {pending.before, Slot(next)}
      <4>1. pending.before \in Nat /\ Slot(j) \in Nat
        BY <2>1, <3>1, <3>10, SigOf DEF IInv, Main, Shape, Slots
      <4>2. Between(j, g)
        BY <1>15, <3>1, <3>4, <3>8, <3>10, <4>1 DEF Between
      <4> QED BY <2>1, <3>4, <3>6, <4>2, InRange DEF OpenFor
    <3> QED BY <3>9, <3>10
  <2> QED BY <2>2, <2>3, <2>5, <2>6, <2>7
<1>18. CASE Dies(gaps') /\ cut' = cut \cup Made(C, "observe")
  <2>1. Ends("down", gaps') /\ asked' = {} /\ fetching' = NONE /\ reading' = NONE
        /\ stage' = "down"
    BY <1>18 DEF Dies, Ends
  <2>2. Shape'
    <3>1. /\ next' \in 1 .. head' + 1 /\ last' = NONE /\ pending' = NONE
          /\ missed' \cup abandoned' \subseteq 1 .. head'
      BY <1>5, <2>1, EndsShape DEF IInv, Main
    <3> QED BY <1>5, <1>9, <1>10, <2>1, <3>1 DEF IInv, Main, Shape
  <2>3. Busy'
    BY <2>1 DEF Busy, Up
  <2>4. Order'
    BY <1>5, <1>8, <2>1, OrderEnds DEF IInv, Main
  <2>5. Jobs' /\ RowsKept
    BY <1>12, <1>18, <2>1, <2>2
  <2>6. Covered'
    BY <1>5, <1>8, <2>1, <2>5, CoveredEnds DEF IInv, Main
  <2>7. ReadSoFar'
    BY <2>1 DEF ReadSoFar
  <2> QED BY <1>13, <2>2, <2>3, <2>4, <2>5, <2>6, <2>7 DEF IInv, Main
<1>19. CASE /\ m = Len(Handling(next))
            /\ next' = next + 1 /\ last' = Slot(next) /\ pending' = NONE
            /\ UNCHANGED <<stage, asked, fetching, reading, missed, abandoned, cut>>
  <2>1. Up'
    BY <1>1, <1>19 DEF Up
  <2>2. Busy' /\ (reading' = NONE \/ reading' \in Reads')
    BY <1>14, <1>19, <2>1
  <2>3. Shape'
    <3>1. next' \in 1 .. head' + 1
      BY <1>1, <1>5, <1>19 DEF IInv, Main, Shape
    <3> QED BY <1>5, <1>9, <1>10, <1>15, <1>19, <2>2, <3>1 DEF IInv, Main, Shape
  <2>4. Order'
    <3>1. ASSUME NEW j \in Inclusions, Unseen(j)'
          PROVE  /\ j \notin missed' /\ last' <= Slot(j)
                 /\ \A i \in DOMAIN gaps' : gaps'[i].after <= Slot(j)
      <4>1. j \in Nat /\ next < j /\ Unseen(j)
        BY <1>1, <1>5, <1>19, <3>1, SigOf DEF Unseen, IInv, Main, Shape
      <4>2. j \notin missed
        BY <4>1 DEF IInv, Main, Order
      <4> QED BY <1>16, <1>19, <4>1, <4>2
    <3>2. \A i, j \in Inclusions : i <= tip' /\ tip' < j => Slot(i) < Slot(j)
      BY <1>5 DEF IInv, Main, Order
    <3> QED BY <1>19, <3>1, <3>2 DEF Order
  <2>5. Jobs' /\ RowsKept
    BY <1>12, <1>19, <2>3
  <2>6. Covered'
    <3> SUFFICES ASSUME NEW j \in missed, Counts(j)
                 PROVE  \/ Complete(Sig(j))' \/ Excused(j)'
                        \/ Recorded(j, gaps') /\ OpenFor(j)'
      BY <1>19 DEF Covered, Counts
    <3>1. Expected(j) => Made(C, "gap") # {}
      BY <1>7, <1>19 DEF Expected
    <3> QED BY <1>17, <1>19, <2>5, <3>1
  <2>7. ReadSoFar'
    <3>1. reading' = reading /\ overlooked \subseteq overlooked'
      BY <1>5, <1>19
    <3> QED BY <1>9, <2>5, <3>1, ReadKept DEF IInv, Main
  <2> QED BY <1>13, <2>2, <2>3, <2>4, <2>5, <2>6, <2>7 DEF Main
<1>20. CASE Interrupted(m) /\ cut' = cut \cup Made(C, "observe")
  <2>1. /\ stage' = "offline" /\ next' = 1 /\ missed' = missed \cup next .. head
        /\ UNCHANGED <<asked, fetching, reading, abandoned>>
        /\ Up' /\ Listening'
    BY <1>1, <1>20 DEF Interrupted, Breaks, workers, Up, Listening
  <2>2. \/ pending # NONE /\ UNCHANGED <<last, pending>>
        \/ /\ pending # NONE => m >= 1
           /\ last' = Slot(next) /\ pending' = [before |-> Slot(next)]
    BY <1>20 DEF Interrupted
  <2>3. /\ pending' \in [before : Slots \cup {NONE}] /\ last' \in Slots \cup {NONE}
        /\ pending' # NONE
    <3>1. pending' \in [before : Slots \cup {NONE}] /\ last' \in Slots \cup {NONE}
      BY <1>15, <2>2 DEF IInv, Main, Shape
    <3> QED BY <3>1, NoneAssumption
  <2>4. Busy' /\ (reading' = NONE \/ reading' \in Reads')
    BY <1>14, <2>1
  <2>5. Shape'
    <3>1. next' \in 1 .. head' + 1 /\ missed' \cup abandoned' \subseteq 1 .. head'
      BY <1>1, <1>5, <2>1 DEF IInv, Main, Shape
    <3> QED BY <1>5, <1>9, <1>10, <2>1, <2>3, <2>4, <3>1 DEF IInv, Main, Shape
  <2>6. ASSUME NEW j \in Inclusions, Unseen(j)
        PROVE  /\ last' # NONE => last' <= Slot(j)
               /\ pending'.before # NONE => pending'.before <= Slot(j)
    <3>1. j = next \/ next < j
      BY <1>1, <2>6, SigOf DEF Unseen, IInv, Main, Shape
    <3>2. Slot(next) <= Slot(j)
      BY <1>15, <1>16, <3>1
    <3>3. /\ last # NONE => last <= Slot(j)
          /\ pending # NONE /\ pending.before # NONE => pending.before <= Slot(j)
      BY <2>6 DEF IInv, Main, Order
    <3> QED BY <2>2, <3>2, <3>3
  <2>7. Order'
    <3>1. ASSUME NEW j \in Inclusions, Unseen(j)'
          PROVE  /\ j \notin missed'
                 /\ last' # NONE => last' <= Slot(j)
                 /\ pending'.before # NONE => pending'.before <= Slot(j)
                 /\ \A i \in DOMAIN gaps' : gaps'[i].after <= Slot(j)
      <4>1. j \in Nat /\ j > head /\ next < j /\ Unseen(j)
        BY <1>1, <1>5, <2>1, <3>1, SigOf DEF Unseen, IInv, Main, Shape
      <4>2. j \notin missed /\ j \notin next .. head
        BY <4>1 DEF IInv, Main, Order, Shape
      <4> QED BY <1>16, <2>1, <2>6, <4>1, <4>2
    <3>2. \A i, j \in Inclusions : i <= tip' /\ tip' < j => Slot(i) < Slot(j)
      BY <1>5 DEF IInv, Main, Order
    <3> QED BY <2>1, <3>1, <3>2 DEF Order
  <2>8. Jobs' /\ RowsKept
    BY <1>12, <1>20, <2>1, <2>5
  <2>9. Covered'
    <3> SUFFICES ASSUME NEW j \in missed', Counts(j)
                 PROVE  \/ Complete(Sig(j))' \/ Excused(j)'
                        \/ Recorded(j, gaps') /\ OpenFor(j)'
                        \/ ~Recorded(j, gaps') /\ Expected(j)'
      BY DEF Covered, Counts
    <3>1. CASE j \in missed
      <4>1. ASSUME Made(C, "gap") = {}, Expected(j)
            PROVE  gaps' = gaps /\ Expected(j)'
        <5>1. gaps' = gaps /\ ~(m >= 1) /\ pending # NONE
          BY <1>6, <1>7, <4>1 DEF Expected
        <5> QED BY <2>2, <4>1, <5>1 DEF Expected
      <4> QED BY <1>17, <2>1, <2>8, <3>1, <4>1
    <3>2. CASE j \notin missed
      <4>1. j \in next .. head
        BY <2>1, <3>2
      <4>2. j \in Inclusions /\ j \in Nat
        BY <1>1, <4>1, ChainKnown DEF IInv, Main, Shape
      <4>3. Unseen(j)
        BY <1>1, <4>1, <4>2 DEF Unseen, IInv, Main, Shape
      <4>4. ~Recorded(j, gaps)
        BY <4>2, <4>3, NotRecorded DEF IInv, Main
      <4>5. ~(Slot(j) < Slot(next))
        <5>1. j = next \/ next < j
          BY <1>1, <4>1, <4>2
        <5>2. Slot(next) <= Slot(j)
          BY <1>15, <1>16, <4>2, <5>1
        <5> QED BY <1>15, <4>2, <5>2, SigOf
      <4>6. ~Recorded(j, gaps')
        BY <1>9, <4>4, <4>5, InRange DEF Between
      <4>7. Expected(j)'
        BY <2>3, <2>6, <4>2, <4>3 DEF Expected
      <4> QED BY <4>6, <4>7
    <3> QED BY <3>1, <3>2
  <2>10. ReadSoFar'
    <3>1. reading' = reading /\ overlooked \subseteq overlooked'
      BY <1>5, <2>1
    <3> QED BY <1>9, <2>8, <3>1, ReadKept DEF IInv, Main
  <2> QED BY <1>13, <2>4, <2>5, <2>7, <2>8, <2>9, <2>10 DEF Main
<1> QED BY <1>6, <1>18, <1>19, <1>20

(* A step that only moves jobs on.                                         *)
LEMMA StepKeeps ==
    ASSUME IInv, Shape', Busy', JobsOnly, GapsKept, Clean',
           UNCHANGED <<head, tip, stage, next, last, pending, missed, abandoned, overlooked>>,
           reading' \in {reading, NONE}
    PROVE  Main'
<1>1. RowsKept
  BY DEF JobsOnly, RowsKept
<1>2. Order'
  BY OrderKept DEF IInv, Main
<1>3. Jobs'
  BY JobsKept DEF IInv, Main
<1>4. Covered'
  BY <1>1, CoveredKept DEF IInv, Main
<1>5. ReadSoFar'
  BY <1>1, ReadKept DEF IInv, Main, GapsKept
<1> QED BY <1>2, <1>3, <1>4, <1>5 DEF Main

(* Delays pass: jobs that were put back are due again.                     *)
LEMMA DueJobs ==
    ASSUME NEW q \in [Signatures -> JobStatus \cup {NONE}], NEW p, p = DueAgain(q)
    PROVE  /\ p \in [Signatures -> JobStatus \cup {NONE}]
           /\ \A s \in Signatures :
                 /\ p[s] = "IN_PROGRESS" <=> q[s] = "IN_PROGRESS"
                 /\ p[s] # NONE <=> q[s] # NONE
                 /\ q[s] \in Waits => p[s] \in Waits
                 /\ p[s] = "DONE" <=> q[s] = "DONE"
<1>1. p = [s \in Signatures |-> IF q[s] = "RETRY" THEN "PENDING" ELSE q[s]]
  BY DEF DueAgain
<1>2. /\ "PENDING" \in Waits /\ "RETRY" \in Waits /\ Waits \subseteq JobStatus
      /\ "PENDING" # NONE /\ "RETRY" # NONE
  BY NoneAssumption DEF Waits, JobStatus
<1>3. \A s \in Signatures : q[s] \in JobStatus \cup {NONE}
  OBVIOUS
<1> QED BY <1>1, <1>2, <1>3
-----------------------------------------------------------------------------
(* The confirmation worker.                                                *)
LEMMA PollKeeps == ASSUME IInv, Poll PROVE Main'
<1>0. /\ Up /\ asked = {} /\ Waiting(confirm) # {} /\ asked' = Batch
      /\ confirm' = [s \in Signatures |-> IF s \in asked' THEN "IN_PROGRESS" ELSE confirm[s]]
      /\ UNCHANGED <<head, tip, stage, next, last, pending, observed, event, enriched, deep, gaps,
                     fetching, reading, report, missed, abandoned, overlooked, cut, premature>>
  BY DEF Poll, stream, store, history
<1>1. /\ asked' \subseteq {s \in Signatures : confirm[s] = "PENDING"}
      /\ \A s \in Signatures : confirm'[s] = IF s \in asked' THEN "IN_PROGRESS" ELSE confirm[s]
  BY <1>0 DEF Batch, Waiting
<1>2. "PENDING" \in Waits /\ "IN_PROGRESS" \in Waits /\ "PENDING" # NONE /\ "IN_PROGRESS" # NONE
      /\ "IN_PROGRESS" \in JobStatus
  BY NoneAssumption DEF Waits, JobStatus
<1>3. Up'
  BY <1>0 DEF Up
<1>4. Shape'
  <2>1. confirm' \in [Signatures -> JobStatus \cup {NONE}]
    BY <1>0, <1>2 DEF IInv, Main, Shape
  <2>2. asked' \subseteq Signatures
    BY <1>1
  <2> QED BY <1>0, <2>1, <2>2 DEF IInv, Main, Shape, Reads
<1>5. Busy'
  <2>1. \A s \in Signatures : confirm[s] # "IN_PROGRESS"
    BY <1>0 DEF IInv, Main, Busy
  <2>2. asked' = {s \in Signatures : confirm'[s] = "IN_PROGRESS"}
    BY <1>1, <2>1
  <2> QED BY <1>0, <1>3, <2>2 DEF IInv, Main, Busy
<1>6. Order'
  BY <1>0, Kept, OrderKept DEF IInv, Main
<1>7. Jobs'
  <2>1. tip' >= tip
    BY <1>0 DEF IInv, Main, Shape
  <2>2. JobsOnly
    BY <1>0, <1>1, <1>2, <2>1 DEF JobsOnly
  <2> QED BY <1>4, <2>2, JobsKept DEF IInv, Main
<1>8. Covered'
  BY <1>0, Kept, CoveredKept DEF IInv, Main
<1>9. ReadSoFar'
  BY <1>0, Kept, ReadKept DEF IInv, Main
<1>10. Clean'
  <2>1. report # "clean"
    BY <1>0, CleanIdle
  <2> QED BY <1>0, <2>1 DEF Clean
<1> QED BY <1>4, <1>5, <1>6, <1>7, <1>8, <1>9, <1>10 DEF IInv, Main

(* The jobs after an answer: those told of are settled, the others wait.    *)
LEMMA Answered ==
    ASSUME Shape, NEW D, D \subseteq asked, NEW q, q = AfterPoll(D)
    PROVE  /\ q \in [Signatures -> JobStatus \cup {NONE}]
           /\ \A s \in Signatures : q[s] = IF s \in D THEN "DONE"
                                      ELSE IF s \in asked THEN "RETRY" ELSE confirm[s]
           /\ \A s \in Signatures : s \notin D => (confirm[s] \in Waits => q[s] \in Waits)
<1>1. "RETRY" \in Waits /\ "RETRY" \in JobStatus /\ "DONE" \in JobStatus
  BY DEF Waits, JobStatus
<1>2. \A s \in Signatures : q[s] = IF s \in D THEN "DONE"
                                ELSE IF s \in asked THEN "RETRY" ELSE confirm[s]
  BY DEF AfterPoll
<1>3. q \in [Signatures -> JobStatus \cup {NONE}]
  BY <1>1 DEF AfterPoll, Shape
<1> QED BY <1>1, <1>2, <1>3

LEMMA StatusesKeeps == ASSUME IInv, Statuses PROVE Main'
<1>0. /\ asked # {} /\ asked' = {}
      /\ UNCHANGED <<head, tip, stage, next, last, pending, observed, enriched, deep, gaps,
                     fetching, reading, report, missed, abandoned, overlooked, cut>>
  BY DEF Statuses, stream
<1>1. PICK F \in SUBSET asked : \E S \in SUBSET Told(F) : \E D \in SUBSET S :
          Settle(S, F) /\ confirm' = AfterPoll(D)
  BY DEF Statuses
<1>a. PICK S, D : /\ S \subseteq Told(F) /\ D \subseteq S
                  /\ Settle(S, F) /\ confirm' = AfterPoll(D)
  BY <1>1
<1>2. S \subseteq asked /\ D \subseteq asked
  BY <1>a DEF Told
<1>3. Up /\ asked = {s \in Signatures : confirm[s] = "IN_PROGRESS"} /\ Up'
  BY <1>0 DEF IInv, Main, Busy, Up
<1>4. /\ confirm' \in [Signatures -> JobStatus \cup {NONE}]
      /\ \A s \in Signatures : confirm'[s] = IF s \in D THEN "DONE"
                                      ELSE IF s \in asked THEN "RETRY" ELSE confirm[s]
      /\ \A s \in Signatures : s \notin D => (confirm[s] \in Waits => confirm'[s] \in Waits)
  BY <1>a, <1>2, Answered DEF IInv, Main
<1>5. "IN_PROGRESS" # NONE
  BY NoneAssumption DEF Waits
<1>6. RowsKept /\ DOMAIN event' = Signatures
      /\ \A s \in Signatures :
            event'[s] \in [Events(s) -> {"processed", "confirmed", "failed", NONE}]
  BY <1>a, SettledRows DEF IInv, Main
<1>7. GapsKept
  BY <1>0 DEF GapsKept
<1>8. Shape'
  BY <1>0, <1>4, <1>6 DEF IInv, Main, Shape, Reads
<1>9. Busy'
  <2>1. \A s \in Signatures : confirm'[s] # "IN_PROGRESS"
    BY <1>2, <1>3, <1>4
  <2> QED BY <1>0, <1>3, <2>1 DEF IInv, Main, Busy
<1>10. Order'
  BY <1>0, <1>7, OrderKept DEF IInv, Main
<1>11. Jobs'
  <2>1. \A s \in Signatures :
           /\ confirm'[s] # NONE => confirm[s] # NONE
           /\ s \notin S => (confirm[s] \in Waits => confirm'[s] \in Waits)
    BY <1>a, <1>2, <1>3, <1>4, <1>5
  <2> QED BY <1>0, <1>a, <1>8, <2>1, JobsSettled DEF IInv, Main
<1>12. Covered'
  BY <1>0, <1>6, <1>7, CoveredKept DEF IInv, Main
<1>13. ReadSoFar'
  BY <1>0, <1>6, ReadKept DEF IInv, Main
<1>14. Clean'
  <2>1. report # "clean"
    BY <1>0, CleanIdle
  <2> QED BY <1>0, <2>1 DEF Clean
<1> QED BY <1>8, <1>9, <1>10, <1>11, <1>12, <1>13, <1>14 DEF Main

LEMMA DieInStatusesKeeps == ASSUME IInv, DieInStatuses PROVE Main'
<1>0. /\ asked # {} /\ asked' = {} /\ fetching' = NONE /\ reading' = NONE
      /\ Ends("down", gaps')
      /\ UNCHANGED <<head, tip, observed, enriched, deep, gaps, report, overlooked, cut>>
  BY DEF DieInStatuses, Dies, Ends
<1>1. PICK F \in SUBSET asked : \E S \in SUBSET Told(F) : \E D \in SUBSET S :
          Settle(S, F) /\ confirm' = AfterPoll(D)
  BY DEF DieInStatuses
<1>a. PICK S, D : /\ S \subseteq Told(F) /\ D \subseteq S
                  /\ Settle(S, F) /\ confirm' = AfterPoll(D)
  BY <1>1
<1>2. S \subseteq asked /\ D \subseteq asked /\ GapsGrow /\ stage' = "down"
  BY <1>0, <1>a DEF Told, GapsGrow, Ends
<1>3. asked = {s \in Signatures : confirm[s] = "IN_PROGRESS"}
  BY <1>0 DEF IInv, Main, Busy, Up
<1>4. /\ confirm' \in [Signatures -> JobStatus \cup {NONE}]
      /\ \A s \in Signatures : confirm'[s] = IF s \in D THEN "DONE"
                                      ELSE IF s \in asked THEN "RETRY" ELSE confirm[s]
      /\ \A s \in Signatures : s \notin D => (confirm[s] \in Waits => confirm'[s] \in Waits)
  BY <1>a, <1>2, Answered DEF IInv, Main
<1>5. "IN_PROGRESS" # NONE
  BY NoneAssumption DEF Waits
<1>6. RowsKept /\ DOMAIN event' = Signatures
      /\ \A s \in Signatures :
            event'[s] \in [Events(s) -> {"processed", "confirmed", "failed", NONE}]
  BY <1>a, SettledRows DEF IInv, Main
<1>7. Shape'
  <2>1. /\ next' \in 1 .. head' + 1 /\ last' = NONE /\ pending' = NONE
        /\ missed' \cup abandoned' \subseteq 1 .. head'
    BY <1>0, EndsShape DEF IInv, Main
  <2> QED BY <1>0, <1>2, <1>4, <1>6, <2>1 DEF IInv, Main, Shape
<1>8. Busy'
  BY <1>0, <1>2 DEF Busy, Up
<1>9. Order'
  BY <1>0, <1>2, OrderEnds DEF IInv, Main
<1>10. Jobs'
  <2>1. \A s \in Signatures :
           /\ confirm'[s] # NONE => confirm[s] # NONE
           /\ s \notin S => (confirm[s] \in Waits => confirm'[s] \in Waits)
    BY <1>a, <1>2, <1>3, <1>4, <1>5
  <2> QED BY <1>0, <1>a, <1>7, <2>1, JobsSettled DEF IInv, Main
<1>11. Covered'
  BY <1>0, <1>2, <1>6, CoveredEnds DEF IInv, Main
<1>12. ReadSoFar'
  BY <1>0 DEF ReadSoFar
<1>13. Clean'
  <2>1. report # "clean"
    BY <1>0, CleanIdle
  <2> QED BY <1>0, <2>1 DEF Clean
<1> QED BY <1>7, <1>8, <1>9, <1>10, <1>11, <1>12, <1>13 DEF Main

LEMMA ConfirmationsDueKeeps == ASSUME IInv, ConfirmationsDue PROVE Main'
<1>0. /\ confirm' = DueAgain(confirm) /\ Resting(confirm) # {}
      /\ UNCHANGED <<head, tip, stage, next, last, pending, observed, event, enriched, deep, gaps,
                     asked, fetching, reading, report, missed, abandoned, overlooked, cut,
                     premature>>
  BY DEF ConfirmationsDue, stream, store, workers, history
<1>1. /\ confirm' \in [Signatures -> JobStatus \cup {NONE}]
      /\ \A s \in Signatures :
            /\ confirm'[s] = "IN_PROGRESS" <=> confirm[s] = "IN_PROGRESS"
            /\ confirm'[s] # NONE <=> confirm[s] # NONE
            /\ confirm[s] \in Waits => confirm'[s] \in Waits
  BY <1>0, DueJobs DEF IInv, Main, Shape
<1>2. Shape'
  BY <1>0, <1>1 DEF IInv, Main, Shape, Reads
<1>3. Busy'
  BY <1>0, <1>1 DEF IInv, Main, Busy, Up
<1>4. JobsOnly
  BY <1>0, <1>1 DEF JobsOnly, IInv, Main, Shape
<1>5. Clean'
  <2>1. report # "clean"
    BY <1>0, CleanIdle DEF Resting, Waits
  <2> QED BY <1>0, <2>1 DEF Clean
<1> QED BY <1>0, <1>2, <1>3, <1>4, <1>5, Kept, StepKeeps
-----------------------------------------------------------------------------
(* The deep worker.                                                        *)
LEMMA TakeLaunchKeeps == ASSUME IInv, NEW s \in Signatures, TakeLaunch(s) PROVE Main'
<1>0. /\ Up /\ fetching = NONE /\ deep[s] = "PENDING" /\ Confirmed(s)
      /\ fetching' = s /\ deep' = [deep EXCEPT ![s] = "IN_PROGRESS"]
      /\ UNCHANGED <<head, tip, stage, next, last, pending, observed, event, enriched, confirm,
                     gaps, asked, reading, report, missed, abandoned, overlooked, cut, premature>>
  BY DEF TakeLaunch, NextLaunch, Waiting, stream, store, history
<1>1. \A t \in Signatures : deep'[t] = IF t = s THEN "IN_PROGRESS" ELSE deep[t]
  BY <1>0 DEF IInv, Main, Shape
<1>2. "PENDING" # NONE /\ "IN_PROGRESS" # NONE /\ "IN_PROGRESS" \in JobStatus
      /\ NONE \notin Waits /\ "DONE" \notin Waits
  BY NoneAssumption DEF Waits, JobStatus
<1>3. Up'
  BY <1>0 DEF Up
<1>4. Shape'
  <2>1. deep' \in [Signatures -> JobStatus \cup {NONE}]
    BY <1>0, <1>2 DEF IInv, Main, Shape
  <2> QED BY <1>0, <2>1 DEF IInv, Main, Shape, Reads
<1>5. Busy'
  <2>1. \A t \in Signatures : deep[t] # "IN_PROGRESS"
    BY <1>0, NoneAssumption DEF IInv, Main, Busy
  <2>2. \A t \in Signatures : deep'[t] = "IN_PROGRESS" <=> fetching' = t
    BY <1>0, <1>1, <2>1
  <2> QED BY <1>0, <1>3, <2>2 DEF IInv, Main, Busy
<1>6. Order'
  BY <1>0, Kept, OrderKept DEF IInv, Main
<1>7. Jobs'
  <2>1. tip' >= tip
    BY <1>0 DEF IInv, Main, Shape
  <2>2. Settled(s)
    <3>1. confirm[s] \notin Waits
      BY <1>0, <1>2 DEF Confirmed
    <3> QED BY <1>0, <1>2, <3>1 DEF IInv, Main, Jobs, Settled
  <2>3. JobsOnly
    BY <1>0, <1>1, <1>2, <2>1, <2>2 DEF JobsOnly
  <2> QED BY <1>4, <2>3, JobsKept DEF IInv, Main
<1>8. Covered'
  BY <1>0, Kept, CoveredKept DEF IInv, Main
<1>9. ReadSoFar'
  BY <1>0, Kept, ReadKept DEF IInv, Main
<1>10. Clean'
  <2>1. report # "clean"
    BY <1>0, CleanIdle DEF Waits
  <2> QED BY <1>0, <2>1 DEF Clean
<1> QED BY <1>4, <1>5, <1>6, <1>7, <1>8, <1>9, <1>10 DEF IInv, Main

(* A launch is saved: it is settled, and the cluster has told how it ended.*)
LEMMA JobsFetched ==
    ASSUME IInv, Shape', NEW s \in Signatures, fetching = s, Landed(s),
           enriched' = enriched \cup {s}, fetching' = NONE,
           UNCHANGED <<tip, observed, event, confirm, cut, premature>>,
           \A t \in Signatures : /\ deep'[t] # NONE <=> deep[t] # NONE
                                 /\ deep'[t] = "DONE" => t = s \/ deep[t] = "DONE"
    PROVE  Jobs'
<1>1. deep[s] = "IN_PROGRESS" /\ deep[s] # NONE /\ deep'[s] # NONE
  BY NoneAssumption DEF IInv, Main, Busy, Up, Waits
<1>2. Settled(s)
  BY DEF IInv, Main, Jobs
<1>3. \A t : (Complete(t)' <=> Complete(t)) /\ (Settled(t)' <=> Settled(t))
             /\ (Landed(t)' <=> Landed(t))
  BY DEF Complete, Settled, Landed, Lives
<1>4. ASSUME NEW t \in Signatures
      PROVE  /\ confirm'[t] # NONE => observed'[t] # NONE
             /\ deep'[t] # NONE =>
                   /\ Complete(t)
                   /\ \A n \in Events(t) : event'[t][n] = "processed" => confirm'[t] \in Waits
             /\ t \in premature' \/
                   \A n \in Events(t) : event'[t][n] \in {NONE, "processed", Fate(t)}
             /\ fetching' = t => Settled(t)
             /\ t \in enriched' => deep'[t] # NONE /\ Settled(t) /\ Landed(t)
             /\ deep'[t] = "DONE" => t \in enriched'
             /\ t \notin cut' =>
                   /\ observed'[t] = "executed" => Complete(t)
                   /\ \A n \in Events(t) :
                         /\ event'[t][n] = "processed" => confirm'[t] \in Waits
                         /\ event'[t][n] # NONE /\ Payloads[t][n] = "launch" => deep'[t] # NONE
  BY <1>1, <1>2, NoneAssumption DEF IInv, Main, Jobs
<1> QED BY <1>3, <1>4 DEF Jobs, Fate, Lives

LEMMA LaunchFetchedKeeps == ASSUME IInv, LaunchFetched PROVE Main'
<1>0. /\ fetching # NONE /\ Landed(fetching) /\ enriched' = enriched \cup {fetching}
      /\ deep' = [deep EXCEPT ![fetching] = "DONE"] /\ fetching' = NONE
      /\ UNCHANGED <<head, tip, stage, next, last, pending, observed, event, confirm, gaps, asked,
                     reading, report, missed, abandoned, overlooked, cut, premature>>
  BY DEF LaunchFetched, stream, history
<1>1. PICK s \in Signatures : s = fetching
  BY <1>0 DEF IInv, Main, Shape
<1>2. \A t \in Signatures : deep'[t] = IF t = s THEN "DONE" ELSE deep[t]
  BY <1>0, <1>1 DEF IInv, Main, Shape
<1>3. Up /\ Up'
  BY <1>0 DEF IInv, Main, Busy, Up
<1>4. Shape'
  <2>1. deep' \in [Signatures -> JobStatus \cup {NONE}]
    BY <1>0 DEF IInv, Main, Shape, JobStatus
  <2> QED BY <1>0, <1>1, <2>1 DEF IInv, Main, Shape, Reads
<1>5. Busy'
  <2>1. \A t \in Signatures : deep[t] = "IN_PROGRESS" <=> s = t
    BY <1>1, <1>3 DEF IInv, Main, Busy
  <2>2. \A t \in Signatures : deep'[t] = "IN_PROGRESS" <=> fetching' = t
    BY <1>0, <1>2, <2>1, NoneAssumption
  <2> QED BY <1>0, <1>3, <2>2 DEF IInv, Main, Busy
<1>6. Order'
  BY <1>0, Kept, OrderKept DEF IInv, Main
<1>7. Jobs'
  <2>1. deep[s] = "IN_PROGRESS"
    BY <1>1, <1>3 DEF IInv, Main, Busy
  <2>2. \A t \in Signatures : /\ deep'[t] # NONE <=> deep[t] # NONE
                              /\ deep'[t] = "DONE" => t = s \/ deep[t] = "DONE"
    BY <1>2, <2>1, NoneAssumption DEF Waits
  <2> QED BY <1>0, <1>1, <1>4, <2>2, JobsFetched
<1>8. Covered'
  BY <1>0, Kept, CoveredKept DEF IInv, Main
<1>9. ReadSoFar'
  BY <1>0, Kept, ReadKept DEF IInv, Main
<1>10. Clean'
  <2>1. report # "clean"
    BY <1>0, CleanIdle
  <2> QED BY <1>0, <2>1 DEF Clean
<1> QED BY <1>4, <1>5, <1>6, <1>7, <1>8, <1>9, <1>10 DEF IInv, Main

LEMMA DieInFetchKeeps == ASSUME IInv, DieInFetch PROVE Main'
<1>0. /\ fetching # NONE /\ Landed(fetching) /\ enriched' = enriched \cup {fetching}
      /\ asked' = {} /\ fetching' = NONE /\ reading' = NONE /\ Ends("down", gaps')
      /\ UNCHANGED <<head, tip, observed, event, confirm, deep, gaps, report, overlooked, cut,
                     premature>>
  BY DEF DieInFetch, Dies, Ends, queues
<1>1. PICK s \in Signatures : s = fetching
  BY <1>0 DEF IInv, Main, Shape
<1>2. GapsGrow /\ stage' = "down"
  BY <1>0 DEF GapsGrow, Ends
<1>3. Shape'
  <2>1. /\ next' \in 1 .. head' + 1 /\ last' = NONE /\ pending' = NONE
        /\ missed' \cup abandoned' \subseteq 1 .. head'
    BY <1>0, EndsShape DEF IInv, Main
  <2> QED BY <1>0, <1>1, <1>2, <2>1 DEF IInv, Main, Shape
<1>4. Busy'
  BY <1>0, <1>2 DEF Busy, Up
<1>5. Order'
  BY <1>0, <1>2, OrderEnds DEF IInv, Main
<1>6. Jobs'
  BY <1>0, <1>1, <1>3, JobsFetched
<1>7. Covered'
  BY <1>0, <1>2, Kept, CoveredEnds DEF IInv, Main
<1>8. ReadSoFar'
  BY <1>0 DEF ReadSoFar
<1>9. Clean'
  <2>1. report # "clean"
    BY <1>0, CleanIdle
  <2> QED BY <1>0, <2>1 DEF Clean
<1> QED BY <1>3, <1>4, <1>5, <1>6, <1>7, <1>8, <1>9 DEF IInv, Main

LEMMA LaunchNotFetchedKeeps == ASSUME IInv, LaunchNotFetched PROVE Main'
<1>0. /\ fetching # NONE
      /\ deep' = [deep EXCEPT ![fetching] = "RETRY"] /\ fetching' = NONE
      /\ UNCHANGED <<head, tip, stage, next, last, pending, observed, event, enriched, confirm,
                     gaps, asked, reading, report, missed, abandoned, overlooked, cut, premature>>
  BY DEF LaunchNotFetched, stream, store, history
<1>1. PICK s \in Signatures : s = fetching
  BY <1>0 DEF IInv, Main, Shape
<1>2. \A t \in Signatures : deep'[t] = IF t = s THEN "RETRY" ELSE deep[t]
  BY <1>0, <1>1 DEF IInv, Main, Shape
<1>3. Up /\ Up'
  BY <1>0 DEF IInv, Main, Busy, Up
<1>4. Shape'
  <2>1. deep' \in [Signatures -> JobStatus \cup {NONE}]
    BY <1>0 DEF IInv, Main, Shape, JobStatus, Waits
  <2> QED BY <1>0, <1>1, <2>1 DEF IInv, Main, Shape, Reads
<1>5. \A t \in Signatures : deep[t] = "IN_PROGRESS" <=> s = t
  BY <1>1, <1>3 DEF IInv, Main, Busy
<1>6. Busy'
  <2>1. \A t \in Signatures : deep'[t] = "IN_PROGRESS" <=> fetching' = t
    BY <1>0, <1>2, <1>5, NoneAssumption
  <2> QED BY <1>0, <1>3, <2>1 DEF IInv, Main, Busy
<1>7. Order'
  BY <1>0, Kept, OrderKept DEF IInv, Main
<1>8. Jobs'
  <2>1. tip' >= tip
    BY <1>0 DEF IInv, Main, Shape
  <2>2. "RETRY" # NONE /\ "IN_PROGRESS" # NONE /\ "RETRY" # "DONE"
    BY NoneAssumption DEF Waits
  <2>3. JobsOnly
    BY <1>0, <1>2, <1>5, <2>1, <2>2, NoneAssumption DEF JobsOnly
  <2> QED BY <1>4, <2>3, JobsKept DEF IInv, Main
<1>9. Covered'
  BY <1>0, Kept, CoveredKept DEF IInv, Main
<1>10. ReadSoFar'
  BY <1>0, Kept, ReadKept DEF IInv, Main
<1>11. Clean'
  <2>1. report # "clean"
    BY <1>0, CleanIdle
  <2> QED BY <1>0, <2>1 DEF Clean
<1> QED BY <1>4, <1>6, <1>7, <1>8, <1>9, <1>10, <1>11 DEF IInv, Main

LEMMA PutBackKeeps == ASSUME IInv, NEW s \in Signatures, PutBack(s) PROVE Main'
<1>0. /\ deep[s] = "PENDING" /\ deep' = [deep EXCEPT ![s] = "RETRY"]
      /\ UNCHANGED <<head, tip, stage, next, last, pending, observed, event, enriched, confirm,
                     gaps, asked, fetching, reading, report, missed, abandoned, overlooked, cut,
                     premature>>
  BY DEF PutBack, NextLaunch, Waiting, stream, store, workers, history
<1>1. \A t \in Signatures : deep'[t] = IF t = s THEN "RETRY" ELSE deep[t]
  BY <1>0 DEF IInv, Main, Shape
<1>2. "RETRY" \in JobStatus /\ "RETRY" # NONE /\ "PENDING" # NONE
  BY NoneAssumption DEF Waits, JobStatus
<1>3. Shape'
  <2>1. deep' \in [Signatures -> JobStatus \cup {NONE}]
    BY <1>0, <1>2 DEF IInv, Main, Shape
  <2> QED BY <1>0, <2>1 DEF IInv, Main, Shape, Reads
<1>4. Busy'
  <2>1. \A t \in Signatures : deep'[t] = "IN_PROGRESS" <=> deep[t] = "IN_PROGRESS"
    BY <1>0, <1>1
  <2> QED BY <1>0, <2>1 DEF IInv, Main, Busy, Up
<1>5. JobsOnly
  BY <1>0, <1>1, <1>2 DEF JobsOnly, IInv, Main, Shape
<1>6. Clean'
  <2>1. report # "clean"
    BY <1>0, CleanIdle DEF Waits
  <2> QED BY <1>0, <2>1 DEF Clean
<1> QED BY <1>0, <1>3, <1>4, <1>5, <1>6, Kept, StepKeeps

LEMMA LaunchesDueKeeps == ASSUME IInv, LaunchesDue PROVE Main'
<1>0. /\ deep' = DueAgain(deep) /\ Resting(deep) # {}
      /\ UNCHANGED <<head, tip, stage, next, last, pending, observed, event, enriched, confirm,
                     gaps, asked, fetching, reading, report, missed, abandoned, overlooked, cut,
                     premature>>
  BY DEF LaunchesDue, stream, store, workers, history
<1>1. /\ deep' \in [Signatures -> JobStatus \cup {NONE}]
      /\ \A s \in Signatures :
            /\ deep'[s] = "IN_PROGRESS" <=> deep[s] = "IN_PROGRESS"
            /\ deep'[s] # NONE <=> deep[s] # NONE
            /\ deep'[s] = "DONE" <=> deep[s] = "DONE"
  BY <1>0, DueJobs DEF IInv, Main, Shape
<1>2. Shape'
  BY <1>0, <1>1 DEF IInv, Main, Shape, Reads
<1>3. Busy'
  BY <1>0, <1>1 DEF IInv, Main, Busy, Up
<1>4. JobsOnly
  BY <1>0, <1>1 DEF JobsOnly, IInv, Main, Shape
<1>5. Clean'
  <2>1. report # "clean"
    BY <1>0, CleanIdle DEF Resting, Waits
  <2> QED BY <1>0, <2>1 DEF Clean
<1> QED BY <1>0, <1>2, <1>3, <1>4, <1>5, Kept, StepKeeps
-----------------------------------------------------------------------------
(* The gap worker.                                                         *)
LEMMA JobMoved ==
    ASSUME NEW G \in Seq(GapJobs), NEW i \in DOMAIN G, NEW st \in JobStatus,
           NEW H, H = [G EXCEPT ![i].status = st]
    PROVE  /\ H \in Seq(GapJobs) /\ DOMAIN H = DOMAIN G
           /\ H[i].before = G[i].before /\ H[i].after = G[i].after /\ H[i].status = st
           /\ \A j \in DOMAIN G : j # i => H[j] = G[j]
<1>1. Len(G) \in Nat /\ DOMAIN G = 1 .. Len(G)
  BY LenProperties
<1>2. G[i] \in GapJobs
  BY <1>1, ElementOfSeq
<1>3. PICK g : g = [G[i] EXCEPT !.status = st]
  OBVIOUS
<1>4. g \in GapJobs /\ g.before = G[i].before /\ g.after = G[i].after /\ g.status = st
  BY <1>2, <1>3 DEF GapJobs
<1>5. H = [G EXCEPT ![i] = g]
  BY <1>3
<1>6. DOMAIN H = DOMAIN G /\ H[i] = g /\ \A j \in DOMAIN G : j # i => H[j] = G[j]
  BY <1>5
<1>7. H \in Seq(GapJobs)
  BY <1>4, <1>5, ExceptSeq
<1> QED BY <1>4, <1>6, <1>7

LEMMA ReadingKnown ==
    ASSUME IInv, reading # NONE
    PROVE  /\ reading \in Reads /\ reading.job \in DOMAIN gaps /\ reading.slots \subseteq Slots
           /\ Up /\ gaps[reading.job].status = "IN_PROGRESS" /\ report # "clean"
           /\ \A i \in DOMAIN gaps : gaps[i].status = "IN_PROGRESS" => i = reading.job
<1>1. reading \in Reads /\ reading.job \in DOMAIN gaps /\ reading.slots \subseteq Slots
  BY DEF IInv, Main, Shape, Reads
<1>2. Up
  BY DEF IInv, Main, Busy
<1>3. report # "clean"
  BY CleanIdle
<1> QED BY <1>1, <1>2, <1>3 DEF IInv, Main, Busy

LEMMA TakeGapKeeps == ASSUME IInv, NEW i \in DOMAIN gaps, TakeGap(i) PROVE Main'
<1>0. /\ Up /\ reading = NONE /\ gaps[i].status = "PENDING"
      /\ gaps' = [gaps EXCEPT ![i].status = "IN_PROGRESS"]
      /\ reading' = [job |-> i, slots |-> Span(gaps[i]) \cap BlockSlots]
      /\ overlooked' = overlooked \cup (Span(gaps[i]) \ {Slot(k) : k \in 1 .. tip})
      /\ UNCHANGED <<head, tip, stage, next, last, pending, observed, event, enriched, confirm,
                     deep, asked, fetching, report, missed, abandoned, cut, premature>>
  BY DEF TakeGap, NextGap, stream, store
<1>1. "IN_PROGRESS" \in JobStatus /\ "IN_PROGRESS" \in Waits
  BY DEF Waits, JobStatus
<1>2. gaps \in Seq(GapJobs)
  BY DEF IInv, Main, Shape
<1>3. /\ gaps' \in Seq(GapJobs) /\ DOMAIN gaps' = DOMAIN gaps
      /\ gaps'[i].before = gaps[i].before /\ gaps'[i].after = gaps[i].after
      /\ gaps'[i].status = "IN_PROGRESS"
      /\ \A j \in DOMAIN gaps : j # i => gaps'[j] = gaps[j]
  BY <1>0, <1>1, <1>2, JobMoved, SMTT(30)
<1>4. BlockSlots \subseteq Slots /\ tip \in Nat /\ \A k \in 1 .. tip : k \in Inclusions
  <2>1. \A k \in 1 .. tip : k \in Inclusions
    BY ChainKnown DEF IInv, Main, Shape
  <2> QED BY <2>1, SigOf DEF BlockSlots, IInv, Main, Shape
<1>5. reading' # NONE /\ reading'.job = i /\ reading'.slots = Span(gaps[i]) \cap BlockSlots
      /\ reading' \in Reads'
  <2>1. i \in Nat
    BY <1>2, LenProperties
  <2>2. reading' \in [job : Nat, slots : SUBSET Slots]
    BY <1>0, <1>4, <2>1
  <2>3. reading' \in Reads'
    BY <1>0, <1>3, <1>4 DEF Reads
  <2> QED BY <1>0, <2>2, <2>3, NoneAssumption
<1>6. GapsKept /\ RowsKept
  BY <1>0, <1>1, <1>3 DEF GapsKept, RowsKept
<1>7. Up'
  BY <1>0 DEF Up
<1>8. Shape'
  BY <1>0, <1>3, <1>5 DEF IInv, Main, Shape
<1>9. Busy'
  <2>1. \A j \in DOMAIN gaps : gaps[j].status # "IN_PROGRESS"
    BY <1>0 DEF IInv, Main, Busy
  <2>2. \A j \in DOMAIN gaps' : gaps'[j].status = "IN_PROGRESS" <=> reading'.job = j
    BY <1>3, <1>5, <2>1
  <2> QED BY <1>0, <1>5, <1>7, <2>2 DEF IInv, Main, Busy
<1>10. Order'
  BY <1>0, <1>6, OrderKept DEF IInv, Main
<1>11. Jobs'
  <2>1. tip' >= tip
    BY <1>0 DEF IInv, Main, Shape
  <2>2. JobsOnly
    BY <1>0, <2>1 DEF JobsOnly
  <2> QED BY <1>8, <2>2, JobsKept DEF IInv, Main
<1>12. Covered'
  BY <1>0, <1>6, CoveredKept DEF IInv, Main
<1>13. ReadSoFar'
  <2> SUFFICES ASSUME NEW k \in Inclusions, Counts(k), Between(k, gaps'[i])
               PROVE  Slot(k) \in reading'.slots \/ Slot(k) \in overlooked'
    BY <1>5 DEF ReadSoFar, Counts, Between
  <2>1. gaps[i].before # NONE /\ gaps[i].before < Slot(k) /\ Slot(k) < gaps[i].after
    BY <1>3 DEF Between
  <2>2. gaps[i] \in GapJobs
    BY <1>2, ElementOfSeq, LenProperties
  <2>3. gaps[i].before \in Nat /\ gaps[i].after \in Nat /\ Slot(k) \in Nat /\ k \in Nat
    BY <2>1, <2>2, SigOf DEF GapJobs, Slots
  <2>4. Slot(k) \in Span(gaps[i])
    BY <2>1, <2>3 DEF Span, Interior
  <2>5. CASE k <= tip
    <3>1. k \in 1 .. tip /\ Chain[k].lives
      BY <1>4, <2>3, <2>5, ChainKnown DEF Counts
    <3>2. Slot(k) \in BlockSlots
      BY <3>1 DEF BlockSlots
    <3> QED BY <1>5, <2>4, <3>2
  <2>6. CASE ~(k <= tip)
    <3>1. ASSUME NEW j \in 1 .. tip PROVE Slot(j) # Slot(k)
      <4>1. j \in Inclusions /\ j <= tip /\ tip < k
        BY <1>4, <2>3, <2>6
      <4>2. Slot(j) < Slot(k)
        BY <4>1 DEF IInv, Main, Order
      <4> QED BY <2>3, <4>1, <4>2, SigOf
    <3>2. Slot(k) \notin {Slot(j) : j \in 1 .. tip}
      BY <3>1
    <3> QED BY <1>0, <2>4, <3>2
  <2> QED BY <2>5, <2>6
<1>14. Clean'
  <2>1. report # "clean"
    BY <1>0, CleanIdle DEF Waits
  <2> QED BY <1>0, <2>1 DEF Clean
<1> QED BY <1>8, <1>9, <1>10, <1>11, <1>12, <1>13, <1>14 DEF IInv, Main

LEMMA GapFailsKeeps == ASSUME IInv, GapFails PROVE Main'
<1>0. /\ reading # NONE /\ reading' = NONE
      /\ gaps' = [gaps EXCEPT ![reading.job].status = "RETRY"]
      /\ UNCHANGED <<head, tip, stage, next, last, pending, observed, event, enriched, confirm,
                     deep, asked, fetching, report, missed, abandoned, overlooked, cut, premature>>
  BY DEF GapFails, GapRetried, stream, store, history
<1>1. PICK i \in DOMAIN gaps : i = reading.job
  BY <1>0, ReadingKnown
<1>2. "RETRY" \in JobStatus /\ "RETRY" \in Waits /\ "RETRY" # "IN_PROGRESS"
  BY DEF Waits, JobStatus
<1>3. /\ gaps' \in Seq(GapJobs) /\ DOMAIN gaps' = DOMAIN gaps
      /\ gaps'[i].before = gaps[i].before /\ gaps'[i].after = gaps[i].after
      /\ gaps'[i].status = "RETRY"
      /\ \A j \in DOMAIN gaps : j # i => gaps'[j] = gaps[j]
  BY <1>0, <1>1, <1>2, JobMoved DEF IInv, Main, Shape
<1>4. GapsKept /\ RowsKept
  BY <1>0, <1>2, <1>3 DEF GapsKept, RowsKept
<1>5. Up /\ Up'
  BY <1>0, ReadingKnown DEF Up
<1>6. Shape'
  BY <1>0, <1>3 DEF IInv, Main, Shape
<1>7. Busy'
  <2>1. \A j \in DOMAIN gaps' : gaps'[j].status # "IN_PROGRESS"
    BY <1>0, <1>1, <1>2, <1>3, ReadingKnown
  <2> QED BY <1>0, <1>5, <2>1 DEF IInv, Main, Busy
<1>8. Order'
  BY <1>0, <1>4, OrderKept DEF IInv, Main
<1>9. Jobs'
  <2>1. tip' >= tip
    BY <1>0 DEF IInv, Main, Shape
  <2>2. JobsOnly
    BY <1>0, <2>1 DEF JobsOnly
  <2> QED BY <1>6, <2>2, JobsKept DEF IInv, Main
<1>10. Covered'
  BY <1>0, <1>4, CoveredKept DEF IInv, Main
<1>11. ReadSoFar'
  BY <1>0 DEF ReadSoFar
<1>12. Clean'
  BY <1>0, ReadingKnown DEF Clean
<1> QED BY <1>6, <1>7, <1>8, <1>9, <1>10, <1>11, <1>12 DEF IInv, Main

LEMMA PutGapBackKeeps == ASSUME IInv, NEW i \in DOMAIN gaps, PutGapBack(i) PROVE Main'
<1>0. /\ gaps[i].status = "PENDING" /\ gaps' = [gaps EXCEPT ![i].status = "RETRY"]
      /\ UNCHANGED <<head, tip, stage, next, last, pending, observed, event, enriched, confirm,
                     deep, asked, fetching, reading, report, missed, abandoned, overlooked, cut,
                     premature>>
  BY DEF PutGapBack, NextGap, stream, store, workers, history
<1>1. "RETRY" \in JobStatus /\ "RETRY" \in Waits /\ gaps \in Seq(GapJobs)
  BY DEF Waits, JobStatus, IInv, Main, Shape
<1>2. /\ gaps' \in Seq(GapJobs) /\ DOMAIN gaps' = DOMAIN gaps
      /\ gaps'[i].before = gaps[i].before /\ gaps'[i].after = gaps[i].after
      /\ gaps'[i].status = "RETRY"
      /\ \A j \in DOMAIN gaps : j # i => gaps'[j] = gaps[j]
  BY <1>0, <1>1, JobMoved, SMTT(30)
<1>3. GapsKept
  BY <1>1, <1>2 DEF GapsKept
<1>4. Shape'
  BY <1>0, <1>2 DEF IInv, Main, Shape, Reads
<1>5. Busy'
  <2>1. \A j \in DOMAIN gaps : gaps'[j].status = "IN_PROGRESS" <=> gaps[j].status = "IN_PROGRESS"
    BY <1>0, <1>2
  <2> QED BY <1>0, <1>2, <2>1 DEF IInv, Main, Busy, Up
<1>6. JobsOnly
  BY <1>0 DEF JobsOnly, IInv, Main, Shape
<1>7. Clean'
  <2>1. report # "clean"
    BY <1>0, CleanIdle DEF Waits
  <2> QED BY <1>0, <2>1 DEF Clean
<1> QED BY <1>0, <1>3, <1>4, <1>5, <1>6, <1>7, StepKeeps

LEMMA DueGaps ==
    ASSUME NEW G \in Seq(GapJobs),
           NEW H, H = [i \in DOMAIN G |-> IF G[i].status = "RETRY"
                                         THEN [G[i] EXCEPT !.status = "PENDING"] ELSE G[i]]
    PROVE  /\ H \in Seq(GapJobs) /\ DOMAIN H = DOMAIN G
           /\ \A i \in DOMAIN G :
                 /\ H[i].before = G[i].before /\ H[i].after = G[i].after
                 /\ H[i].status = IF G[i].status = "RETRY" THEN "PENDING" ELSE G[i].status
<1>1. Len(G) \in Nat /\ DOMAIN G = 1 .. Len(G)
  BY LenProperties
<1>2. \A i \in DOMAIN G : G[i] \in GapJobs
  BY <1>1, ElementOfSeq
<1>3. /\ DOMAIN H = 1 .. Len(G) /\ H = [i \in 1 .. Len(G) |-> H[i]]
      /\ \A i \in DOMAIN G : H[i] = IF G[i].status = "RETRY"
                                    THEN [G[i] EXCEPT !.status = "PENDING"] ELSE G[i]
  BY <1>1
<1>4. "PENDING" \in JobStatus
  BY DEF Waits, JobStatus
<1>5. ASSUME NEW i \in DOMAIN G
      PROVE  /\ H[i] \in GapJobs /\ H[i].before = G[i].before /\ H[i].after = G[i].after
             /\ H[i].status = IF G[i].status = "RETRY" THEN "PENDING" ELSE G[i].status
  <2>1. CASE G[i].status = "RETRY"
    <3>1. H[i] = [G[i] EXCEPT !.status = "PENDING"] /\ G[i] \in GapJobs
      BY <1>2, <1>3, <2>1
    <3> QED BY <1>4, <2>1, <3>1 DEF GapJobs
  <2>2. CASE G[i].status # "RETRY"
    BY <1>2, <1>3, <2>2
  <2> QED BY <2>1, <2>2
<1>6. H \in Seq(GapJobs)
  BY <1>1, <1>3, <1>5, SeqDef
<1> QED BY <1>1, <1>3, <1>5, <1>6

LEMMA GapsDueKeeps == ASSUME IInv, GapsDue PROVE Main'
<1>0. /\ \E i \in DOMAIN gaps : gaps[i].status = "RETRY"
      /\ gaps' = [i \in DOMAIN gaps |-> IF gaps[i].status = "RETRY"
                                        THEN [gaps[i] EXCEPT !.status = "PENDING"] ELSE gaps[i]]
      /\ UNCHANGED <<head, tip, stage, next, last, pending, observed, event, enriched, confirm,
                     deep, asked, fetching, reading, report, missed, abandoned, overlooked, cut,
                     premature>>
  BY DEF GapsDue, stream, store, workers, history
<1>1. /\ gaps' \in Seq(GapJobs) /\ DOMAIN gaps' = DOMAIN gaps
      /\ \A i \in DOMAIN gaps :
            /\ gaps'[i].before = gaps[i].before /\ gaps'[i].after = gaps[i].after
            /\ gaps'[i].status = IF gaps[i].status = "RETRY" THEN "PENDING" ELSE gaps[i].status
  BY <1>0, DueGaps DEF IInv, Main, Shape
<1>2. GapsKept
  BY <1>1 DEF GapsKept, Waits
<1>3. Shape'
  BY <1>0, <1>1 DEF IInv, Main, Shape, Reads
<1>4. Busy'
  <2>1. \A j \in DOMAIN gaps : gaps'[j].status = "IN_PROGRESS" <=> gaps[j].status = "IN_PROGRESS"
    BY <1>1
  <2> QED BY <1>0, <1>1, <2>1 DEF IInv, Main, Busy, Up
<1>5. JobsOnly
  BY <1>0 DEF JobsOnly, IInv, Main, Shape
<1>6. Clean'
  <2>1. report # "clean"
    BY <1>0, CleanIdle DEF Waits
  <2> QED BY <1>0, <2>1 DEF Clean
<1> QED BY <1>0, <1>2, <1>3, <1>4, <1>5, <1>6, StepKeeps

LEMMA GapReadKeeps == ASSUME IInv, GapRead PROVE Main'
<1>0. /\ reading # NONE /\ reading.slots = {} /\ reading' = NONE
      /\ gaps' = [gaps EXCEPT ![reading.job].status = "DONE"]
      /\ UNCHANGED <<head, tip, stage, next, last, pending, observed, event, enriched, confirm,
                     deep, asked, fetching, report, missed, abandoned, overlooked, cut, premature>>
  BY DEF GapRead, stream, store, history
<1>1. PICK i \in DOMAIN gaps : i = reading.job
  BY <1>0, ReadingKnown
<1>2. "DONE" \in JobStatus
  BY DEF JobStatus
<1>3. /\ gaps' \in Seq(GapJobs) /\ DOMAIN gaps' = DOMAIN gaps
      /\ gaps'[i].before = gaps[i].before /\ gaps'[i].after = gaps[i].after
      /\ gaps'[i].status = "DONE"
      /\ \A j \in DOMAIN gaps : j # i => gaps'[j] = gaps[j]
  BY <1>0, <1>1, <1>2, JobMoved DEF IInv, Main, Shape
<1>4. RowsKept
  BY <1>0 DEF RowsKept
<1>5. Up /\ Up'
  BY <1>0, ReadingKnown DEF Up
<1>6. Shape'
  BY <1>0, <1>3 DEF IInv, Main, Shape
<1>7. Busy'
  <2>1. \A j \in DOMAIN gaps' : gaps'[j].status # "IN_PROGRESS"
    BY <1>0, <1>1, <1>3, ReadingKnown
  <2> QED BY <1>0, <1>5, <2>1 DEF IInv, Main, Busy
<1>8. Order'
  <2>1. \A j \in DOMAIN gaps' : j \in DOMAIN gaps /\ gaps'[j].after = gaps[j].after
    BY <1>3
  <2> QED BY <1>0, <2>1 DEF IInv, Main, Order, Unseen, Listening
<1>9. Jobs'
  <2>1. tip' >= tip
    BY <1>0 DEF IInv, Main, Shape
  <2>2. JobsOnly
    BY <1>0, <2>1 DEF JobsOnly
  <2> QED BY <1>6, <2>2, JobsKept DEF IInv, Main
<1>10. Covered'
  <2> SUFFICES ASSUME NEW k \in missed, Counts(k)
               PROVE  \/ Complete(Sig(k)) \/ Excused(k)'
                      \/ Recorded(k, gaps') /\ OpenFor(k)'
                      \/ ~Recorded(k, gaps') /\ Expected(k)
    BY <1>0 DEF Covered, Counts, Complete, Expected
  <2>1. k \in Inclusions
    BY MissedKnown DEF IInv, Main
  <2>2. \A j \in DOMAIN gaps : Between(k, gaps'[j]) <=> Between(k, gaps[j])
    BY <1>3 DEF Between
  <2>3. /\ Recorded(k, gaps') <=> Recorded(k, gaps)
        /\ Outside(k, gaps') <=> Outside(k, gaps)
    BY <1>3, <2>2, InRange
  <2>4. Excused(k)' <=> Excused(k)
    BY <1>0, <2>3 DEF Excused
  <2>5. OpenFor(k) => OpenFor(k)' \/ Complete(Sig(k)) \/ Excused(k)
    <3>1. ASSUME NEW j \in DOMAIN gaps, gaps[j].status \in Waits, Between(k, gaps[j])
          PROVE  OpenFor(k)' \/ Complete(Sig(k)) \/ Excused(k)
      <4>1. CASE j = i
        <5>1. Complete(Sig(k)) \/ Slot(k) \in overlooked
          BY <1>0, <1>1, <2>1, <3>1, <4>1 DEF IInv, Main, ReadSoFar
        <5> QED BY <5>1 DEF Excused
      <4>2. CASE j # i
        BY <1>3, <2>2, <3>1, <4>2 DEF OpenFor
      <4> QED BY <4>1, <4>2
    <3> QED BY <3>1 DEF OpenFor
  <2> QED BY <2>3, <2>4, <2>5 DEF IInv, Main, Covered
<1>11. ReadSoFar'
  BY <1>0 DEF ReadSoFar
<1>12. Clean'
  BY <1>0, ReadingKnown DEF Clean
<1> QED BY <1>6, <1>7, <1>8, <1>9, <1>10, <1>11, <1>12 DEF IInv, Main

LEMMA NextSlotKnown ==
    ASSUME IInv, AtBlock
    PROVE  NextSlot \in reading.slots /\ reading # NONE
<1>1. reading # NONE /\ reading.slots # {} /\ reading.slots \subseteq Slots
  BY ReadingKnown DEF AtBlock
<1>2. reading.slots \subseteq Nat
  BY <1>1, SigOf DEF Slots
<1>3. \E l \in reading.slots : \A o \in reading.slots : l <= o
  BY <1>1, <1>2, LeastExists
<1> QED BY <1>1, <1>3 DEF NextSlot

(* The transactions of a block count.                                      *)
LEMMA InBlockCounts == \A slot : InBlock(slot) \subseteq Inclusions
                                 /\ \A k \in InBlock(slot) : Counts(k) /\ Slot(k) = slot
BY DEF InBlock, Counts

(* The rows and jobs after a block, or part of one, are of their kinds.    *)
LEMMA StoredShape ==
    ASSUME Shape, NEW C, NEW K, K \subseteq Inclusions, \A k \in K : Counts(k),
           BlockOf(C, K), StoreBlock(C)
    PROVE  /\ DOMAIN event' = Signatures
           /\ \A s \in Signatures :
                 event'[s] \in [Events(s) -> {"processed", "confirmed", "failed", NONE}]
           /\ deep' \in [Signatures -> JobStatus \cup {NONE}]
           /\ \A s \in Signatures : deep'[s] = "IN_PROGRESS" <=> deep[s] = "IN_PROGRESS"
<1>1. "PENDING" \in JobStatus /\ NONE # "IN_PROGRESS"
  BY NoneAssumption DEF JobStatus, Waits
<1>2. DOMAIN event' = Signatures
  BY DEF StoreBlock
<1>3. \A s \in Signatures :
         event'[s] \in [Events(s) -> {"processed", "confirmed", "failed", NONE}]
  BY BlockRows
<1>4. deep' \in [Signatures -> JobStatus \cup {NONE}]
  BY <1>1 DEF StoreBlock, QueuedOnce, Shape
<1>5. \A s \in Signatures :
         deep'[s] = IF s \in Made(C, "deep") /\ deep[s] = NONE THEN "PENDING" ELSE deep[s]
  BY DEF StoreBlock, QueuedOnce
<1>6. \A s \in Signatures : deep'[s] = "IN_PROGRESS" <=> deep[s] = "IN_PROGRESS"
  BY <1>1, <1>5
<1> QED BY <1>2, <1>3, <1>4, <1>6

LEMMA ReadBlockKeeps == ASSUME IInv, ReadBlock PROVE Main'
<1>0. /\ AtBlock /\ StoreBlock(Block(NextSlot))
      /\ reading' = [reading EXCEPT !.slots = @ \ {NextSlot}]
      /\ UNCHANGED <<stage, next, last, pending, gaps, asked, fetching, missed, abandoned, cut>>
  BY DEF ReadBlock, stream
<1>1. UNCHANGED <<head, tip, observed, enriched, confirm, gaps, report, overlooked, premature>>
  BY <1>0 DEF StoreBlock
<1>2. PICK slot : slot = NextSlot
  OBVIOUS
<1>3. PICK K : K = InBlock(slot)
  OBVIOUS
<1>4. PICK C : C = Recovered(K)
  OBVIOUS
<1>5. StoreBlock(C)
  BY <1>0, <1>2, <1>3, <1>4 DEF Block
<1>6. K \subseteq Inclusions /\ \A k \in K : Counts(k)
  BY <1>3, InBlockCounts
<1>7. BlockOf(C, K) /\ AllOf(C, K)
  BY <1>4, <1>6, RecoveredBlock
<1>8. slot \in reading.slots /\ reading # NONE /\ reading \in Reads /\ Up /\ report # "clean"
  BY <1>0, <1>2, NextSlotKnown, ReadingKnown
<1>9. /\ reading'.job = reading.job /\ reading'.slots = reading.slots \ {slot}
      /\ reading' \in Reads' /\ reading' # NONE
  <2>1. /\ reading'.job = reading.job /\ reading'.slots = reading.slots \ {slot}
        /\ reading' \in Reads
    BY <1>0, <1>2, <1>8 DEF Reads
  <2>2. Reads \subseteq [job : Nat, slots : SUBSET Slots]
    BY LenProperties DEF Reads, IInv, Main, Shape
  <2>3. reading' # NONE
    BY <2>1, <2>2, NoneAssumption
  <2> QED BY <1>1, <2>1, <2>3 DEF Reads
<1>10. /\ DOMAIN event' = Signatures
       /\ \A s \in Signatures :
             event'[s] \in [Events(s) -> {"processed", "confirmed", "failed", NONE}]
       /\ deep' \in [Signatures -> JobStatus \cup {NONE}]
       /\ \A s \in Signatures : deep'[s] = "IN_PROGRESS" <=> deep[s] = "IN_PROGRESS"
  BY <1>5, <1>6, <1>7, StoredShape DEF IInv, Main
<1>11. Shape'
  BY <1>0, <1>1, <1>9, <1>10 DEF IInv, Main, Shape
<1>12. Busy'
  BY <1>0, <1>1, <1>8, <1>9, <1>10 DEF IInv, Main, Busy, Up
<1>13. GapsKept
  BY <1>1 DEF GapsKept
<1>14. Order'
  BY <1>0, <1>1, <1>13, OrderKept DEF IInv, Main
<1>15. Jobs' /\ RowsKept
  <2>1. \A s \in Signatures : \A n \in Stored(C, s) :
            s \notin cut' /\ event[s][n] = NONE /\ Payloads[s][n] = "launch"
               => s \in Made(C, "deep")
    <3>1. ASSUME NEW s \in Signatures, NEW n \in Stored(C, s), event[s][n] = NONE,
                 Payloads[s][n] = "launch"
          PROVE  s \in Made(C, "deep")
      <4>1. n \in Events(s) /\ Commit("event", s, n) \in C
        BY DEF Stored
      <4>2. NewLaunch(s)
        BY <3>1, <4>1 DEF NewLaunch
      <4>3. Commit("event", s, n).sig = s
        BY DEF Commit
      <4>4. PICK k \in K : s = Sig(k)
        BY <1>7, <4>1, <4>3 DEF BlockOf
      <4> QED BY <1>7, <4>2, <4>4 DEF AllOf
    <3> QED BY <3>1
  <2>2. fetching' \in {fetching, NONE} /\ cut \subseteq cut'
    BY <1>0
  <2> QED BY <1>5, <1>6, <1>7, <1>11, <2>1, <2>2, JobsStored DEF IInv, Main
<1>16. Covered'
  BY <1>0, <1>1, <1>13, <1>15, CoveredKept DEF IInv, Main
<1>17. ReadSoFar'
  <2> SUFFICES ASSUME NEW k \in Inclusions, Counts(k), Between(k, gaps[reading.job])
               PROVE  Complete(Sig(k))' \/ Slot(k) \in reading'.slots \/ Slot(k) \in overlooked
    BY <1>1, <1>9 DEF ReadSoFar, Counts, Between
  <2>1. Complete(Sig(k)) \/ Slot(k) \in reading.slots \/ Slot(k) \in overlooked
    BY <1>8 DEF IInv, Main, ReadSoFar
  <2>2. Sig(k) \in Signatures
    BY SigOf
  <2>3. Complete(Sig(k)) => Complete(Sig(k))'
    BY <1>15, <2>2, CompleteKept
  <2>4. ASSUME Slot(k) = slot PROVE Complete(Sig(k))'
    <3>1. k \in K
      BY <1>3, <2>4 DEF InBlock, Counts
    <3>2. EventsOf(Sig(k)) \subseteq C
      BY <1>7, <3>1 DEF AllOf
    <3>3. \A n \in Events(Sig(k)) : event'[Sig(k)][n] # NONE
      BY <1>5, <1>6, <1>7, <2>2, <3>2, BlockRows DEF IInv, Main
    <3> QED BY <3>3 DEF Complete
  <2> QED BY <1>9, <2>1, <2>3, <2>4
<1>18. Clean'
  BY <1>1, <1>8 DEF Clean
<1> QED BY <1>11, <1>12, <1>14, <1>15, <1>16, <1>17, <1>18 DEF IInv, Main

(* Part of a block is stored: what is cut off without its job is known.    *)
StoredPart(C, L) ==
    /\ L \subseteq Inclusions /\ (\A j \in L : Counts(j)) /\ BlockOf(C, L) /\ StoreBlock(C)
    /\ cut' = cut \cup {s \in Made(C, "event") \ Made(C, "deep") : HasLaunch(s)}

LEMMA PartKnown == ASSUME PartOfIt PROVE \E C, L : StoredPart(C, L)
<1>1. PICK slot : slot = NextSlot
  OBVIOUS
<1>2. PICK k \in InBlock(slot) : \E m \in 0 .. Len(Recovery(Sig(k))) - 1 :
          LET C == Recovered({j \in InBlock(slot) : j < k})
                   \cup Range(SubSeq(Recovery(Sig(k)), 1, m)) IN
          /\ StoreBlock(C)
          /\ cut' = cut \cup {s \in Made(C, "event") \ Made(C, "deep") : HasLaunch(s)}
  BY <1>1 DEF PartOfIt
<1>3. PICK m \in 0 .. Len(Recovery(Sig(k))) - 1 :
          LET C == Recovered({j \in InBlock(slot) : j < k})
                   \cup Range(SubSeq(Recovery(Sig(k)), 1, m)) IN
          /\ StoreBlock(C)
          /\ cut' = cut \cup {s \in Made(C, "event") \ Made(C, "deep") : HasLaunch(s)}
  BY <1>2
<1>4. PICK K : K = {j \in InBlock(slot) : j < k}
  OBVIOUS
<1>5. PICK C : C = Recovered(K) \cup Range(SubSeq(Recovery(Sig(k)), 1, m))
  OBVIOUS
<1>6. /\ StoreBlock(C)
      /\ cut' = cut \cup {s \in Made(C, "event") \ Made(C, "deep") : HasLaunch(s)}
  BY <1>3, <1>4, <1>5
<1>7. k \in Inclusions /\ K \subseteq Inclusions /\ K \cup {k} \subseteq Inclusions
      /\ \A j \in K \cup {k} : Counts(j)
  BY <1>4, InBlockCounts
<1>8. BlockOf(C, K \cup {k})
  BY <1>5, <1>7, PartOfBlock
<1> QED BY <1>6, <1>7, <1>8 DEF StoredPart

LEMMA PartStored ==
    ASSUME IInv, PartOfIt
    PROVE  /\ UNCHANGED <<head, tip, observed, enriched, confirm, report, overlooked, premature>>
           /\ AtBlock /\ reading # NONE
           /\ DOMAIN event' = Signatures
           /\ \A s \in Signatures :
                 event'[s] \in [Events(s) -> {"processed", "confirmed", "failed", NONE}]
           /\ deep' \in [Signatures -> JobStatus \cup {NONE}]
           /\ \A s \in Signatures : deep'[s] = "IN_PROGRESS" <=> deep[s] = "IN_PROGRESS"
           /\ Shape' /\ fetching' \in {fetching, NONE} => Jobs' /\ RowsKept
<1>1. PICK C, L : StoredPart(C, L)
  BY PartKnown
<1>2. /\ L \subseteq Inclusions /\ (\A j \in L : Counts(j)) /\ BlockOf(C, L) /\ StoreBlock(C)
      /\ cut' = cut \cup {s \in Made(C, "event") \ Made(C, "deep") : HasLaunch(s)}
  BY <1>1 DEF StoredPart
<1>3. UNCHANGED <<head, tip, observed, enriched, confirm, report, overlooked, premature>>
  BY <1>2 DEF StoreBlock
<1>4. /\ DOMAIN event' = Signatures
      /\ \A s \in Signatures :
            event'[s] \in [Events(s) -> {"processed", "confirmed", "failed", NONE}]
      /\ deep' \in [Signatures -> JobStatus \cup {NONE}]
      /\ \A s \in Signatures : deep'[s] = "IN_PROGRESS" <=> deep[s] = "IN_PROGRESS"
  BY <1>2, StoredShape DEF IInv, Main
<1>5. ASSUME Shape', fetching' \in {fetching, NONE} PROVE Jobs' /\ RowsKept
  <2>1. ASSUME NEW s \in Signatures, NEW n \in Stored(C, s), s \notin cut',
               event[s][n] = NONE, Payloads[s][n] = "launch"
        PROVE  s \in Made(C, "deep")
    <3>1. n \in Events(s) /\ Commit("event", s, n) \in C
      BY DEF Stored
    <3>2. s \in Made(C, "event")
      BY <3>1 DEF Made, Commit
    <3>3. HasLaunch(s)
      BY <2>1, <3>1 DEF HasLaunch
    <3> QED BY <1>2, <2>1, <3>2, <3>3
  <2>2. cut \subseteq cut'
    BY <1>2
  <2> QED BY <1>2, <1>5, <2>1, <2>2, JobsStored DEF IInv, Main
<1>6. AtBlock /\ reading # NONE
  BY DEF PartOfIt, AtBlock
<1> QED BY <1>3, <1>4, <1>5, <1>6

LEMMA DieInBlockKeeps == ASSUME IInv, DieInBlock PROVE Main'
<1>0. PartOfIt /\ UNCHANGED gaps
  BY DEF DieInBlock
<1>1. /\ UNCHANGED <<head, tip, observed, enriched, confirm, report, overlooked, premature>>
      /\ reading # NONE /\ DOMAIN event' = Signatures
      /\ \A s \in Signatures :
            event'[s] \in [Events(s) -> {"processed", "confirmed", "failed", NONE}]
      /\ deep' \in [Signatures -> JobStatus \cup {NONE}]
  BY <1>0, PartStored
<1>2. /\ Ends("down", gaps') /\ asked' = {} /\ fetching' = NONE /\ reading' = NONE
      /\ stage' = "down" /\ GapsGrow
  BY <1>0 DEF DieInBlock, Dies, Ends, GapsGrow
<1>3. Shape'
  <2>1. /\ next' \in 1 .. head' + 1 /\ last' = NONE /\ pending' = NONE
        /\ missed' \cup abandoned' \subseteq 1 .. head'
    BY <1>1, <1>2, EndsShape DEF IInv, Main
  <2> QED BY <1>0, <1>1, <1>2, <2>1 DEF IInv, Main, Shape
<1>4. Busy'
  BY <1>2 DEF Busy, Up
<1>5. Order'
  BY <1>1, <1>2, OrderEnds DEF IInv, Main
<1>6. Jobs' /\ RowsKept
  BY <1>0, <1>2, <1>3, PartStored
<1>7. Covered'
  BY <1>1, <1>2, <1>6, CoveredEnds DEF IInv, Main
<1>8. ReadSoFar'
  BY <1>2 DEF ReadSoFar
<1>9. Clean'
  BY <1>1, ReadingKnown DEF Clean
<1> QED BY <1>3, <1>4, <1>5, <1>6, <1>7, <1>8, <1>9 DEF Main

LEMMA FailInBlockKeeps == ASSUME IInv, FailInBlock PROVE Main'
<1>0. /\ PartOfIt /\ reading' = NONE
      /\ gaps' = [gaps EXCEPT ![reading.job].status = "RETRY"]
      /\ UNCHANGED <<stage, next, last, pending, asked, fetching, missed, abandoned>>
  BY DEF FailInBlock, GapRetried, stream
<1>1. /\ UNCHANGED <<head, tip, observed, enriched, confirm, report, overlooked, premature>>
      /\ reading # NONE /\ DOMAIN event' = Signatures
      /\ \A s \in Signatures :
            event'[s] \in [Events(s) -> {"processed", "confirmed", "failed", NONE}]
      /\ deep' \in [Signatures -> JobStatus \cup {NONE}]
      /\ \A s \in Signatures : deep'[s] = "IN_PROGRESS" <=> deep[s] = "IN_PROGRESS"
  BY <1>0, PartStored
<1>2. PICK i \in DOMAIN gaps : i = reading.job
  BY <1>1, ReadingKnown
<1>3. "RETRY" \in JobStatus /\ "RETRY" \in Waits /\ "RETRY" # "IN_PROGRESS"
  BY DEF Waits, JobStatus
<1>4. /\ gaps' \in Seq(GapJobs) /\ DOMAIN gaps' = DOMAIN gaps
      /\ gaps'[i].before = gaps[i].before /\ gaps'[i].after = gaps[i].after
      /\ gaps'[i].status = "RETRY"
      /\ \A j \in DOMAIN gaps : j # i => gaps'[j] = gaps[j]
  BY <1>0, <1>2, <1>3, JobMoved DEF IInv, Main, Shape
<1>5. GapsKept
  BY <1>3, <1>4 DEF GapsKept
<1>6. Up /\ Up'
  BY <1>0, <1>1, ReadingKnown DEF Up
<1>7. Shape'
  BY <1>0, <1>1, <1>4 DEF IInv, Main, Shape
<1>8. Busy'
  <2>1. \A j \in DOMAIN gaps' : gaps'[j].status # "IN_PROGRESS"
    BY <1>1, <1>2, <1>3, <1>4, ReadingKnown
  <2> QED BY <1>0, <1>1, <1>6, <2>1 DEF IInv, Main, Busy
<1>9. Order'
  BY <1>0, <1>1, <1>5, OrderKept DEF IInv, Main
<1>10. Jobs' /\ RowsKept
  BY <1>0, <1>7, PartStored
<1>11. Covered'
  BY <1>0, <1>1, <1>5, <1>10, CoveredKept DEF IInv, Main
<1>12. ReadSoFar'
  BY <1>0 DEF ReadSoFar
<1>13. Clean'
  BY <1>1, ReadingKnown DEF Clean
<1> QED BY <1>7, <1>8, <1>9, <1>10, <1>11, <1>12, <1>13 DEF Main

LEMMA NoBlockKeeps == ASSUME IInv, NoBlock PROVE Main'
<1>0. /\ AtBlock /\ overlooked' = overlooked \cup {NextSlot}
      /\ reading' = [reading EXCEPT !.slots = @ \ {NextSlot}]
      /\ UNCHANGED <<head, tip, stage, next, last, pending, observed, event, enriched, confirm,
                     deep, gaps, asked, fetching, report, missed, abandoned, cut, premature>>
  BY DEF NoBlock, stream, store, queues
<1>1. PICK slot : slot = NextSlot
  OBVIOUS
<1>2. slot \in reading.slots /\ reading # NONE /\ reading \in Reads /\ Up /\ report # "clean"
  BY <1>0, <1>1, NextSlotKnown, ReadingKnown
<1>3. /\ reading'.job = reading.job /\ reading'.slots = reading.slots \ {slot}
      /\ reading' \in Reads' /\ reading' # NONE
  <2>1. /\ reading'.job = reading.job /\ reading'.slots = reading.slots \ {slot}
        /\ reading' \in Reads
    BY <1>0, <1>1, <1>2 DEF Reads
  <2>2. Reads \subseteq [job : Nat, slots : SUBSET Slots]
    BY LenProperties DEF Reads, IInv, Main, Shape
  <2>3. reading' # NONE
    BY <2>1, <2>2, NoneAssumption
  <2> QED BY <1>0, <2>1, <2>3 DEF Reads
<1>4. Shape'
  BY <1>0, <1>3 DEF IInv, Main, Shape
<1>5. Busy'
  BY <1>0, <1>2, <1>3 DEF IInv, Main, Busy, Up
<1>6. Order'
  BY <1>0, Kept, OrderKept DEF IInv, Main
<1>7. Jobs'
  <2>1. tip' >= tip
    BY <1>0 DEF IInv, Main, Shape
  <2>2. JobsOnly
    BY <1>0, <2>1 DEF JobsOnly
  <2> QED BY <1>4, <2>2, JobsKept DEF IInv, Main
<1>8. Covered'
  BY <1>0, Kept, CoveredKept DEF IInv, Main
<1>9. ReadSoFar'
  <2> SUFFICES ASSUME NEW k \in Inclusions, Counts(k), Between(k, gaps[reading.job])
               PROVE  \/ Complete(Sig(k)) \/ Slot(k) \in reading'.slots
                      \/ Slot(k) \in overlooked'
    BY <1>0, <1>3 DEF ReadSoFar, Counts, Between, Complete
  <2>1. Complete(Sig(k)) \/ Slot(k) \in reading.slots \/ Slot(k) \in overlooked
    BY <1>2 DEF IInv, Main, ReadSoFar
  <2> QED BY <1>0, <1>1, <1>3, <2>1
<1>10. Clean'
  BY <1>0, <1>2 DEF Clean
<1> QED BY <1>4, <1>5, <1>6, <1>7, <1>8, <1>9, <1>10 DEF IInv, Main
-----------------------------------------------------------------------------
(* The end of a run.                                                       *)
LEMMA ReportKeeps == ASSUME IInv, Report PROVE Main'
<1>0. /\ stage = "draining" /\ stage' = "ending"
      /\ report' = IF QueuesEmpty THEN "clean" ELSE "remaining"
      /\ UNCHANGED <<head, tip, next, last, pending, observed, event, enriched, confirm, deep,
                     gaps, asked, fetching, reading, missed, abandoned, overlooked, cut, premature>>
  BY DEF Report, stream, store, queues, workers, history
<1>1. Shape'
  BY <1>0 DEF IInv, Main, Shape, Reads
<1>2. Busy'
  BY <1>0 DEF IInv, Main, Busy, Up
<1>3. Order'
  <2>1. pending = NONE
    BY <1>0 DEF IInv, Main, Order, Listening
  <2> QED BY <1>0, <2>1 DEF IInv, Main, Order, Unseen
<1>4. Jobs'
  <2>1. tip' >= tip
    BY <1>0 DEF IInv, Main, Shape
  <2>2. JobsOnly
    BY <1>0, <2>1 DEF JobsOnly
  <2> QED BY <1>1, <2>2, JobsKept DEF IInv, Main
<1>5. Covered'
  BY <1>0, Kept, CoveredKept DEF IInv, Main
<1>6. ReadSoFar'
  BY <1>0, Kept, ReadKept DEF IInv, Main
<1>7. Clean'
  BY <1>0 DEF Clean, QueuesEmpty, Open, OpenGaps
<1> QED BY <1>1, <1>2, <1>3, <1>4, <1>5, <1>6, <1>7 DEF IInv, Main

LEMMA LeaveKeeps == ASSUME IInv, NEW worker, Leave(worker) PROVE Main'
<1>0. UNCHANGED <<head, tip, stage, next, last, pending, observed, event, enriched, confirm, deep,
                  gaps, asked, fetching, reading, report, missed, abandoned, overlooked, cut,
                  premature>>
  BY DEF Leave, stream, store, queues, history
<1>1. Shape'
  BY <1>0 DEF IInv, Main, Shape, Reads
<1>2. Busy'
  BY <1>0 DEF IInv, Main, Busy, Up
<1>3. JobsOnly
  BY <1>0 DEF JobsOnly, IInv, Main, Shape
<1>4. Clean'
  BY <1>0, CleanKept DEF IInv, Main
<1> QED BY <1>0, <1>1, <1>2, <1>3, <1>4, Kept, StepKeeps

LEMMA EndKeeps == ASSUME IInv, End PROVE Main'
<1>0. /\ stage = "ending" /\ asked = {} /\ fetching = NONE /\ reading = NONE /\ stage' = "down"
      /\ UNCHANGED <<head, tip, next, last, pending, observed, event, enriched, confirm, deep,
                     gaps, asked, fetching, reading, report, missed, abandoned, overlooked, cut,
                     premature>>
  BY DEF End, Workers, IInv, Rest, stream, store, queues, history
<1>1. Shape'
  BY <1>0 DEF IInv, Main, Shape, Reads
<1>2. Busy'
  BY <1>0 DEF Busy, Up
<1>3. Order'
  <2>1. pending = NONE
    BY <1>0 DEF IInv, Main, Order, Listening
  <2> QED BY <1>0, <2>1 DEF IInv, Main, Order, Unseen
<1>4. Jobs'
  <2>1. tip' >= tip
    BY <1>0 DEF IInv, Main, Shape
  <2>2. JobsOnly
    BY <1>0, <2>1 DEF JobsOnly
  <2> QED BY <1>1, <2>2, JobsKept DEF IInv, Main
<1>5. Covered'
  BY <1>0, Kept, CoveredKept DEF IInv, Main
<1>6. ReadSoFar'
  BY <1>0, Kept, ReadKept DEF IInv, Main
<1>7. Clean'
  BY <1>0, CleanKept DEF IInv, Main
<1> QED BY <1>1, <1>2, <1>3, <1>4, <1>5, <1>6, <1>7 DEF IInv, Main
-----------------------------------------------------------------------------
LEMMA InitInv == Init => IInv
<1> SUFFICES ASSUME Init PROVE IInv
  OBVIOUS
<1>1. Shape
  <2>1. \A s \in Signatures :
           event[s] \in [Events(s) -> {"processed", "confirmed", "failed", NONE}]
    BY DEF Init
  <2>2. gaps \in Seq(GapJobs)
    BY EmptySeq DEF Init
  <2>3. DOMAIN event = Signatures
    BY DEF Init
  <2> QED BY <2>1, <2>2, <2>3, ChainKnown DEF Init, Shape
<1>2. Busy
  BY DEF Init, Busy, Up
<1>3. Order
  <2>1. \A j \in Inclusions : ~(j <= tip)
    BY ChainKnown DEF Init
  <2>2. DOMAIN gaps = {}
    BY DEF Init
  <2> QED BY <2>1, <2>2 DEF Init, Order
<1>4. Jobs
  <2>1. NONE # "processed" /\ NONE # "executed" /\ NONE # "DONE"
    BY NoneAssumption
  <2>2. \A s \in Signatures : \A n \in Events(s) : event[s][n] = NONE
    BY DEF Init
  <2>3. \A s \in Signatures : observed[s] = NONE /\ confirm[s] = NONE /\ deep[s] = NONE
                              /\ s \notin enriched /\ fetching # s
    BY NoneAssumption DEF Init
  <2> QED BY <2>1, <2>2, <2>3 DEF Jobs
<1>5. Covered /\ ReadSoFar /\ Clean
  BY NoneAssumption DEF Init, Covered, ReadSoFar, Clean
<1>6. Rest
  BY DEF Init, Rest
<1> QED BY <1>1, <1>2, <1>3, <1>4, <1>5, <1>6 DEF IInv, Main

LEMMA StutterKeeps == ASSUME IInv, UNCHANGED vars PROVE Main'
<1>0. UNCHANGED <<head, tip, stage, next, last, pending, observed, event, enriched, confirm, deep,
                  gaps, asked, fetching, reading, report, missed, abandoned, overlooked, cut,
                  premature>>
  BY DEF vars, stream, store, queues, workers, history
<1>1. Shape'
  BY <1>0 DEF IInv, Main, Shape, Reads
<1>2. Busy'
  BY <1>0 DEF IInv, Main, Busy, Up
<1>3. Order'
  BY <1>0, Kept, OrderKept DEF IInv, Main
<1>4. Jobs'
  <2>1. tip' >= tip
    BY <1>0 DEF IInv, Main, Shape
  <2>2. JobsOnly
    BY <1>0, <2>1 DEF JobsOnly
  <2> QED BY <1>1, <2>2, JobsKept DEF IInv, Main
<1>5. Covered' /\ ReadSoFar'
  BY <1>0, Kept, CoveredKept, ReadKept DEF IInv, Main
<1>6. Clean'
  BY <1>0, CleanKept DEF IInv, Main
<1> QED BY <1>1, <1>2, <1>3, <1>4, <1>5, <1>6 DEF IInv, Main

LEMMA MainKept == ASSUME IInv, [Next]_vars PROVE Main'
<1>1. CASE Listener
  BY <1>1, SubscribeKeeps, BreakKeeps, ReceiveKeeps, StopKeeps DEF Listener
<1>2. CASE Confirmer
  BY <1>2, ConfirmationsDueKeeps, PollKeeps, StatusesKeeps DEF Confirmer
<1>3. CASE Enricher
  BY <1>3, LaunchesDueKeeps, TakeLaunchKeeps, PutBackKeeps, LaunchFetchedKeeps,
     LaunchNotFetchedKeeps DEF Enricher
<1>4. CASE Reader
  BY <1>4, GapsDueKeeps, TakeGapKeeps, PutGapBackKeeps, GapFailsKeeps, ReadBlockKeeps,
     FailInBlockKeeps, NoBlockKeeps, GapReadKeeps DEF Reader
<1>5. CASE DieInStatuses \/ DieInFetch \/ DieInBlock \/ Crash
  BY <1>5, DieInStatusesKeeps, DieInFetchKeeps, DieInBlockKeeps, CrashKeeps
<1>6. CASE Ending
  BY <1>6, ReportKeeps, LeaveKeeps, EndKeeps
     DEF Ending, ConfirmerLeaves, EnricherLeaves, ReaderLeaves
<1>7. CASE Process \/ Confirm \/ Start
  BY <1>7, ProcessKeeps, ConfirmKeeps, StartKeeps
<1>8. CASE UNCHANGED vars
  BY <1>8, StutterKeeps
<1> QED BY <1>1, <1>2, <1>3, <1>4, <1>5, <1>6, <1>7, <1>8 DEF Next

(* created_at is a number: of the signatures that have one there are       *)
(* finitely many.                                                          *)
LEMMA StampedKind ==
    ASSUME created \in [Signatures -> Nat], NEW S PROVE Stamped(S) \in [Signatures -> Nat]
<1>1. PICK T : T = {o \in Signatures : created[o] # 0}
  OBVIOUS
<1>2. IsFiniteSet(T)
  BY <1>1, SignatureAssumption, FS_Subset
<1>3. Cardinality(T) \in Nat
  BY <1>2, FS_CardinalityType
<1>4. Stamped(S) = [s \in Signatures |->
          IF s \in S /\ created[s] = 0 THEN Cardinality(T) + 1 ELSE created[s]]
  BY <1>1 DEF Stamped
<1> QED BY <1>3, <1>4

(* Commits are made to signatures.                                         *)
LEMMA MadeKind == ASSUME NEW C, C \subseteq Commits, NEW do PROVE Made(C, do) \subseteq Signatures
BY DEF Made, Commits

LEMMA ReceiveCuts ==
    ASSUME IInv, Receive
    PROVE  \E C : /\ C \subseteq Commits /\ created' = Stamped(Made(C, "confirm"))
                  /\ cut' \in {cut, cut \cup Made(C, "observe")}
<1>1. next \in Inclusions
  BY NextKnown DEF Receive, IInv, Main
<1>2. PICK m \in 0 .. Len(Handling(next)) :
          LET C == Range(SubSeq(Handling(next), 1, m)) IN
          created' = Stamped(Made(C, "confirm")) /\ cut' \in {cut, cut \cup Made(C, "observe")}
  BY DEF Receive
<1>3. PICK C : C = Range(SubSeq(Handling(next), 1, m))
  OBVIOUS
<1>4. PICK s \in Signatures : s = Sig(next)
  BY <1>1, SigOf
<1>5. C \subseteq Commits
  BY <1>1, <1>3, <1>4, Handled DEF IInv, Main
<1> QED BY <1>2, <1>3, <1>5

LEMMA CreatedKept ==
    ASSUME IInv, Next PROVE created' = created \/ \E S : created' = Stamped(S)
<1>1. CASE Receive
  BY <1>1, ReceiveCuts
<1>2. CASE ReadBlock \/ FailInBlock \/ DieInBlock
  <2>1. CASE ReadBlock
    BY <2>1 DEF ReadBlock, StoreBlock
  <2>2. CASE PartOfIt
    BY <2>2, PartKnown DEF StoredPart, StoreBlock
  <2> QED BY <1>2, <2>1, <2>2 DEF FailInBlock, DieInBlock
<1>3. \/ created' = created
      \/ Receive
      \/ ReadBlock \/ FailInBlock \/ DieInBlock
  BY DEF Next, Process, Confirm, Start, Listener, Subscribe, Break, Stop, Confirmer,
         ConfirmationsDue, Poll, Statuses, Enricher, LaunchesDue, TakeLaunch, PutBack,
         LaunchFetched, LaunchNotFetched, Reader, GapsDue, TakeGap, PutGapBack, GapFails,
         NoBlock, GapRead, Ending, Report, ConfirmerLeaves, EnricherLeaves, ReaderLeaves,
         Leave, End, Crash, DieInStatuses, DieInFetch, queues
<1> QED BY <1>1, <1>2, <1>3

LEMMA CutsKept == ASSUME IInv, Next PROVE cut' \cup premature' \subseteq Signatures
<1>0. cut \cup premature \subseteq Signatures
  BY DEF IInv, Rest
<1>1. CASE Receive
  BY <1>0, <1>1, ReceiveCuts, MadeKind DEF Receive
<1>2. CASE FailInBlock \/ DieInBlock
  <2>1. PICK C, L : StoredPart(C, L)
    BY <1>2, PartKnown DEF FailInBlock, DieInBlock
  <2>2. C \subseteq Commits /\ premature' = premature
    BY <2>1 DEF StoredPart, BlockOf, StoreBlock
  <2> QED BY <1>0, <2>1, <2>2, MadeKind DEF StoredPart
<1>3. CASE Statuses \/ DieInStatuses
  <2>1. PICK F, S : F \subseteq asked /\ Settle(S, F)
    BY <1>3 DEF Statuses, DieInStatuses
  <2>2. S \cap F \subseteq Signatures
    BY <2>1 DEF IInv, Main, Shape
  <2> QED BY <1>0, <1>3, <2>1, <2>2 DEF Settle, Statuses, DieInStatuses
<1>4. \/ cut' = cut /\ premature' = premature
      \/ Receive
      \/ FailInBlock \/ DieInBlock
      \/ Statuses \/ DieInStatuses
  BY DEF Next, Process, Confirm, Start, Listener, Subscribe, Break, Stop, Confirmer,
         ConfirmationsDue, Poll, Enricher, LaunchesDue, TakeLaunch, PutBack, LaunchFetched,
         LaunchNotFetched, Reader, GapsDue, TakeGap, PutGapBack, GapFails, ReadBlock,
         StoreBlock, NoBlock, GapRead, Ending, Report, ConfirmerLeaves, EnricherLeaves,
         ReaderLeaves, Leave, End, Crash, DieInFetch, history
<1> QED BY <1>0, <1>1, <1>2, <1>3, <1>4

(* A worker leaves idle, and takes nothing after.                          *)
IdleWhenLeft ==
    /\ "confirmer" \in left => asked = {}
    /\ "enricher" \in left => fetching = NONE
    /\ "reader" \in left => reading = NONE

LEMMA LeftKept == ASSUME IInv, Next PROVE left' \subseteq Workers /\ IdleWhenLeft'
<1>0. left \subseteq Workers /\ IdleWhenLeft
  BY DEF IInv, Rest, IdleWhenLeft
<1>1. CASE left' = {}
  BY <1>1 DEF IdleWhenLeft
<1>2. CASE Poll
  BY <1>0, <1>2 DEF Poll, IdleWhenLeft
<1>3. ASSUME NEW s \in Signatures, TakeLaunch(s) PROVE left' \subseteq Workers /\ IdleWhenLeft'
  BY <1>0, <1>3 DEF TakeLaunch, NextLaunch, IdleWhenLeft
<1>4. ASSUME NEW i \in DOMAIN gaps, TakeGap(i) PROVE left' \subseteq Workers /\ IdleWhenLeft'
  BY <1>0, <1>4 DEF TakeGap, NextGap, IdleWhenLeft
<1>5. CASE Ending
  BY <1>0, <1>5 DEF Ending, Report, ConfirmerLeaves, EnricherLeaves, ReaderLeaves, Leave,
                    End, Workers, workers, IdleWhenLeft
<1>6. CASE ReadBlock \/ NoBlock
  <2>1. reading # NONE /\ UNCHANGED <<asked, fetching, left>>
    BY <1>6 DEF ReadBlock, NoBlock, AtBlock
  <2> QED BY <1>0, <2>1 DEF IdleWhenLeft
<1>7. CASE /\ left' = left /\ asked' \in {asked, {}} /\ fetching' \in {fetching, NONE}
           /\ reading' \in {reading, NONE}
  BY <1>0, <1>7 DEF IdleWhenLeft
<1>8. CASE Receive
  BY <1>0, <1>8 DEF Receive, Dies, Interrupted, Breaks, workers, IdleWhenLeft
<1>9. \/ left' = {} \/ Poll \/ (\E s \in Signatures : TakeLaunch(s))
      \/ (\E i \in DOMAIN gaps : TakeGap(i)) \/ Ending \/ ReadBlock \/ NoBlock \/ Receive
      \/ /\ left' = left /\ asked' \in {asked, {}} /\ fetching' \in {fetching, NONE}
         /\ reading' \in {reading, NONE}
  BY DEF Next, Process, Confirm, Start, Listener, Subscribe, Break, Breaks, Stop, Confirmer,
         ConfirmationsDue, Statuses, Enricher, LaunchesDue, PutBack, LaunchFetched,
         LaunchNotFetched, Reader, GapsDue, PutGapBack, GapFails, FailInBlock, GapRetried,
         GapRead, Crash, Dies, DieInStatuses, DieInFetch, DieInBlock, workers
<1> QED BY <1>1, <1>2, <1>3, <1>4, <1>5, <1>6, <1>7, <1>8, <1>9

LEMMA NextInv == ASSUME IInv, [Next]_vars PROVE IInv'
<1>1. Main'
  BY MainKept
<1>2. CASE Next
  <2>1. created' \in [Signatures -> Nat]
    BY <1>2, CreatedKept, StampedKind DEF IInv, Rest
  <2> QED BY <1>1, <1>2, <2>1, CutsKept, LeftKept DEF IInv, Rest, IdleWhenLeft
<1>3. CASE UNCHANGED vars
  <2>1. UNCHANGED <<created, left, cut, premature, asked, fetching, reading>>
    BY <1>3 DEF vars, queues, workers, history
  <2> QED BY <1>1, <2>1 DEF IInv, Rest
<1> QED BY <1>2, <1>3

THEOREM Inductive == Spec => []IInv
BY InitInv, NextInv, PTL DEF Spec
-----------------------------------------------------------------------------
(* Every variable keeps its kind, and while a process is up the jobs in    *)
(* progress are exactly the ones its workers are at: Start resumes those   *)
(* of a dead process (reset_in_progress_jobs) and no other action strands  *)
(* one.                                                                    *)
THEOREM TypeCorrect == Spec => []TypeOK
<1>1. ASSUME IInv PROVE TypeOK
  <2>1. Range(gaps) \subseteq [before : Slots \cup {NONE}, after : Slots, status : JobStatus]
    <3>1. \A i \in DOMAIN gaps : gaps[i] \in GapJobs
      BY <1>1, ElementOfSeq, LenProperties DEF IInv, Main, Shape
    <3> QED BY <3>1 DEF Range, GapJobs
  <2>2. ASSUME Up
        PROVE  /\ asked = {s \in Signatures : confirm[s] = "IN_PROGRESS"}
               /\ {s \in Signatures : deep[s] = "IN_PROGRESS"}
                     = (IF fetching = NONE THEN {} ELSE {fetching})
               /\ {i \in DOMAIN gaps : gaps[i].status = "IN_PROGRESS"}
                     = (IF reading = NONE THEN {} ELSE {reading.job})
    <3>1. /\ asked = {s \in Signatures : confirm[s] = "IN_PROGRESS"}
          /\ \A s \in Signatures : deep[s] = "IN_PROGRESS" <=> fetching = s
          /\ \A i \in DOMAIN gaps : gaps[i].status = "IN_PROGRESS"
                                    <=> reading # NONE /\ reading.job = i
      BY <1>1, <2>2 DEF IInv, Main, Busy
    <3>2. fetching \in Signatures \cup {NONE} /\ NONE \notin Signatures
      BY <1>1, NoneAssumption DEF IInv, Main, Shape
    <3>3. reading # NONE => reading.job \in DOMAIN gaps
      BY ReadingKnown, <1>1
    <3> QED BY <3>1, <3>2, <3>3
  <2> QED BY <1>1, <2>1, <2>2 DEF IInv, Main, Shape, Rest, TypeOK
<1> QED BY <1>1, Inductive, PTL

(* What a broken stream missed is stored or still owed: live_listener      *)
(* remembers the slot before a break until enqueue_gap_job records the     *)
(* gap, and gap_reconciliation_worker only closes a job whose blocks are   *)
(* all stored, apart from the exceptions that GapsCovered names.           *)
THEOREM NothingForgotten == Spec => []GapsCovered
<1>1. ASSUME IInv PROVE GapsCovered
  <2> SUFFICES ASSUME NEW k \in missed, Counts(k)
               PROVE  \/ Complete(Sig(k)) \/ Expected(k) \/ Excused(k)
                      \/ \E g \in Range(gaps) : g.status \in Waits /\ Between(k, g)
    BY DEF GapsCovered, Expected, Excused
  <2>1. OpenFor(k) => \E g \in Range(gaps) : g.status \in Waits /\ Between(k, g)
    BY DEF OpenFor, Range
  <2> QED BY <1>1, <2>1 DEF IInv, Main, Covered
<1> QED BY <1>1, Inductive, PTL

(* deep_enrichment_worker only enriches a launch the cluster has told the  *)
(* end of, with no row of it left unconfirmed, whichever of the listener   *)
(* and the gap worker stored it and whatever died in between.              *)
THEOREM NoEarlyEnrichment == Spec => []EnrichedAfterSettled
<1>1. IInv => EnrichedAfterSettled
  BY DEF IInv, Main, Shape, Jobs, EnrichedAfterSettled
<1> QED BY <1>1, Inductive, PTL

(* When queue_counts finds the queues empty after the drain, nothing that  *)
(* the run stored is unsettled or not enriched, and what its breaks missed *)
(* is recovered, apart from the exceptions CleanMeansComplete names.       *)
THEOREM CleanLeavesNothing == Spec => []CleanMeansComplete
<1>1. ASSUME IInv, report = "clean"
      PROVE  /\ \A s \in Signatures \ cut :
                   /\ observed[s] = "executed" => Complete(s)
                   /\ Settled(s)
                   /\ s \in premature \/ \A n \in Events(s) : event[s][n] \in {NONE, Fate(s)}
                   /\ \A n \in Events(s) : event[s][n] # NONE /\ Payloads[s][n] = "launch"
                                             => s \in enriched
             /\ \A k \in {k \in missed : Counts(k)} :
                   Complete(Sig(k)) \/ Outside(k, gaps) \/ k \in abandoned
                   \/ Slot(k) \in overlooked
  <2>1. /\ stage \in {"ending", "down"}
        /\ \A s \in Signatures : confirm[s] \notin Waits /\ deep[s] \notin Waits
        /\ \A i \in DOMAIN gaps : gaps[i].status \notin Waits
    BY <1>1, CleanIdle
  <2>2. ASSUME NEW s \in Signatures \ cut
        PROVE  /\ observed[s] = "executed" => Complete(s)
               /\ Settled(s)
               /\ s \in premature \/ \A n \in Events(s) : event[s][n] \in {NONE, Fate(s)}
               /\ \A n \in Events(s) : event[s][n] # NONE /\ Payloads[s][n] = "launch"
                                         => s \in enriched
    <3>1. observed[s] = "executed" => Complete(s)
      BY <1>1 DEF IInv, Main, Jobs
    <3>2. Settled(s)
      BY <1>1, <2>1 DEF IInv, Main, Jobs, Settled
    <3>a. s \in premature \/ \A n \in Events(s) : event[s][n] \in {NONE, Fate(s)}
      BY <1>1, <3>2 DEF IInv, Main, Jobs, Settled
    <3>3. deep[s] # NONE => s \in enriched
      <4>1. deep[s] \in JobStatus \cup {NONE} /\ deep[s] \notin Waits
        BY <1>1, <2>1 DEF IInv, Main, Shape
      <4>2. deep[s] # NONE => deep[s] = "DONE"
        BY <4>1 DEF JobStatus
      <4> QED BY <1>1, <4>2 DEF IInv, Main, Jobs
    <3>4. \A n \in Events(s) : event[s][n] # NONE /\ Payloads[s][n] = "launch" => deep[s] # NONE
      BY <1>1 DEF IInv, Main, Jobs
    <3> QED BY <3>1, <3>2, <3>a, <3>3, <3>4
  <2>3. ASSUME NEW k \in missed, Counts(k) PROVE Complete(Sig(k)) \/ Excused(k)
    <3>1. ~OpenFor(k)
      BY <2>1 DEF OpenFor
    <3>2. ~Expected(k)
      BY <1>1, <2>1 DEF IInv, Main, Order, Listening, Expected
    <3> QED BY <1>1, <2>3, <3>1, <3>2 DEF IInv, Main, Covered
  <2> QED BY <2>2, <2>3 DEF Excused
<1>2. IInv => CleanMeansComplete
  BY <1>1 DEF CleanMeansComplete
<1> QED BY <1>2, Inductive, PTL
-----------------------------------------------------------------------------
(***************************************************************************)
(* What no step, late answer, restart or crash takes back.                 *)
(***************************************************************************)
JobsOnward(q, r) ==
    \A s \in Signatures : (q[s] # NONE => r[s] # NONE) /\ (q[s] = "DONE" => r[s] = "DONE")

RowsOnward ==
    \A s \in Signatures :
        /\ observed[s] # NONE => observed'[s] = observed[s]
        /\ \A n \in Events(s) :
              /\ event[s][n] # NONE => event'[s][n] # NONE
              /\ event[s][n] \in {"confirmed", "failed"} =>
                    /\ event'[s][n] # "processed"
                    /\ s \in premature' \/ event'[s][n] = event[s][n]

GapsOnward ==
    \A i \in DOMAIN gaps :
        /\ i \in DOMAIN gaps'
        /\ gaps'[i].before = gaps[i].before /\ gaps'[i].after = gaps[i].after
        /\ gaps[i].status = "DONE" => gaps'[i].status = "DONE"

OnlyForward ==
    /\ head <= head' /\ tip <= tip' /\ enriched \subseteq enriched'
    /\ RowsOnward /\ JobsOnward(confirm, confirm') /\ JobsOnward(deep, deep') /\ GapsOnward

LEMMA ReceiveWrites ==
    ASSUME Receive
    PROVE  \E C :
              /\ gaps' = gaps \/ gaps' = Append(gaps, GapJob(pending.before, Slot(next)))
              /\ \A s \in Signatures : observed[s] # NONE => observed'[s] = observed[s]
              /\ event' = WithRows(C, "processed")
              /\ confirm' = Queued(confirm, Made(C, "confirm"))
              /\ deep' = QueuedOnce(deep, Made(C, "deep"))
<1>1. PICK m \in 0 .. Len(Handling(next)) :
          LET C == Range(SubSeq(Handling(next), 1, m)) IN
          /\ gaps' = IF Made(C, "gap") = {} THEN gaps
                     ELSE Append(gaps, GapJob(pending.before, Slot(next)))
          /\ observed' = [s \in Signatures |->
                 IF s \in Made(C, "observe") /\ observed[s] = NONE
                 THEN IF Chain[next].ok THEN "executed" ELSE "failed" ELSE observed[s]]
          /\ event' = WithRows(C, "processed")
          /\ confirm' = Queued(confirm, Made(C, "confirm"))
          /\ deep' = QueuedOnce(deep, Made(C, "deep"))
  BY DEF Receive
<1>2. PICK C : C = Range(SubSeq(Handling(next), 1, m))
  OBVIOUS
<1>3. /\ gaps' = IF Made(C, "gap") = {} THEN gaps
                 ELSE Append(gaps, GapJob(pending.before, Slot(next)))
      /\ observed' = [s \in Signatures |->
             IF s \in Made(C, "observe") /\ observed[s] = NONE
             THEN IF Chain[next].ok THEN "executed" ELSE "failed" ELSE observed[s]]
      /\ event' = WithRows(C, "processed")
      /\ confirm' = Queued(confirm, Made(C, "confirm"))
      /\ deep' = QueuedOnce(deep, Made(C, "deep"))
  BY <1>1, <1>2
<1> QED BY <1>3

LEMMA QueueWords == NONE \notin {"PENDING", "RETRY", "IN_PROGRESS", "DONE"}
BY NoneAssumption DEF Waits

LEMMA QueuedOnward ==
    ASSUME NEW q, NEW S
    PROVE  JobsOnward(q, Queued(q, S)) /\ JobsOnward(q, QueuedOnce(q, S))
BY QueueWords DEF Queued, QueuedOnce, JobsOnward

LEMMA ResumedOnward ==
    ASSUME NEW q \in [Signatures -> JobStatus \cup {NONE}]
    PROVE  JobsOnward(q, Resumed(q))
BY QueueWords DEF Resumed, JobsOnward

LEMMA DueOnward ==
    ASSUME NEW q \in [Signatures -> JobStatus \cup {NONE}]
    PROVE  JobsOnward(q, DueAgain(q))
BY QueueWords DEF DueAgain, JobsOnward

LEMMA ConfirmOnward ==
    ASSUME IInv, Next PROVE JobsOnward(confirm, confirm')
<1>0. confirm \in [Signatures -> JobStatus \cup {NONE}]
  BY DEF IInv, Main, Shape
<1>1. CASE confirm' = confirm
  BY <1>1 DEF JobsOnward
<1>2. CASE Start
  BY <1>0, <1>2, ResumedOnward DEF Start
<1>3. CASE Receive
  BY <1>3, ReceiveWrites, QueuedOnward
<1>4. CASE Poll
  <2>1. \A s \in Signatures : confirm'[s] = IF s \in asked' THEN "IN_PROGRESS" ELSE confirm[s]
    BY <1>4 DEF Poll
  <2>2. \A s \in asked' : confirm[s] = "PENDING"
    BY <1>4 DEF Poll, Batch, Waiting
  <2> QED BY <2>1, <2>2, QueueWords DEF JobsOnward
<1>5. CASE Statuses \/ DieInStatuses
  <2>1. asked = {s \in Signatures : confirm[s] = "IN_PROGRESS"}
    BY <1>5 DEF Statuses, DieInStatuses, IInv, Main, Busy
  <2>2. \E D : confirm' = AfterPoll(D)
    BY <1>5 DEF Statuses, DieInStatuses
  <2>3. \A s \in Signatures : \/ confirm'[s] = "DONE"
                              \/ confirm'[s] = "RETRY" /\ s \in asked
                              \/ confirm'[s] = confirm[s]
    BY <2>2 DEF AfterPoll
  <2> QED BY <2>1, <2>3, QueueWords DEF JobsOnward
<1>6. CASE ConfirmationsDue
  BY <1>0, <1>6, DueOnward DEF ConfirmationsDue
<1>7. DieInBlock \/ FailInBlock => confirm' = confirm
  BY PartKnown DEF DieInBlock, FailInBlock, StoredPart, StoreBlock
<1>8. \/ confirm' = confirm \/ Start \/ Receive \/ Poll \/ Statuses \/ DieInStatuses
      \/ ConfirmationsDue \/ DieInBlock \/ FailInBlock
  BY DEF Next, Process, Confirm, Listener, Subscribe, Break, Stop, Confirmer, Enricher,
         LaunchesDue, TakeLaunch, PutBack, LaunchFetched, LaunchNotFetched, Reader, GapsDue,
         TakeGap, PutGapBack, GapFails, ReadBlock, NoBlock, GapRead, StoreBlock, Ending,
         Report, ConfirmerLeaves, EnricherLeaves, ReaderLeaves, Leave, End, Crash,
         DieInFetch, queues
<1> QED BY <1>1, <1>2, <1>3, <1>4, <1>5, <1>6, <1>7, <1>8

LEMMA DeepOnward ==
    ASSUME IInv, Next PROVE JobsOnward(deep, deep')
<1>0. deep \in [Signatures -> JobStatus \cup {NONE}]
  BY DEF IInv, Main, Shape
<1>1. CASE deep' = deep
  BY <1>1 DEF JobsOnward
<1>2. CASE Start
  BY <1>0, <1>2, ResumedOnward DEF Start
<1>3. CASE Receive
  BY <1>3, ReceiveWrites, QueuedOnward
<1>4. ASSUME NEW s \in Signatures, TakeLaunch(s) \/ PutBack(s) PROVE JobsOnward(deep, deep')
  <2>1. /\ deep[s] = "PENDING"
        /\ \/ deep' = [deep EXCEPT ![s] = "IN_PROGRESS"]
           \/ deep' = [deep EXCEPT ![s] = "RETRY"]
    BY <1>4 DEF TakeLaunch, PutBack, NextLaunch, Waiting
  <2> QED BY <1>0, <2>1, QueueWords DEF JobsOnward
<1>5. CASE LaunchFetched
  <2>1. deep' = [deep EXCEPT ![fetching] = "DONE"]
    BY <1>5 DEF LaunchFetched
  <2> QED BY <1>0, <2>1, QueueWords DEF JobsOnward
<1>6. CASE LaunchNotFetched
  <2>1. fetching # NONE /\ deep' = [deep EXCEPT ![fetching] = "RETRY"]
    BY <1>6 DEF LaunchNotFetched
  <2>2. fetching \in Signatures /\ deep[fetching] = "IN_PROGRESS"
    BY <2>1 DEF IInv, Main, Shape, Busy
  <2> QED BY <1>0, <2>1, <2>2, QueueWords DEF JobsOnward
<1>7. CASE \E C : deep' = QueuedOnce(deep, Made(C, "deep"))
  BY <1>7, QueuedOnward
<1>8. ReadBlock \/ FailInBlock \/ DieInBlock =>
         \E C : deep' = QueuedOnce(deep, Made(C, "deep"))
  <2>1. CASE ReadBlock
    BY <2>1 DEF ReadBlock, StoreBlock
  <2>2. CASE PartOfIt
    BY <2>2, PartKnown DEF StoredPart, StoreBlock
  <2> QED BY <2>1, <2>2 DEF FailInBlock, DieInBlock
<1>9. CASE LaunchesDue
  BY <1>0, <1>9, DueOnward DEF LaunchesDue
<1>10. \/ deep' = deep \/ Start \/ Receive \/ ReadBlock \/ FailInBlock \/ DieInBlock
       \/ (\E s \in Signatures : TakeLaunch(s) \/ PutBack(s))
       \/ LaunchFetched \/ LaunchNotFetched \/ LaunchesDue
  BY DEF Next, Process, Confirm, Listener, Subscribe, Break, Stop, Confirmer,
         ConfirmationsDue, Poll, Statuses, Enricher, Reader, GapsDue, TakeGap, PutGapBack,
         GapFails, NoBlock, GapRead, Ending, Report, ConfirmerLeaves, EnricherLeaves,
         ReaderLeaves, Leave, End, Crash, DieInStatuses, DieInFetch, queues
<1> QED BY <1>1, <1>2, <1>3, <1>4, <1>5, <1>6, <1>7, <1>8, <1>9, <1>10

(* A row that is there is left as it is, or rewritten as its transaction   *)
(* ended, or as a node said before it had.                                 *)
LEMMA EventsOnward ==
    ASSUME IInv, Next, NEW s \in Signatures, NEW n \in Events(s), event[s][n] # NONE
    PROVE  \/ event'[s][n] \in {event[s][n], Fate(s)}
           \/ s \in premature' /\ event'[s][n] = "failed"
<1>0. Shape
  BY DEF IInv, Main
<1>1. CASE event' = event
  BY <1>1
<1>2. CASE Receive
  <2>1. PICK C : event' = WithRows(C, "processed")
    BY <1>2, ReceiveWrites
  <2> QED BY <1>0, <2>1, StoredRows
<1>3. CASE Statuses \/ DieInStatuses
  <2>1. PICK S, F : Settle(S, F)
    BY <1>3 DEF Statuses, DieInStatuses
  <2>2. event'[s][n] = IF s \in S THEN Ended(s, F) ELSE event[s][n]
    BY <1>0, <2>1, SettledRows
  <2>3. s \in S /\ s \in F => s \in premature'
    BY <2>1 DEF Settle
  <2> QED BY <2>2, <2>3 DEF Ended
<1>4. CASE ReadBlock
  <2>1. PICK K : K = InBlock(NextSlot)
    OBVIOUS
  <2>2. PICK C : C = Recovered(K)
    OBVIOUS
  <2>3. StoreBlock(C)
    BY <1>4, <2>1, <2>2 DEF ReadBlock, Block
  <2>4. K \subseteq Inclusions /\ \A k \in K : Counts(k)
    BY <2>1, InBlockCounts
  <2>5. BlockOf(C, K)
    BY <2>2, <2>4, RecoveredBlock
  <2> QED BY <1>0, <2>3, <2>4, <2>5, BlockRows
<1>5. CASE FailInBlock \/ DieInBlock
  <2>1. PICK C, L : StoredPart(C, L)
    BY <1>5, PartKnown DEF FailInBlock, DieInBlock
  <2>2. L \subseteq Inclusions /\ (\A j \in L : Counts(j)) /\ BlockOf(C, L) /\ StoreBlock(C)
    BY <2>1 DEF StoredPart
  <2> QED BY <1>0, <2>2, BlockRows
<1>6. \/ event' = event \/ Receive \/ Statuses \/ DieInStatuses \/ ReadBlock
      \/ FailInBlock \/ DieInBlock
  BY DEF Next, Process, Confirm, Start, Listener, Subscribe, Break, Stop, Confirmer,
         ConfirmationsDue, Poll, Enricher, LaunchesDue, TakeLaunch, PutBack, LaunchFetched,
         LaunchNotFetched, Reader, GapsDue, TakeGap, PutGapBack, GapFails, NoBlock, GapRead,
         Ending, Report, ConfirmerLeaves, EnricherLeaves, ReaderLeaves, Leave, End, Crash,
         DieInFetch, store
<1> QED BY <1>1, <1>2, <1>3, <1>4, <1>5, <1>6

LEMMA PrematureKept ==
    ASSUME Next PROVE premature \subseteq premature'
<1>1. Statuses \/ DieInStatuses => premature \subseteq premature'
  BY DEF Statuses, DieInStatuses, Settle
<1>2. FailInBlock \/ DieInBlock => premature' = premature
  BY PartKnown DEF FailInBlock, DieInBlock, StoredPart, StoreBlock
<1>3. \/ premature' = premature
      \/ Statuses \/ DieInStatuses
      \/ FailInBlock \/ DieInBlock
  BY DEF Next, Process, Confirm, Start, Listener, Subscribe, Break, Receive, Stop,
         Confirmer, ConfirmationsDue, Poll, Enricher, LaunchesDue, TakeLaunch, PutBack,
         LaunchFetched, LaunchNotFetched, Reader, GapsDue, TakeGap, PutGapBack, GapFails,
         ReadBlock, StoreBlock, NoBlock, GapRead, Ending, Report, ConfirmerLeaves,
         EnricherLeaves, ReaderLeaves, Leave, End, Crash, DieInFetch, history
<1> QED BY <1>1, <1>2, <1>3

LEMMA RowsForward ==
    ASSUME IInv, Next PROVE RowsOnward
<1>1. \A s \in Signatures : observed[s] # NONE => observed'[s] = observed[s]
  <2>1. CASE observed' = observed
    BY <2>1
  <2>2. CASE Receive
    BY <2>2, ReceiveWrites
  <2>3. FailInBlock \/ DieInBlock => observed' = observed
    BY PartKnown DEF FailInBlock, DieInBlock, StoredPart, StoreBlock
  <2>4. observed' = observed \/ Receive \/ FailInBlock \/ DieInBlock
    BY DEF Next, Process, Confirm, Start, Listener, Subscribe, Break, Stop, Confirmer,
           ConfirmationsDue, Poll, Statuses, Enricher, LaunchesDue, TakeLaunch, PutBack,
           LaunchFetched, LaunchNotFetched, Reader, GapsDue, TakeGap, PutGapBack, GapFails,
           ReadBlock, NoBlock, GapRead, StoreBlock, Ending, Report, ConfirmerLeaves,
           EnricherLeaves, ReaderLeaves, Leave, End, Crash, DieInStatuses, DieInFetch, store
  <2> QED BY <2>1, <2>2, <2>3, <2>4
<1>2. ASSUME NEW s \in Signatures, NEW n \in Events(s)
      PROVE  /\ event[s][n] # NONE => event'[s][n] # NONE
             /\ event[s][n] \in {"confirmed", "failed"} =>
                   /\ event'[s][n] # "processed"
                   /\ s \in premature' \/ event'[s][n] = event[s][n]
  <2>1. s \in premature \/ event[s][n] \in {NONE, "processed", Fate(s)}
    BY DEF IInv, Main, Jobs
  <2>2. event[s][n] # NONE => \/ event'[s][n] \in {event[s][n], Fate(s)}
                              \/ s \in premature' /\ event'[s][n] = "failed"
    BY EventsOnward
  <2>3. Fate(s) \in {"confirmed", "failed"} /\ NONE \notin {"confirmed", "failed"}
    BY FateKinds, NoneAssumption
  <2>4. premature \subseteq premature'
    BY PrematureKept
  <2> QED BY <2>1, <2>2, <2>3, <2>4
<1> QED BY <1>1, <1>2 DEF RowsOnward

LEMMA GapsForward ==
    ASSUME IInv, Next PROVE GapsOnward
<1>0. gaps \in Seq(GapJobs)
  BY DEF IInv, Main, Shape
<1>1. CASE gaps' = gaps
  BY <1>1 DEF GapsOnward
<1>2. CASE Start
  <2>1. gaps' = ResumedGaps(gaps)
    BY <1>2 DEF Start
  <2>2. \A i \in DOMAIN gaps : gaps[i].status = "DONE" => gaps'[i] = gaps[i]
    BY <2>1 DEF ResumedGaps
  <2> QED BY <1>0, <2>1, <2>2, ResumedReads DEF GapsOnward
<1>3. CASE Receive
  <2>1. gaps' = gaps \/ \E g : gaps' = Append(gaps, g)
    BY <1>3, ReceiveWrites
  <2>2. ASSUME NEW g, gaps' = Append(gaps, g) PROVE GapsOnward
    <3>1. DOMAIN gaps = 1 .. Len(gaps) /\ Len(gaps) \in Nat
      BY <1>0, LenProperties
    <3>2. DOMAIN gaps' = 1 .. Len(gaps) + 1 /\ \A i \in 1 .. Len(gaps) : gaps'[i] = gaps[i]
      BY <1>0, <2>2
    <3> QED BY <3>1, <3>2 DEF GapsOnward
  <2> QED BY <1>1, <2>1, <2>2
<1>4. ASSUME NEW i \in DOMAIN gaps, gaps[i].status # "DONE",
             NEW st \in JobStatus, gaps' = [gaps EXCEPT ![i].status = st]
      PROVE  GapsOnward
  <2>1. /\ DOMAIN gaps' = DOMAIN gaps
        /\ gaps'[i].before = gaps[i].before /\ gaps'[i].after = gaps[i].after
        /\ \A j \in DOMAIN gaps : j # i => gaps'[j] = gaps[j]
    BY <1>0, <1>4, JobMoved
  <2> QED BY <1>4, <2>1 DEF GapsOnward
<1>5. {"IN_PROGRESS", "RETRY", "DONE"} \subseteq JobStatus
  BY DEF Waits, JobStatus
<1>6. ASSUME NEW i \in DOMAIN gaps, TakeGap(i) \/ PutGapBack(i) PROVE GapsOnward
  <2>1. gaps[i].status = "PENDING"
    BY <1>6 DEF TakeGap, PutGapBack, NextGap
  <2>2. \E st \in JobStatus : gaps' = [gaps EXCEPT ![i].status = st]
    BY <1>5, <1>6 DEF TakeGap, PutGapBack
  <2> QED BY <1>4, <2>1, <2>2
<1>7. CASE GapFails \/ FailInBlock \/ GapRead
  <2>1. reading # NONE
    BY <1>7 DEF GapFails, GapRead, FailInBlock, PartOfIt, AtBlock
  <2>2. reading.job \in DOMAIN gaps /\ gaps[reading.job].status = "IN_PROGRESS"
    BY <2>1, ReadingKnown
  <2>3. \E st \in JobStatus : gaps' = [gaps EXCEPT ![reading.job].status = st]
    BY <1>5, <1>7 DEF GapFails, FailInBlock, GapRetried, GapRead
  <2> QED BY <1>4, <2>2, <2>3
<1>8. CASE GapsDue
  <2>1. /\ DOMAIN gaps' = DOMAIN gaps
        /\ \A i \in DOMAIN gaps :
              /\ gaps'[i].before = gaps[i].before /\ gaps'[i].after = gaps[i].after
              /\ gaps[i].status = "DONE" => gaps'[i].status = "DONE"
    BY <1>0, <1>8, DueGaps DEF GapsDue
  <2> QED BY <2>1 DEF GapsOnward
<1>9. \/ gaps' = gaps \/ Start \/ Receive
      \/ (\E i \in DOMAIN gaps : TakeGap(i) \/ PutGapBack(i))
      \/ GapFails \/ FailInBlock \/ GapRead \/ GapsDue
  BY DEF Next, Process, Confirm, Listener, Subscribe, Break, Stop, Confirmer,
         ConfirmationsDue, Poll, Statuses, Enricher, LaunchesDue, TakeLaunch, PutBack,
         LaunchFetched, LaunchNotFetched, Reader, ReadBlock, NoBlock, Ending, Report,
         ConfirmerLeaves, EnricherLeaves, ReaderLeaves, Leave, End, Crash, DieInStatuses,
         DieInFetch, DieInBlock, queues
<1> QED BY <1>1, <1>2, <1>3, <1>6, <1>7, <1>8, <1>9

(* No notification, late or repeated answer, restart or crash takes back   *)
(* what the store holds: a websocket observation keeps what it said, a row *)
(* that is confirmed or failed is never back to processed, and keeps its   *)
(* status unless an err was taken for the end before the cluster confirmed *)
(* one, a job that is done is never queued again, a gap keeps its slots    *)
(* and, once read, is not reopened, and a launch stays enriched            *)
(* (insert_observation, mark_confirmation_done and _failed, the upsert of  *)
(* insert_event by the gap worker, enqueue_gap_job, enqueue_confirmation,  *)
(* enqueue_deep_launch_enrichment, recover_jobs of                         *)
(* live_pump_collector_v0_3_4.py).                                         *)
THEOREM NothingTakenBack == Spec => [][OnlyForward]_vars
<1>1. ASSUME IInv, Next PROVE OnlyForward
  <2>1. head \in Nat /\ tip \in Nat /\ Len(Chain) \in Nat
    BY <1>1, ChainKnown DEF IInv, Main, Shape
  <2>2. FailInBlock \/ DieInBlock => UNCHANGED <<head, tip, enriched>>
    BY PartKnown DEF FailInBlock, DieInBlock, StoredPart, StoreBlock
  <2>3. /\ head' = head \/ head' = head + 1
        /\ tip' = tip \/ tip' \in tip + 1 .. head
        /\ enriched \subseteq enriched'
    BY <1>1, <2>2 DEF Next, Process, Confirm, Start, Listener, Subscribe, Break, Receive,
       Stop, Confirmer, ConfirmationsDue, Poll, Statuses, Enricher, LaunchesDue, TakeLaunch,
       PutBack, LaunchFetched, LaunchNotFetched, Reader, GapsDue, TakeGap, PutGapBack,
       GapFails, ReadBlock, NoBlock, GapRead, StoreBlock, Ending, Report, ConfirmerLeaves,
       EnricherLeaves, ReaderLeaves, Leave, End, Crash, DieInStatuses, DieInFetch, store
  <2>4. head <= head' /\ tip <= tip'
    BY <2>1, <2>3
  <2> QED BY <1>1, <2>3, <2>4, RowsForward, ConfirmOnward, DeepOnward, GapsForward
      DEF OnlyForward
<1>2. IInv /\ [Next]_vars => [OnlyForward]_vars
  BY <1>1
<1> QED BY <1>2, Inductive, PTL DEF Spec
=============================================================================
