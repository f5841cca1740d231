---------------------------- MODULE PayrollProofs ----------------------------
(***************************************************************************)
(* PayrollPeriods, for any admins, lessons, anchors, days and bounds: the  *)
(* types hold, what has been finalized stands, and a lesson is paid once   *)
(* unless two periods were finalized at the same time.  The inductive      *)
(* invariant says who may hold which lock, what the holder of a lock has   *)
(* found, that an open period has no lesson lines, and what the lines a    *)
(* request carries say of those that are stored.                           *)
(***************************************************************************)
EXTENDS PayrollPeriods, TLAPS, FiniteSetTheorems

-----------------------------------------------------------------------------
(* The requests.                                                            *)

JobLine == [class: Classes, pay: Pays]

ListJob == [op: {"list"}, pc: {"ensure"}, anchor: Anchors]
FinalizeJob == [op: {"finalize"}, pc: {"classes", "rates", "paid", "lock", "write"},
                period: PeriodId, lines: SUBSET JobLine]
ReopenJob == [op: {"reopen"}, pc: {"lock", "write"}, period: PeriodId]
LineJob == [op: {"adjust", "delete"}, pc: {"guard", "line"}, period: PeriodId,
            id: 1 .. MaxAdjustments]
AnchorJob == [op: {"anchor"}, pc: {"table", "drop"}, anchor: Anchors]
Job == {Idle} \cup ListJob \cup FinalizeJob \cup ReopenJob \cup LineJob \cup AnchorJob

Movers == {a \in Admins : job[a].op = "anchor"}

JobsOK == job \in [Admins -> Job]

CountsOK ==
  /\ moves \in Nat /\ moves + Cardinality(Movers) <= MaxMoves
  /\ adjustments \in 0 .. MaxAdjustments
  /\ reopens \in Nat

\* Who holds a lock is at the step that needs it, and is alone.
LocksOK ==
  /\ \A p \in PeriodId : \A a \in rowLock[p] :
       job[a].pc = "write" /\ job[a].period = p
  /\ \A a \in Admins : job[a].pc = "write" => rowLock[job[a].period] = {a}
  /\ \A a \in Admins : a \in tableLock <=> job[a].pc = "drop"
  /\ \A a, b \in tableLock : a = b

\* What it found is still so.
FoundOK ==
  /\ \A a \in Admins : job[a].pc = "write" =>
       /\ job[a].period \in Existing
       /\ periods[job[a].period] = IF job[a].op = "finalize" THEN "open" ELSE "finalized"
  /\ \A a \in Admins : job[a].pc = "drop" => Finalized = {}

OpenHasNoLessons == \A l \in lines : l.kind = "class" => l.period \in Finalized

Inductive == TypeOK /\ JobsOK /\ CountsOK /\ LocksOK /\ FoundOK /\ OpenHasNoLessons

(* What the lines of a request say.                                         *)

Finalizing(a) == job[a].op = "finalize"
Computed(a) == Finalizing(a) /\ job[a].pc \in {"lock", "write"}

\* A lesson has one line.
OneLineEach ==
  \A a \in Admins : Finalizing(a) =>
    /\ \A l, m \in job[a].lines : l.class = m.class => l = m
    /\ ~Computed(a) => \A l \in job[a].lines : l.pay # "already_paid"

\* As long as only one period is finalized at a time, what is about to be paid is
\* paid by no other period.
NewIsNew ==
  ~raced =>
    /\ \A a, b \in Admins : Finalizing(a) /\ Finalizing(b) => job[a].period = job[b].period
    /\ \A a \in Admins : Computed(a) =>
         \A l \in job[a].lines : l.pay = "paid" => ~PaidElsewhere(job[a].period, l.class)

\* As long as no period is reopened, what another period has paid stays paid.
OldIsBacked ==
  reopens = 0 =>
    /\ \A a \in Admins : job[a].op # "reopen"
    /\ \A a \in Admins : Computed(a) =>
         \A l \in job[a].lines : l.pay = "already_paid" => PaidElsewhere(job[a].period, l.class)

Priced == OneLineEach /\ NewIsNew /\ OldIsBacked /\ PaidTwiceOnlyRaced /\ AlreadyPaidIsBacked

-----------------------------------------------------------------------------
(* Lemmas.                                                                  *)

\* What the pc of a request says of it.
LEMMA Shape ==
  ASSUME JobsOK, NEW a \in Admins
  PROVE  /\ job[a] \in Job
         /\ job[a].pc = "ensure" => job[a] \in ListJob
         /\ job[a].pc \in {"classes", "rates", "paid"} => job[a] \in FinalizeJob
         /\ job[a].pc \in {"lock", "write"} => job[a] \in FinalizeJob \cup ReopenJob
         /\ job[a].pc \in {"guard", "line"} => job[a] \in LineJob
         /\ job[a].pc \in {"table", "drop"} => job[a] \in AnchorJob
         /\ job[a].op = "finalize" => job[a] \in FinalizeJob
         /\ job[a].op = "reopen" => job[a] \in ReopenJob
         /\ job[a].op = "anchor" => job[a] \in AnchorJob
         /\ job[a].op \in {"adjust", "delete"} => job[a] \in LineJob
  BY DEF JobsOK, Job, ListJob, FinalizeJob, ReopenJob, LineJob, AnchorJob, Idle

\* At these steps nothing is locked, and no lock is held.
Calm(j) == j \in Job /\ j.pc \notin {"write", "drop"}

LEMMA CalmIdle == Calm(Idle) /\ Idle.op = "none" /\ Idle.pc = "idle"
  BY DEF Calm, Job, Idle

LEMMA CalmStep ==
  ASSUME JobsOK, LocksOK, TypeOK, NEW a \in Admins, Calm(job[a]),
         NEW j, Calm(j), Become(a, j), UNCHANGED locks
  PROVE  JobsOK' /\ LocksOK' /\ job'[a] = j /\ \A b \in Admins \ {a} : job'[b] = job[b]
<1>1. job'[a] = j /\ (\A b \in Admins \ {a} : job'[b] = job[b]) /\ JobsOK'
  BY DEF Become, JobsOK, Calm
<1>2. \A p \in PeriodId : rowLock'[p] = rowLock[p] /\ rowLock[p] \subseteq Admins /\ a \notin rowLock[p]
  BY DEF locks, TypeOK, LocksOK, Calm
<1>3. tableLock' = tableLock /\ tableLock \subseteq Admins /\ a \notin tableLock
  BY DEF locks, TypeOK, LocksOK, Calm
<1>4. \A p \in PeriodId : \A b \in rowLock'[p] : job'[b].pc = "write" /\ job'[b].period = p
  BY <1>1, <1>2 DEF LocksOK
<1>5. \A b \in Admins : job'[b].pc = "write" => rowLock'[job'[b].period] = {b}
  <2> SUFFICES ASSUME NEW b \in Admins, job'[b].pc = "write"
               PROVE  rowLock'[job'[b].period] = {b}
    OBVIOUS
  <2>1. b # a /\ job'[b] = job[b]
    BY <1>1 DEF Calm
  <2>2. rowLock' = rowLock
    BY DEF locks
  <2> QED BY <2>1, <2>2 DEF LocksOK
<1>6. \A b \in Admins : b \in tableLock' <=> job'[b].pc = "drop"
  BY <1>1, <1>3 DEF LocksOK, Calm
<1> QED BY <1>1, <1>3, <1>4, <1>5, <1>6 DEF LocksOK

LEMMA ReleaseStep ==
  ASSUME JobsOK, LocksOK, TypeOK, NEW a \in Admins, Release(a)
  PROVE  /\ JobsOK' /\ LocksOK' /\ job'[a] = Idle
         /\ \A b \in Admins \ {a} : job'[b] = job[b]
         /\ rowLock' \in [PeriodId -> SUBSET Admins] /\ tableLock' \subseteq Admins
<1>1. job'[a] = Idle /\ (\A b \in Admins \ {a} : job'[b] = job[b]) /\ JobsOK'
  BY CalmIdle DEF Release, Become, JobsOK, Calm
<1>2. /\ rowLock' = [p \in PeriodId |-> rowLock[p] \ {a}]
      /\ tableLock' = tableLock \ {a}
      /\ rowLock' \in [PeriodId -> SUBSET Admins] /\ tableLock' \subseteq Admins
  BY DEF Release, TypeOK
<1>3. \A p \in PeriodId : \A b \in rowLock'[p] : job'[b].pc = "write" /\ job'[b].period = p
  BY <1>1, <1>2 DEF LocksOK
<1>4. \A b \in Admins : job'[b].pc = "write" => rowLock'[job'[b].period] = {b}
  <2> SUFFICES ASSUME NEW b \in Admins, job'[b].pc = "write"
               PROVE  rowLock'[job'[b].period] = {b}
    OBVIOUS
  <2>1. b # a /\ job'[b] = job[b]
    BY <1>1, CalmIdle
  <2>2. rowLock[job[b].period] = {b} /\ job[b].period \in PeriodId
    BY <2>1, Shape DEF LocksOK, FinalizeJob, ReopenJob
  <2> QED BY <1>2, <2>1, <2>2
<1>5. \A b \in Admins : b \in tableLock' <=> job'[b].pc = "drop"
  BY <1>1, <1>2, CalmIdle DEF LocksOK
<1>6. \A b, c \in tableLock' : b = c
  BY <1>2 DEF LocksOK
<1> QED BY <1>1, <1>2, <1>3, <1>4, <1>5, <1>6 DEF LocksOK

\* The changes of the anchor under way are counted.
LEMMA MoversFinite ==
  ASSUME NEW M, M \subseteq Admins
  PROVE  IsFiniteSet(M) /\ Cardinality(M) \in Nat
  BY AdminAssumption, FS_Subset, FS_CardinalityType

LEMMA MoversFewer ==
  ASSUME Movers' \subseteq Movers
  PROVE  Cardinality(Movers') <= Cardinality(Movers) /\ Cardinality(Movers') \in Nat
         /\ Cardinality(Movers) \in Nat
<1>1. Movers \subseteq Admins /\ Movers' \subseteq Admins
  BY DEF Movers
<1> QED BY <1>1, MoversFinite, FS_Subset

LEMMA CountsSame ==
  ASSUME CountsOK, TypeOK, NEW a \in Admins, job'[a].op # "anchor",
         \A b \in Admins \ {a} : job'[b] = job[b],
         moves' = moves, adjustments' \in 0 .. MaxAdjustments, reopens' \in Nat
  PROVE  CountsOK'
<1>1. Movers' \subseteq Movers
  BY DEF Movers
<1>2. MaxMoves \in Nat
  BY CountAssumption
<1> QED BY <1>1, <1>2, MoversFewer DEF CountsOK

\* A step that changes nothing but its request, and holds no lock.
LEMMA QuietStep ==
  ASSUME Inductive, NEW a \in Admins, Calm(job[a]), NEW j, Calm(j), Become(a, j),
         UNCHANGED <<periods, lines, anchor, classes, locks>>,
         raced' \in BOOLEAN, CountsOK'
  PROVE  Inductive'
<1>1. /\ JobsOK' /\ LocksOK' /\ job'[a] = j
      /\ \A b \in Admins \ {a} : job'[b] = job[b]
  BY CalmStep DEF Inductive
<1>2. TypeOK'
  BY DEF Inductive, TypeOK, Existing, locks
<1>3. FoundOK'
  BY <1>1 DEF Inductive, FoundOK, Existing, Finalized, Calm
<1>4. OpenHasNoLessons'
  BY DEF Inductive, OpenHasNoLessons, Existing, Finalized
<1> QED BY <1>1, <1>2, <1>3, <1>4 DEF Inductive

\* Its common case: the step is not about the anchor.
LEMMA QuietCounts ==
  ASSUME Inductive, NEW a \in Admins, NEW j, j.op # "anchor", Become(a, j),
         moves' = moves, adjustments' \in 0 .. MaxAdjustments, reopens' \in Nat
  PROVE  CountsOK' /\ job'[a] = j /\ \A b \in Admins \ {a} : job'[b] = job[b]
<1>1. job'[a] = j /\ \A b \in Admins \ {a} : job'[b] = job[b]
  BY DEF Become, Inductive, JobsOK
<1> QED BY <1>1, CountsSame DEF Inductive

LEMMA Starts == Init => Inductive
<1> SUFFICES ASSUME Init PROVE Inductive
  OBVIOUS
<1>1. JobsOK
  BY CalmIdle DEF Init, JobsOK, Calm
<1>2. CountsOK
  <2>1. Movers = {}
    BY CalmIdle DEF Init, Movers
  <2> QED BY <2>1, FS_EmptySet, CountAssumption DEF Init, CountsOK
<1>3. LocksOK /\ FoundOK /\ OpenHasNoLessons
  BY CalmIdle DEF Init, LocksOK, FoundOK, OpenHasNoLessons
<1>4. Existing = PeriodsAround(anchor) \X {0} /\ Existing \subseteq PeriodId
  BY CountAssumption DEF Init, Existing, PeriodsAround, PeriodId
<1>5. TypeOK
  <2>1. \A p, q \in Existing : Start(p) = Start(q) => p = q
    BY <1>4 DEF Start
  <2>2. \A p \in Existing : periods[p] = "open"
    BY <1>4 DEF Init
  <2>3. classes \in [Classes -> [day: Days, live: BOOLEAN, rated: BOOLEAN]]
    BY DEF Init
  <2> QED BY <1>4, <2>1, <2>2, <2>3 DEF Init, TypeOK
<1> QED BY <1>1, <1>2, <1>3, <1>5 DEF Inductive

-----------------------------------------------------------------------------
(* The steps.                                                               *)

LEMMA Requests ==
  ASSUME Inductive, NEW a \in Admins, Request(a)
  PROVE  Inductive'
<1>t. /\ TypeOK /\ JobsOK /\ CountsOK
      /\ reopens \in Nat /\ adjustments \in 0 .. MaxAdjustments /\ raced \in BOOLEAN
  BY DEF Inductive, TypeOK, CountsOK
<1>i. job[a] = Idle => Calm(job[a])
  BY CalmIdle
<1>1. CASE ReadAnchor(a)
  <2> DEFINE j == [op |-> "list", pc |-> "ensure", anchor |-> anchor]
  <2>1. Calm(j) /\ j.op # "anchor"
    BY <1>t DEF Calm, Job, ListJob, TypeOK
  <2> HIDE DEF j
  <2>2. Become(a, j)
    BY <1>1 DEF ReadAnchor, j
  <2>3. CountsOK'
    BY <1>1, <1>t, <2>1, <2>2, QuietCounts DEF ReadAnchor, counts
  <2> QED BY <1>1, <1>t, <1>i, <2>1, <2>2, <2>3, QuietStep DEF ReadAnchor, counts
<1>2. ASSUME NEW p \in PeriodId, LoadPeriod(a, p) PROVE Inductive'
  <2> DEFINE j == [op |-> "finalize", pc |-> "classes", period |-> p, lines |-> {}]
  <2>1. Calm(j) /\ j.op # "anchor"
    BY DEF Calm, Job, FinalizeJob
  <2> HIDE DEF j
  <2>2. Become(a, j)
    BY <1>2 DEF LoadPeriod, j
  <2>3. CountsOK'
    BY <1>2, <1>t, <2>1, <2>2, QuietCounts DEF LoadPeriod
  <2>4. raced' \in BOOLEAN
    BY <1>2, <1>t DEF LoadPeriod
  <2> QED BY <1>2, <1>t, <1>i, <2>1, <2>2, <2>3, <2>4, QuietStep DEF LoadPeriod
<1>3. ASSUME NEW p \in PeriodId, RequestReopen(a, p) PROVE Inductive'
  <2> DEFINE j == [op |-> "reopen", pc |-> "lock", period |-> p]
  <2>1. Calm(j) /\ j.op # "anchor"
    BY DEF Calm, Job, ReopenJob
  <2> HIDE DEF j
  <2>2. Become(a, j)
    BY <1>3 DEF RequestReopen, j
  <2>3. CountsOK'
    BY <1>3, <1>t, <2>1, <2>2, QuietCounts DEF RequestReopen
  <2> QED BY <1>3, <1>t, <1>i, <2>1, <2>2, <2>3, QuietStep DEF RequestReopen
<1>4. ASSUME NEW p \in PeriodId, RequestAdjustment(a, p) PROVE Inductive'
  <2> DEFINE j == [op |-> "adjust", pc |-> "guard", period |-> p, id |-> adjustments']
  <2>0. adjustments' \in 1 .. MaxAdjustments
    BY <1>4, <1>t, CountAssumption DEF RequestAdjustment
  <2>1. Calm(j) /\ j.op # "anchor"
    BY <2>0 DEF Calm, Job, LineJob
  <2> HIDE DEF j
  <2>2. Become(a, j)
    BY <1>4 DEF RequestAdjustment, j
  <2>3. CountsOK'
    BY <1>4, <1>t, <2>0, <2>1, <2>2, QuietCounts DEF RequestAdjustment
  <2> QED BY <1>4, <1>t, <1>i, <2>1, <2>2, <2>3, QuietStep DEF RequestAdjustment
<1>5. ASSUME NEW l \in lines, RequestDelete(a, l) PROVE Inductive'
  <2> DEFINE j == [op |-> "delete", pc |-> "guard", period |-> l.period, id |-> l.id]
  <2>0. l \in Adjustment
    BY <1>5, <1>t DEF RequestDelete, TypeOK, ClassLine
  <2>1. Calm(j) /\ j.op # "anchor"
    BY <2>0 DEF Calm, Job, LineJob, Adjustment
  <2> HIDE DEF j
  <2>2. Become(a, j)
    BY <1>5 DEF RequestDelete, j
  <2>3. CountsOK'
    BY <1>5, <1>t, <2>1, <2>2, QuietCounts DEF RequestDelete, counts
  <2> QED BY <1>5, <1>t, <1>i, <2>1, <2>2, <2>3, QuietStep DEF RequestDelete, counts
<1>6. ASSUME NEW new \in Anchors, RequestAnchor(a, new) PROVE Inductive'
  <2> DEFINE j == [op |-> "anchor", pc |-> "table", anchor |-> new]
  <2>1. Calm(j) /\ j.op = "anchor"
    BY DEF Calm, Job, AnchorJob
  <2> HIDE DEF j
  <2>2. Become(a, j)
    BY <1>6 DEF RequestAnchor, j
  <2>3. Movers' = Movers \cup {a} /\ a \notin Movers
    BY <1>6, <1>t, <2>1, <2>2, CalmIdle DEF RequestAnchor, Become, Movers, JobsOK
  <2>4. IsFiniteSet(Movers) /\ Cardinality(Movers) \in Nat
    BY MoversFinite DEF Movers
  <2>5. Cardinality(Movers') = Cardinality(Movers) + 1
    BY <2>3, <2>4, FS_AddElement
  <2>6. moves + Cardinality(Movers) < MaxMoves
    BY <1>6 DEF RequestAnchor, Movers
  <2>7. CountsOK'
    BY <1>6, <1>t, <2>4, <2>5, <2>6, CountAssumption DEF RequestAnchor, counts, CountsOK
  <2> QED BY <1>6, <1>t, <1>i, <2>1, <2>2, <2>7, QuietStep DEF RequestAnchor, counts
<1> QED BY <1>1, <1>2, <1>3, <1>4, <1>5, <1>6 DEF Request

\* The steps of a request that writes nothing yet.
LEMMA Reads ==
  ASSUME Inductive, NEW a \in Admins,
         \/ ReadClasses(a) \/ ReadRates(a) \/ ReadPaid(a) \/ NeedsRate(a)
         \/ RefusePeriod(a) \/ GuardLine(a)
  PROVE  Inductive'
<1>t. /\ TypeOK /\ JobsOK /\ CountsOK
      /\ reopens \in Nat /\ adjustments \in 0 .. MaxAdjustments /\ raced \in BOOLEAN
      /\ classes \in [Classes -> [day: Days, live: BOOLEAN, rated: BOOLEAN]]
  BY DEF Inductive, TypeOK, CountsOK
<1>q. ASSUME Calm(job[a]), NEW j, Calm(j), j.op # "anchor", Become(a, j),
             UNCHANGED <<periods, lines, anchor, classes, locks, counts>>
      PROVE  Inductive'
  <2>1. CountsOK'
    BY <1>q, <1>t, QuietCounts DEF counts
  <2> QED BY <1>q, <1>t, <2>1, QuietStep DEF counts
<1>1. CASE ReadClasses(a) \/ ReadRates(a) \/ ReadPaid(a)
  <2>1. job[a] \in FinalizeJob /\ Calm(job[a])
    BY <1>1, <1>t, Shape DEF ReadClasses, ReadRates, ReadPaid, Calm
  <2> DEFINE to(pc, ls) == [[job[a] EXCEPT !.pc = pc] EXCEPT !.lines = ls]
  <2>2. ASSUME NEW pc \in {"rates", "paid", "lock"}, NEW ls \in SUBSET JobLine
        PROVE  Calm(to(pc, ls)) /\ to(pc, ls).op # "anchor"
    BY <2>1 DEF Calm, Job, FinalizeJob
  <2>3. PICK pc \in {"rates", "paid", "lock"}, ls \in SUBSET JobLine : Become(a, to(pc, ls))
    <3>1. CASE ReadClasses(a)
      <4> DEFINE ls == {[class |-> c, pay |-> "paid"] :
                          c \in {c \in Classes : /\ InPeriod(classes[c].day, job[a].period)
                                                 /\ IsPaid(c)}}
      <4>1. ls \subseteq JobLine
        BY DEF JobLine, Pays
      <4>2. Become(a, to("rates", ls))
        BY <3>1, <2>1, <1>t DEF ReadClasses, Become, FinalizeJob, JobsOK
      <4> QED BY <4>1, <4>2
    <3>2. CASE ReadRates(a)
      <4> DEFINE ls == {IF classes[l.class].rated THEN l
                        ELSE [l EXCEPT !.pay = "needs_rate"] : l \in job[a].lines}
      <4>1. ls \subseteq JobLine
        BY <2>1 DEF JobLine, Pays, FinalizeJob
      <4>2. Become(a, to("paid", ls))
        BY <3>2, <2>1, <1>t DEF ReadRates, Become, FinalizeJob, JobsOK
      <4> QED BY <4>1, <4>2
    <3>3. CASE ReadPaid(a)
      <4> DEFINE ls == {IF PaidElsewhere(job[a].period, l.class)
                        THEN [l EXCEPT !.pay = "already_paid"] ELSE l : l \in job[a].lines}
      <4>1. ls \subseteq JobLine
        BY <2>1 DEF JobLine, Pays, FinalizeJob
      <4>2. Become(a, to("lock", ls))
        BY <3>3, <2>1, <1>t DEF ReadPaid, Become, FinalizeJob, JobsOK
      <4> QED BY <4>1, <4>2
    <3> QED BY <1>1, <3>1, <3>2, <3>3
  <2>4. UNCHANGED <<periods, lines, anchor, classes, locks, counts>>
    BY <1>1 DEF ReadClasses, ReadRates, ReadPaid
  <2> QED BY <1>q, <2>1, <2>2, <2>3, <2>4
<1>2. CASE NeedsRate(a)
  <2>1. Calm(job[a])
    BY <1>2, <1>t, Shape DEF NeedsRate, Calm
  <2> QED BY <1>2, <1>q, <2>1, CalmIdle DEF NeedsRate
<1>3. CASE RefusePeriod(a)
  <2>1. Calm(job[a])
    BY <1>3, <1>t, Shape DEF RefusePeriod, Calm
  <2> QED BY <1>3, <1>q, <2>1, CalmIdle DEF RefusePeriod
<1>4. CASE GuardLine(a)
  <2>1. Calm(job[a]) /\ job[a] \in LineJob
    BY <1>4, <1>t, Shape DEF GuardLine, Calm
  <2>2. Calm([job[a] EXCEPT !.pc = "line"]) /\ [job[a] EXCEPT !.pc = "line"].op # "anchor"
    BY <2>1 DEF Calm, Job, LineJob
  <2> QED BY <1>4, <1>q, <2>1, <2>2, CalmIdle DEF GuardLine
<1> QED BY <1>1, <1>2, <1>3, <1>4

LEMMA EnsureStep ==
  ASSUME Inductive, NEW a \in Admins, EnsurePeriods(a)
  PROVE  Inductive'
<1> DEFINE missing == {d \in PeriodsAround(job[a].anchor) :
                         \A p \in Existing : Start(p) # d}
           new == missing \X {moves}
<1>1. /\ job[a].pc = "ensure" /\ tableLock \subseteq {a} /\ Become(a, Idle)
      /\ periods' = [p \in Existing \cup new |-> IF p \in Existing THEN periods[p] ELSE "open"]
      /\ UNCHANGED <<lines, anchor, classes, locks, counts>>
  BY DEF EnsurePeriods
<1>2. TypeOK /\ JobsOK /\ LocksOK /\ FoundOK /\ CountsOK /\ OpenHasNoLessons
  BY DEF Inductive
<1>3. Calm(job[a])
  BY <1>1, <1>2, Shape DEF Calm
<1>4. /\ JobsOK' /\ LocksOK' /\ job'[a] = Idle
      /\ \A b \in Admins \ {a} : job'[b] = job[b]
  BY <1>1, <1>2, <1>3, CalmIdle, CalmStep
<1>5. CountsOK'
  BY <1>1, <1>2, CalmIdle, QuietCounts DEF counts, CountsOK
<1>6. moves \in 0 .. MaxMoves
  <2>1. Cardinality(Movers) \in Nat
    BY MoversFinite DEF Movers
  <2> QED BY <1>2, <2>1, CountAssumption DEF CountsOK
<1>7. new \subseteq PeriodId
  BY <1>6 DEF PeriodId, PeriodsAround
<1>8. Existing' = Existing \cup new /\ \A p \in Existing : periods'[p] = periods[p]
  BY <1>1 DEF Existing
<1>9. \A p \in new \ Existing : periods'[p] = "open"
  BY <1>1
<1>10. Finalized' = Finalized
  <2>1. \A p \in Existing' : periods'[p] = "finalized" <=> p \in Existing /\ periods[p] = "finalized"
    BY <1>8, <1>9
  <2> QED BY <2>1, <1>8 DEF Finalized
<1>11. TypeOK'
  <2>1. \A p, q \in Existing' : Start(p) = Start(q) => p = q
    <3>1. \A p \in new : p = <<Start(p), moves>> /\ \A q \in Existing : Start(q) # Start(p)
      BY DEF Start
    <3> QED BY <3>1, <1>2, <1>8 DEF TypeOK
  <2>2. Existing' \subseteq PeriodId /\ \A p \in Existing' : periods'[p] \in {"open", "finalized"}
    BY <1>2, <1>7, <1>8, <1>9 DEF TypeOK
  <2>3. \A l \in lines' : l.period \in Existing'
    BY <1>1, <1>2, <1>8 DEF TypeOK
  <2> QED BY <1>1, <1>2, <2>1, <2>2, <2>3 DEF TypeOK, locks, counts
<1>12. FoundOK'
  <2>1. \A b \in Admins : job'[b].pc \in {"write", "drop"} => job'[b] = job[b]
    BY <1>4, CalmIdle
  <2> QED BY <1>2, <1>8, <1>10, <2>1 DEF FoundOK
<1>13. OpenHasNoLessons'
  BY <1>1, <1>2, <1>10 DEF OpenHasNoLessons
<1> QED BY <1>4, <1>5, <1>11, <1>12, <1>13 DEF Inductive

LEMMA LockPeriodStep ==
  ASSUME Inductive, NEW a \in Admins, LockPeriod(a)
  PROVE  Inductive'
<1> DEFINE p == job[a].period
<1>1. /\ job[a].pc = "lock" /\ p \in Existing /\ rowLock[p] \subseteq {a}
      /\ periods[p] = IF job[a].op = "finalize" THEN "open" ELSE "finalized"
      /\ rowLock' = [rowLock EXCEPT ![p] = {a}]
      /\ job' = [job EXCEPT ![a].pc = "write"]
      /\ UNCHANGED <<periods, lines, anchor, classes, tableLock, counts>>
  BY DEF LockPeriod
<1>2. TypeOK /\ JobsOK /\ LocksOK /\ FoundOK /\ CountsOK /\ OpenHasNoLessons
  BY DEF Inductive
<1>3. job[a] \in FinalizeJob \cup ReopenJob /\ p \in PeriodId
  BY <1>1, <1>2, Shape DEF FinalizeJob, ReopenJob
<1>4. /\ job'[a].pc = "write" /\ job'[a].op = job[a].op /\ job'[a].period = p
      /\ job'[a] \in Job /\ job'[a].op # "anchor"
  BY <1>1, <1>2, <1>3 DEF JobsOK, FinalizeJob, ReopenJob, Job
<1>5. \A b \in Admins \ {a} : job'[b] = job[b]
  BY <1>1, <1>2 DEF JobsOK
<1>6. JobsOK'
  BY <1>1, <1>2, <1>4 DEF JobsOK
<1>7. CountsOK'
  BY <1>1, <1>2, <1>4, <1>5, CountsSame DEF counts, CountsOK
<1>8. rowLock'[p] = {a} /\ \A q \in PeriodId \ {p} : rowLock'[q] = rowLock[q]
  BY <1>1, <1>2, <1>3 DEF TypeOK
<1>9. TypeOK'
  <2>1. rowLock' \in [PeriodId -> SUBSET Admins]
    BY <1>1, <1>2 DEF TypeOK
  <2> QED BY <1>1, <1>2, <2>1 DEF TypeOK, Existing, counts
<1>10. LocksOK'
  <2>1. \A q \in PeriodId : \A b \in rowLock'[q] : job'[b].pc = "write" /\ job'[b].period = q
    <3> SUFFICES ASSUME NEW q \in PeriodId, NEW b \in rowLock'[q]
                 PROVE  job'[b].pc = "write" /\ job'[b].period = q
      OBVIOUS
    <3>1. CASE q = p
      BY <3>1, <1>4, <1>8
    <3>2. CASE q # p
      <4>1. b \in rowLock[q] /\ b \in Admins
        BY <3>2, <1>2, <1>8 DEF TypeOK
      <4>2. b # a
        BY <4>1, <1>1, <1>2 DEF LocksOK
      <4> QED BY <4>1, <4>2, <1>2, <1>5 DEF LocksOK
    <3> QED BY <3>1, <3>2
  <2>2. \A b \in Admins : job'[b].pc = "write" => rowLock'[job'[b].period] = {b}
    <3> SUFFICES ASSUME NEW b \in Admins, job'[b].pc = "write"
                 PROVE  rowLock'[job'[b].period] = {b}
      OBVIOUS
    <3>1. CASE b = a
      BY <3>1, <1>4, <1>8
    <3>2. CASE b # a
      <4>1. job'[b] = job[b] /\ rowLock[job[b].period] = {b} /\ job[b].period \in PeriodId
        BY <3>2, <1>2, <1>5, Shape DEF LocksOK, FinalizeJob, ReopenJob
      <4> QED BY <3>2, <4>1, <1>1, <1>8
    <3> QED BY <3>1, <3>2
  <2>3. \A b \in Admins : b \in tableLock' <=> job'[b].pc = "drop"
    BY <1>1, <1>2, <1>4, <1>5 DEF LocksOK
  <2> QED BY <1>1, <1>2, <2>1, <2>2, <2>3 DEF LocksOK
<1>11. FoundOK'
  BY <1>1, <1>2, <1>4, <1>5 DEF FoundOK, Existing, Finalized
<1>12. OpenHasNoLessons'
  BY <1>1, <1>2 DEF OpenHasNoLessons, Existing, Finalized
<1> QED BY <1>6, <1>7, <1>9, <1>10, <1>11, <1>12 DEF Inductive

\* Who writes a period holds its row, and nobody holds the table.
LEMMA Writer ==
  ASSUME Inductive, NEW a \in Admins, job[a].pc = "write", tableLock \subseteq {a}
  PROVE  /\ \A b \in Admins : job[b].pc # "drop"
         /\ \A b \in Admins \ {a} : job[b].pc = "write" => job[b].period # job[a].period
  BY DEF Inductive, LocksOK

LEMMA FinalizeStep ==
  ASSUME Inductive, NEW a \in Admins, Finalize(a)
  PROVE  /\ Inductive'
         /\ job[a] \in FinalizeJob /\ job[a].pc = "write"
         /\ job[a].period \in Existing \ Finalized /\ ClassLinesOf(job[a].period) = {}
         /\ \A b \in Admins \ {a} : job'[b] = job[b]
         /\ job'[a] = Idle
<1> DEFINE p == job[a].period
           paid == {[period |-> p, kind |-> "class", class |-> l.class, pay |-> l.pay]
                    : l \in job[a].lines}
<1>1. /\ job[a].op = "finalize" /\ job[a].pc = "write" /\ tableLock \subseteq {a}
      /\ lines' = (lines \ ClassLinesOf(p)) \cup paid
      /\ periods' = [periods EXCEPT ![p] = "finalized"]
      /\ Release(a) /\ UNCHANGED <<anchor, classes, counts>>
  BY DEF Finalize
<1>2. TypeOK /\ JobsOK /\ LocksOK /\ FoundOK /\ CountsOK /\ OpenHasNoLessons
  BY DEF Inductive
<1>3. job[a] \in FinalizeJob /\ p \in PeriodId
  BY <1>1, <1>2, Shape DEF FinalizeJob
<1>4. p \in Existing \ Finalized
  BY <1>1, <1>2 DEF FoundOK, Finalized
<1>5. ClassLinesOf(p) = {}
  BY <1>2, <1>4 DEF OpenHasNoLessons, ClassLinesOf, LinesOf
<1>6. /\ JobsOK' /\ LocksOK' /\ job'[a] = Idle
      /\ \A b \in Admins \ {a} : job'[b] = job[b]
      /\ rowLock' \in [PeriodId -> SUBSET Admins] /\ tableLock' \subseteq Admins
  BY <1>1, <1>2, ReleaseStep
<1>7. CountsOK'
  BY <1>1, <1>2, <1>6, CalmIdle, CountsSame DEF counts, CountsOK
<1>8. paid \subseteq ClassLine /\ \A l \in paid : l.kind = "class" /\ l.period = p
  BY <1>3 DEF FinalizeJob, JobLine, ClassLine
<1>9. /\ Existing' = Existing /\ periods'[p] = "finalized"
      /\ \A q \in Existing \ {p} : periods'[q] = periods[q]
  BY <1>1, <1>4 DEF Existing
<1>10. Finalized' = Finalized \cup {p}
  BY <1>4, <1>9 DEF Finalized
<1>11. TypeOK'
  <2>1. lines' \subseteq ClassLine \cup Adjustment /\ \A l \in lines' : l.period \in Existing
    BY <1>1, <1>2, <1>4, <1>8 DEF TypeOK
  <2>2. \A q \in Existing : periods'[q] \in {"open", "finalized"}
    BY <1>2, <1>9 DEF TypeOK
  <2> QED BY <1>1, <1>2, <1>6, <1>9, <2>1, <2>2 DEF TypeOK, counts
<1>12. FoundOK'
  <2>1. \A b \in Admins : job'[b].pc # "drop"
    BY <1>1, <1>6, CalmIdle, Writer
  <2>2. \A b \in Admins : job'[b].pc = "write" =>
          job'[b] = job[b] /\ job[b].pc = "write" /\ job[b].period # p
    BY <1>1, <1>6, CalmIdle, Writer
  <2> QED BY <1>2, <1>9, <2>1, <2>2 DEF FoundOK
<1>13. OpenHasNoLessons'
  BY <1>1, <1>2, <1>8, <1>10 DEF OpenHasNoLessons
<1> QED BY <1>1, <1>3, <1>4, <1>5, <1>6, <1>7, <1>11, <1>12, <1>13 DEF Inductive

LEMMA ReopenStep ==
  ASSUME Inductive, NEW a \in Admins, Reopen(a)
  PROVE  /\ Inductive' /\ job[a] \in ReopenJob
         /\ \A b \in Admins \ {a} : job'[b] = job[b]
         /\ job'[a] = Idle
<1> DEFINE p == job[a].period
<1>1. /\ job[a].op = "reopen" /\ job[a].pc = "write" /\ tableLock \subseteq {a}
      /\ lines' = lines \ ClassLinesOf(p)
      /\ periods' = [periods EXCEPT ![p] = "open"]
      /\ Release(a) /\ UNCHANGED <<anchor, classes, counts>>
  BY DEF Reopen
<1>2. TypeOK /\ JobsOK /\ LocksOK /\ FoundOK /\ CountsOK /\ OpenHasNoLessons
  BY DEF Inductive
<1>3. job[a] \in ReopenJob /\ p \in PeriodId
  BY <1>1, <1>2, Shape DEF ReopenJob
<1>4. p \in Existing
  BY <1>1, <1>2 DEF FoundOK
<1>6. /\ JobsOK' /\ LocksOK' /\ job'[a] = Idle
      /\ \A b \in Admins \ {a} : job'[b] = job[b]
      /\ rowLock' \in [PeriodId -> SUBSET Admins] /\ tableLock' \subseteq Admins
  BY <1>1, <1>2, ReleaseStep
<1>7. CountsOK'
  BY <1>1, <1>2, <1>6, CalmIdle, CountsSame DEF counts, CountsOK
<1>9. /\ Existing' = Existing /\ periods'[p] = "open"
      /\ \A q \in Existing \ {p} : periods'[q] = periods[q]
  BY <1>1, <1>4 DEF Existing
<1>10. Finalized' = Finalized \ {p}
  BY <1>4, <1>9 DEF Finalized
<1>11. TypeOK'
  <2>1. \A q \in Existing : periods'[q] \in {"open", "finalized"}
    BY <1>2, <1>9 DEF TypeOK
  <2> QED BY <1>1, <1>2, <1>6, <1>9, <2>1 DEF TypeOK, counts
<1>12. FoundOK'
  <2>1. \A b \in Admins : job'[b].pc # "drop"
    BY <1>1, <1>6, CalmIdle, Writer
  <2>2. \A b \in Admins : job'[b].pc = "write" =>
          job'[b] = job[b] /\ job[b].pc = "write" /\ job[b].period # p
    BY <1>1, <1>6, CalmIdle, Writer
  <2> QED BY <1>2, <1>9, <2>1, <2>2 DEF FoundOK
<1>13. OpenHasNoLessons'
  BY <1>1, <1>2, <1>10 DEF OpenHasNoLessons, ClassLinesOf, LinesOf
<1> QED BY <1>3, <1>6, <1>7, <1>11, <1>12, <1>13 DEF Inductive

LEMMA LineStep ==
  ASSUME Inductive, NEW a \in Admins, InsertAdjustment(a) \/ DeleteAdjustment(a)
  PROVE  /\ Inductive' /\ job[a] \in LineJob /\ job'[a] = Idle
         /\ \A b \in Admins \ {a} : job'[b] = job[b]
         /\ {l \in lines' : l.kind = "class"} = {l \in lines : l.kind = "class"}
<1> DEFINE new == [period |-> job[a].period, kind |-> "adjustment", id |-> job[a].id]
<1>1. /\ job[a].pc = "line" /\ Become(a, Idle)
      /\ UNCHANGED <<periods, anchor, classes, locks, counts>>
      /\ \/ lines' = lines
         \/ job[a].period \in Existing /\ lines' = lines \cup {new}
         \/ lines' = lines \ {new}
  BY DEF InsertAdjustment, DeleteAdjustment
<1>2. TypeOK /\ JobsOK /\ LocksOK /\ FoundOK /\ CountsOK /\ OpenHasNoLessons
  BY DEF Inductive
<1>3. job[a] \in LineJob /\ Calm(job[a])
  BY <1>1, <1>2, Shape DEF Calm
<1>4. /\ JobsOK' /\ LocksOK' /\ job'[a] = Idle
      /\ \A b \in Admins \ {a} : job'[b] = job[b]
  BY <1>1, <1>2, <1>3, CalmIdle, CalmStep
<1>5. CountsOK'
  BY <1>1, <1>2, CalmIdle, QuietCounts DEF counts, CountsOK
<1>6. new \in Adjustment /\ new.kind = "adjustment" /\ new.period = job[a].period
  BY <1>3 DEF LineJob, Adjustment
<1>7. {l \in lines' : l.kind = "class"} = {l \in lines : l.kind = "class"}
  BY <1>1, <1>6
<1>8. lines' \subseteq ClassLine \cup Adjustment /\ \A l \in lines' : l.period \in Existing
  BY <1>1, <1>2, <1>6 DEF TypeOK
<1>9. TypeOK'
  BY <1>1, <1>2, <1>8 DEF TypeOK, Existing, locks, counts
<1>10. FoundOK'
  BY <1>1, <1>2, <1>4, CalmIdle DEF FoundOK, Existing, Finalized
<1>11. OpenHasNoLessons'
  BY <1>1, <1>2, <1>7 DEF OpenHasNoLessons, Existing, Finalized
<1> QED BY <1>3, <1>4, <1>5, <1>7, <1>9, <1>10, <1>11 DEF Inductive

LEMMA LockTableStep ==
  ASSUME Inductive, NEW a \in Admins, LockTable(a)
  PROVE  Inductive'
<1>1. /\ job[a].pc = "table" /\ tableLock \subseteq {a} /\ Finalized = {}
      /\ tableLock' = {a} /\ job' = [job EXCEPT ![a].pc = "drop"]
      /\ UNCHANGED <<periods, lines, anchor, classes, rowLock, counts>>
  BY DEF LockTable
<1>2. TypeOK /\ JobsOK /\ LocksOK /\ FoundOK /\ CountsOK /\ OpenHasNoLessons
  BY DEF Inductive
<1>3. job[a] \in AnchorJob
  BY <1>1, <1>2, Shape
<1>4. job'[a].pc = "drop" /\ job'[a].op = "anchor" /\ job'[a] \in Job /\ job[a].op = "anchor"
  BY <1>1, <1>2, <1>3 DEF JobsOK, AnchorJob, Job
<1>5. \A b \in Admins \ {a} : job'[b] = job[b]
  BY <1>1, <1>2 DEF JobsOK
<1>6. JobsOK'
  BY <1>1, <1>2, <1>4 DEF JobsOK
<1>7. CountsOK'
  <2>1. Movers' = Movers
    BY <1>4, <1>5 DEF Movers
  <2> QED BY <1>1, <1>2, <2>1 DEF counts, CountsOK
<1>8. TypeOK'
  BY <1>1, <1>2 DEF TypeOK, Existing, counts
<1>9. LocksOK'
  <2>1. \A q \in PeriodId : \A b \in rowLock'[q] : job'[b].pc = "write" /\ job'[b].period = q
    BY <1>1, <1>2, <1>5 DEF LocksOK, TypeOK
  <2>2. \A b \in Admins : job'[b].pc = "write" => rowLock'[job'[b].period] = {b}
    BY <1>1, <1>2, <1>4, <1>5 DEF LocksOK
  <2>3. \A b \in Admins : b \in tableLock' <=> job'[b].pc = "drop"
    BY <1>1, <1>2, <1>4, <1>5 DEF LocksOK
  <2> QED BY <1>1, <2>1, <2>2, <2>3 DEF LocksOK
<1>10. FoundOK'
  BY <1>1, <1>2, <1>4, <1>5 DEF FoundOK, Existing, Finalized
<1>11. OpenHasNoLessons'
  BY <1>1, <1>2 DEF OpenHasNoLessons, Existing, Finalized
<1> QED BY <1>6, <1>7, <1>8, <1>9, <1>10, <1>11 DEF Inductive

LEMMA RefuseAnchorStep ==
  ASSUME Inductive, NEW a \in Admins, RefuseAnchor(a)
  PROVE  Inductive'
<1>1. job[a].pc = "table" /\ Become(a, Idle) /\ Calm(job[a])
  BY Shape DEF RefuseAnchor, Inductive, Calm
<1>2. UNCHANGED <<periods, lines, anchor, classes, locks, counts>>
  BY DEF RefuseAnchor
<1>3. CountsOK'
  BY <1>1, <1>2, CalmIdle, QuietCounts DEF counts, Inductive, CountsOK
<1> QED BY <1>1, <1>2, <1>3, CalmIdle, QuietStep DEF counts, Inductive, TypeOK

LEMMA MoveAnchorStep ==
  ASSUME Inductive, NEW a \in Admins, MoveAnchor(a)
  PROVE  /\ Inductive' /\ job[a] \in AnchorJob /\ job'[a] = Idle /\ Finalized = {}
         /\ \A b \in Admins \ {a} : job'[b] = job[b]
<1> DEFINE gone == Misaligned(job[a].anchor)
<1>1. /\ job[a].pc = "drop" /\ \A p \in gone : rowLock[p] = {}
      /\ periods' = [p \in Existing \ gone |-> periods[p]]
      /\ lines' = {l \in lines : l.period \notin gone}
      /\ anchor' = job[a].anchor /\ moves' = moves + 1
      /\ Release(a) /\ UNCHANGED <<classes, raced, edits, reopens, adjustments>>
  BY DEF MoveAnchor
<1>2. TypeOK /\ JobsOK /\ LocksOK /\ FoundOK /\ CountsOK /\ OpenHasNoLessons
  BY DEF Inductive
<1>3. job[a] \in AnchorJob /\ anchor' \in Anchors
  BY <1>1, <1>2, Shape DEF AnchorJob
<1>4. Finalized = {}
  BY <1>1, <1>2 DEF FoundOK
<1>5. /\ JobsOK' /\ LocksOK' /\ job'[a] = Idle
      /\ \A b \in Admins \ {a} : job'[b] = job[b]
      /\ rowLock' \in [PeriodId -> SUBSET Admins] /\ tableLock' \subseteq Admins
  BY <1>1, <1>2, ReleaseStep
<1>6. CountsOK'
  <2>1. Movers' = Movers \ {a} /\ a \in Movers
    BY <1>3, <1>5, CalmIdle DEF Movers, AnchorJob
  <2>2. IsFiniteSet(Movers) /\ Cardinality(Movers) \in Nat
    BY MoversFinite DEF Movers
  <2>3. Cardinality(Movers') = Cardinality(Movers) - 1
    BY <2>1, <2>2, FS_RemoveElement
  <2> QED BY <1>1, <1>2, <2>2, <2>3, CountAssumption DEF CountsOK
<1>7. Existing' = Existing \ gone /\ \A p \in Existing' : periods'[p] = periods[p]
  BY <1>1 DEF Existing
<1>8. Finalized' = {} /\ \A l \in lines : l.kind # "class"
  BY <1>2, <1>4, <1>7 DEF Finalized, OpenHasNoLessons
<1>9. TypeOK'
  <2>1. Existing' \subseteq Existing
    BY <1>7
  <2>2. lines' \subseteq lines /\ \A l \in lines' : l.period \in Existing'
    BY <1>1, <1>2, <1>7 DEF TypeOK
  <2> QED BY <1>1, <1>2, <1>3, <1>5, <1>7, <2>1, <2>2 DEF TypeOK
<1>10. FoundOK'
  <2> SUFFICES ASSUME NEW b \in Admins, job'[b].pc = "write"
               PROVE  /\ job'[b].period \in Existing'
                      /\ periods'[job'[b].period] =
                           IF job'[b].op = "finalize" THEN "open" ELSE "finalized"
    BY <1>8 DEF FoundOK
  <2>1. b # a /\ job'[b] = job[b]
    BY <1>5, CalmIdle
  <2>2. rowLock[job[b].period] = {b} /\ job[b].period \in Existing
    BY <1>2, <2>1 DEF LocksOK, FoundOK
  <2>3. job[b].period \in Existing'
    BY <1>1, <1>7, <2>2
  <2> QED BY <1>2, <1>7, <2>1, <2>3 DEF FoundOK
<1>11. OpenHasNoLessons'
  BY <1>1, <1>8 DEF OpenHasNoLessons
<1> QED BY <1>3, <1>4, <1>5, <1>6, <1>9, <1>10, <1>11 DEF Inductive

LEMMA LossStep ==
  ASSUME Inductive, NEW a \in Admins, DeadlockVictim(a) \/ Lost(a)
  PROVE  /\ Inductive' /\ job'[a] = Idle
         /\ \A b \in Admins \ {a} : job'[b] = job[b]
         /\ UNCHANGED <<periods, lines, anchor, classes, counts>>
<1>1. Release(a) /\ UNCHANGED <<periods, lines, anchor, classes, counts>>
  BY DEF DeadlockVictim, Lost
<1>2. TypeOK /\ JobsOK /\ LocksOK /\ FoundOK /\ CountsOK /\ OpenHasNoLessons
  BY DEF Inductive
<1>3. /\ JobsOK' /\ LocksOK' /\ job'[a] = Idle
      /\ \A b \in Admins \ {a} : job'[b] = job[b]
      /\ rowLock' \in [PeriodId -> SUBSET Admins] /\ tableLock' \subseteq Admins
  BY <1>1, <1>2, ReleaseStep
<1>4. CountsOK'
  BY <1>1, <1>2, <1>3, CalmIdle, CountsSame DEF counts, CountsOK
<1>5. TypeOK'
  BY <1>1, <1>2, <1>3 DEF TypeOK, Existing, counts
<1>6. FoundOK'
  BY <1>1, <1>2, <1>3, CalmIdle DEF FoundOK, Existing, Finalized
<1>7. OpenHasNoLessons'
  BY <1>1, <1>2 DEF OpenHasNoLessons, Existing, Finalized
<1> QED BY <1>1, <1>3, <1>4, <1>5, <1>6, <1>7 DEF Inductive

LEMMA EditStep ==
  ASSUME Inductive, NEW c \in Classes, EditClass(c)
  PROVE  Inductive' /\ UNCHANGED <<periods, lines, anchor, job, raced, reopens>>
<1>1. UNCHANGED <<periods, lines, anchor, job, locks, raced, moves, reopens, adjustments>>
  BY DEF EditClass
<1>2. classes' \in [Classes -> [day: Days, live: BOOLEAN, rated: BOOLEAN]]
  <2>1. PICK day \in Days, live \in BOOLEAN, rated \in BOOLEAN :
          classes' = [classes EXCEPT ![c] = [day |-> day, live |-> live, rated |-> rated]]
    BY DEF EditClass
  <2> QED BY <2>1 DEF Inductive, TypeOK
<1>3. TypeOK'
  BY <1>1, <1>2 DEF Inductive, TypeOK, Existing, locks
<1>4. CountsOK' /\ JobsOK'
  BY <1>1 DEF Inductive, CountsOK, JobsOK, Movers
<1>5. LocksOK' /\ FoundOK' /\ OpenHasNoLessons'
  BY <1>1 DEF Inductive, LocksOK, FoundOK, OpenHasNoLessons, Existing, Finalized, locks
<1> QED BY <1>1, <1>3, <1>4, <1>5 DEF Inductive

LEMMA Keeps == Inductive /\ [Next]_vars => Inductive'
<1> SUFFICES ASSUME Inductive, [Next]_vars PROVE Inductive'
  OBVIOUS
<1>1. CASE UNCHANGED vars
  BY <1>1 DEF vars, Inductive, TypeOK, JobsOK, CountsOK, LocksOK, FoundOK,
              OpenHasNoLessons, Movers, Existing, Finalized
<1>2. CASE \E c \in Classes : EditClass(c)
  BY <1>2, EditStep
<1>3. ASSUME NEW a \in Admins, Request(a) \/ Step(a) \/ Lost(a) PROVE Inductive'
  <2>1. CASE Request(a)
    BY <2>1, Requests
  <2>2. CASE Lost(a) \/ DeadlockVictim(a)
    BY <2>2, LossStep
  <2>3. CASE ReadClasses(a) \/ ReadRates(a) \/ ReadPaid(a) \/ NeedsRate(a)
             \/ RefusePeriod(a) \/ GuardLine(a)
    BY <2>3, Reads
  <2>4. CASE InsertAdjustment(a) \/ DeleteAdjustment(a)
    BY <2>4, LineStep
  <2> QED BY <1>3, <2>1, <2>2, <2>3, <2>4, EnsureStep, LockPeriodStep, FinalizeStep,
             ReopenStep, LockTableStep, RefuseAnchorStep, MoveAnchorStep DEF Step
<1> QED BY <1>1, <1>2, <1>3 DEF Next

LEMMA AlwaysInductive == Spec => []Inductive
  BY Starts, Keeps, PTL DEF Spec

-----------------------------------------------------------------------------
(* What it gives.                                                           *)

\* The types hold in every state: the rows of payroll_periods and payroll_lines,
\* one period for each start, and each line in a period that exists.
THEOREM TypeCorrect == Spec => []TypeOK
<1>1. Inductive => TypeOK
  BY DEF Inductive
<1> QED BY <1>1, AlwaysInductive, PTL

\* What has been finalized stands (payroll_finalize, payroll_reopen,
\* payroll_set_anchor): its lines stay as they were paid, the anchor its dates come
\* from does not move, and it is not deleted.
THEOREM Stands == Spec => FinalizedStands
<1> DEFINE Kept ==
      \A p \in Finalized : p \in DOMAIN periods' /\ periods'[p] = "finalized" =>
        {l \in lines' : l.period = p /\ l.kind = "class"} = ClassLinesOf(p)
           Held == /\ anchor' # anchor => Finalized = {}
                   /\ Finalized \subseteq DOMAIN periods'
<1>1. Inductive /\ [Next]_vars => Kept /\ Held
  <2> SUFFICES ASSUME Inductive, [Next]_vars PROVE Kept /\ Held
    OBVIOUS
  <2>1. ASSUME UNCHANGED <<periods, anchor>>,
               {l \in lines' : l.kind = "class"} = {l \in lines : l.kind = "class"}
        PROVE  Kept /\ Held
    BY <2>1 DEF ClassLinesOf, LinesOf, Finalized, Existing
  <2>2. CASE UNCHANGED vars
    BY <2>1, <2>2 DEF vars
  <2>3. CASE \E c \in Classes : EditClass(c)
    BY <2>1, <2>3 DEF EditClass
  <2> SUFFICES ASSUME NEW a \in Admins, Request(a) \/ Step(a) \/ Lost(a)
               PROVE  Kept /\ Held
    BY <2>2, <2>3 DEF Next
  <2>4. CASE Request(a)
    BY <2>1, <2>4 DEF Request, ReadAnchor, LoadPeriod, RequestReopen, RequestAdjustment,
                      RequestDelete, RequestAnchor
  <2>5. CASE Lost(a) \/ DeadlockVictim(a)
    BY <2>1, <2>5, LossStep
  <2>6. CASE ReadClasses(a) \/ ReadRates(a) \/ ReadPaid(a) \/ NeedsRate(a)
             \/ LockPeriod(a) \/ RefusePeriod(a) \/ GuardLine(a) \/ LockTable(a)
             \/ RefuseAnchor(a)
    BY <2>1, <2>6 DEF ReadClasses, ReadRates, ReadPaid, NeedsRate, LockPeriod, RefusePeriod,
                      GuardLine, LockTable, RefuseAnchor
  <2>7. CASE InsertAdjustment(a) \/ DeleteAdjustment(a)
    <3>1. UNCHANGED <<periods, anchor>>
      BY <2>7 DEF InsertAdjustment, DeleteAdjustment
    <3> QED BY <2>1, <2>7, <3>1, LineStep
  <2>8. CASE EnsurePeriods(a)
    BY <2>8 DEF EnsurePeriods, Finalized, Existing, ClassLinesOf, LinesOf
  <2>9. CASE Finalize(a)
    <3> DEFINE p == job[a].period
    <3>1. p \in Existing \ Finalized
      BY <2>9, FinalizeStep
    <3>2. /\ anchor' = anchor /\ DOMAIN periods' = Existing
          /\ lines' = (lines \ ClassLinesOf(p))
                      \cup {[period |-> p, kind |-> "class", class |-> l.class,
                             pay |-> l.pay] : l \in job[a].lines}
      BY <2>9 DEF Finalize, Existing
    <3>3. \A q \in Finalized : {l \in lines' : l.period = q /\ l.kind = "class"} = ClassLinesOf(q)
      BY <3>1, <3>2 DEF ClassLinesOf, LinesOf
    <3> QED BY <3>2, <3>3 DEF Finalized
  <2>10. CASE Reopen(a)
    <3> DEFINE p == job[a].period
    <3>1. /\ anchor' = anchor /\ periods' = [periods EXCEPT ![p] = "open"]
          /\ lines' = lines \ ClassLinesOf(p)
      BY <2>10 DEF Reopen
    <3>2. \A q \in Finalized : q # p =>
            {l \in lines' : l.period = q /\ l.kind = "class"} = ClassLinesOf(q)
      BY <3>1 DEF ClassLinesOf, LinesOf
    <3>3. p \in DOMAIN periods' => periods'[p] = "open"
      BY <3>1
    <3> QED BY <3>1, <3>2, <3>3 DEF Finalized, Existing
  <2>11. CASE MoveAnchor(a)
    BY <2>11, MoveAnchorStep
  <2> QED BY <2>4, <2>5, <2>6, <2>7, <2>8, <2>9, <2>10, <2>11 DEF Step
<1> QED BY <1>1, AlwaysInductive, PTL DEF Spec, FinalizedStands, ClassLinesFrozen, AnchorLocked

-----------------------------------------------------------------------------
(* Each lesson is paid once.                                                *)

LessonLines == {l \in lines : l.kind = "class"}

LEMMA PaidElsewhereIs ==
  /\ \A p, c : PaidElsewhere(p, c) <=> \E l \in LessonLines : l.period # p /\ l.class = c
  /\ \A p, c : PaidElsewhere(p, c)' <=> \E l \in LessonLines' : l.period # p /\ l.class = c
  BY DEF PaidElsewhere, LessonLines

LEMMA PaidOnceIs ==
  /\ PaidOnce <=> \A l, m \in LessonLines :
                    l.pay = "paid" /\ m.pay = "paid" /\ l.class = m.class => l = m
  /\ PaidOnce' <=> \A l, m \in LessonLines' :
                     l.pay = "paid" /\ m.pay = "paid" /\ l.class = m.class => l = m
  BY DEF PaidOnce, LessonLines

LEMMA BackedIs ==
  /\ AlreadyPaidIsBacked <=>
       (reopens = 0 => \A l \in LessonLines : l.pay = "already_paid" => PaidElsewhere(l.period, l.class))
  /\ AlreadyPaidIsBacked' <=>
       (reopens' = 0 => \A l \in LessonLines' : l.pay = "already_paid" => PaidElsewhere(l.period, l.class)')
  BY DEF AlreadyPaidIsBacked, LessonLines, PaidElsewhere

\* A step that stores no lesson line and leaves what the others carry alone.
LEMMA SamePrices ==
  ASSUME Priced, LessonLines' = LessonLines, raced' = raced, reopens' = reopens,
         \A b \in Admins :
           \/ job'[b] = job[b]
           \/ job'[b].op \notin {"finalize", "reopen"}
           \/ /\ job'[b].op = job[b].op /\ job'[b].period = job[b].period
              /\ Finalizing(b) => /\ job'[b].lines = job[b].lines
                                  /\ Computed(b)' <=> Computed(b)
  PROVE  Priced'
<1>1. /\ PaidTwiceOnlyRaced' <=> PaidTwiceOnlyRaced
      /\ AlreadyPaidIsBacked' <=> AlreadyPaidIsBacked
      /\ \A p, c : PaidElsewhere(p, c)' <=> PaidElsewhere(p, c)
  BY PaidElsewhereIs, PaidOnceIs, BackedIs DEF PaidTwiceOnlyRaced
<1>2. \A b \in Admins : Finalizing(b)' =>
        /\ Finalizing(b) /\ job'[b].lines = job[b].lines
        /\ job'[b].period = job[b].period /\ (Computed(b)' <=> Computed(b))
  BY DEF Finalizing, Computed
<1>3. \A b \in Admins : Computed(b)' => Finalizing(b)'
  BY DEF Computed, Finalizing
<1>4. OneLineEach'
  BY <1>2 DEF Priced, OneLineEach
<1>5. NewIsNew'
  BY <1>1, <1>2, <1>3 DEF Priced, NewIsNew
<1>6. OldIsBacked'
  <2>1. (\A b \in Admins : job[b].op # "reopen") => \A b \in Admins : job'[b].op # "reopen"
    OBVIOUS
  <2> QED BY <1>1, <1>2, <1>3, <2>1 DEF Priced, OldIsBacked
<1> QED BY <1>1, <1>4, <1>5, <1>6 DEF Priced

\* A step that changes what one request carries: what must be so of that request.
LEMMA OnePrice ==
  ASSUME Priced, Inductive, NEW a \in Admins, LessonLines' = LessonLines,
         reopens' = reopens, raced' \in BOOLEAN, ~raced' => ~raced,
         \A b \in Admins \ {a} : job'[b] = job[b],
         Finalizing(a)',
         \A l, m \in job'[a].lines : l.class = m.class => l = m,
         ~Computed(a)' => \A l \in job'[a].lines : l.pay # "already_paid",
         ~raced' => \A b \in Admins \ {a} : Finalizing(b) => job[b].period = job'[a].period,
         Computed(a)' => \A l \in job'[a].lines :
           (l.pay = "already_paid" => PaidElsewhere(job'[a].period, l.class))
           /\ (l.pay = "paid" => ~PaidElsewhere(job'[a].period, l.class))
  PROVE  Priced'
<1>1. /\ \A p, c : PaidElsewhere(p, c)' <=> PaidElsewhere(p, c)
      /\ PaidOnce' <=> PaidOnce
      /\ AlreadyPaidIsBacked' <=> AlreadyPaidIsBacked
  BY PaidElsewhereIs, PaidOnceIs, BackedIs
<1>2. PaidTwiceOnlyRaced'
  BY <1>1 DEF Priced, PaidTwiceOnlyRaced
<1>3. \A b \in Admins \ {a} : (Finalizing(b)' <=> Finalizing(b)) /\ (Computed(b)' <=> Computed(b))
  BY DEF Finalizing, Computed
<1>4. OneLineEach'
  BY <1>3 DEF Priced, OneLineEach
<1>5. NewIsNew'
  BY <1>1, <1>3 DEF Priced, NewIsNew
<1>6. OldIsBacked'
  <2>1. job'[a].op # "reopen"
    BY DEF Finalizing
  <2> QED BY <1>1, <1>3, <2>1 DEF Priced, OldIsBacked
<1> QED BY <1>1, <1>2, <1>4, <1>5, <1>6 DEF Priced

\* finalize: the queries that fill the lines, one after the other.
LEMMA ReadPrices ==
  ASSUME Priced, Inductive, NEW a \in Admins,
         ReadClasses(a) \/ ReadRates(a) \/ ReadPaid(a)
  PROVE  Priced'
<1>1. job[a] \in FinalizeJob /\ job \in [Admins -> Job] /\ ~Computed(a)
      /\ job[a].pc \in {"classes", "rates", "paid"}
  BY Shape DEF ReadClasses, ReadRates, ReadPaid, Inductive, JobsOK, Computed
<1>2. /\ LessonLines' = LessonLines /\ reopens' = reopens /\ raced' = raced
      /\ raced' \in BOOLEAN
  BY DEF ReadClasses, ReadRates, ReadPaid, counts, LessonLines, Inductive, TypeOK
<1>3. /\ \A l, m \in job[a].lines : l.class = m.class => l = m
      /\ \A l \in job[a].lines : l.pay # "already_paid" /\ l \in JobLine
  BY <1>1 DEF Priced, OneLineEach, Finalizing, FinalizeJob
<1>4. ~raced => \A b \in Admins \ {a} : Finalizing(b) => job[b].period = job[a].period
  BY <1>1 DEF Priced, NewIsNew, Finalizing, FinalizeJob
<1>5. CASE ReadClasses(a)
  <2> DEFINE ls == {[class |-> c, pay |-> "paid"] :
                      c \in {c \in Classes : /\ InPeriod(classes[c].day, job[a].period)
                                             /\ IsPaid(c)}}
  <2>1. /\ job'[a].op = "finalize" /\ job'[a].pc = "rates" /\ job'[a].lines = ls
        /\ job'[a].period = job[a].period /\ \A b \in Admins \ {a} : job'[b] = job[b]
    BY <1>1, <1>5 DEF ReadClasses, FinalizeJob
  <2>2. /\ \A l, m \in ls : l.class = m.class => l = m
        /\ \A l \in ls : l.pay # "already_paid"
    OBVIOUS
  <2>3. Finalizing(a)' /\ ~Computed(a)'
    BY <2>1 DEF Finalizing, Computed
  <2> HIDE DEF ls
  <2> QED BY <1>2, <1>4, <2>1, <2>2, <2>3, OnePrice
<1>6. CASE ReadRates(a)
  <2> DEFINE priced(l) == IF classes[l.class].rated THEN l ELSE [l EXCEPT !.pay = "needs_rate"]
             ls == {priced(l) : l \in job[a].lines}
  <2>1. /\ job'[a].op = "finalize" /\ job'[a].pc = "paid" /\ job'[a].lines = ls
        /\ job'[a].period = job[a].period /\ \A b \in Admins \ {a} : job'[b] = job[b]
    BY <1>1, <1>6 DEF ReadRates, FinalizeJob
  <2>2. \A l \in job[a].lines : priced(l).class = l.class /\ priced(l).pay # "already_paid"
    BY <1>3 DEF JobLine
  <2> HIDE DEF priced
  <2>3. /\ \A l, m \in ls : l.class = m.class => l = m
        /\ \A l \in ls : l.pay # "already_paid"
    BY <1>3, <2>2
  <2>4. Finalizing(a)' /\ ~Computed(a)'
    BY <2>1 DEF Finalizing, Computed
  <2> HIDE DEF ls
  <2> QED BY <1>2, <1>4, <2>1, <2>3, <2>4, OnePrice
<1>7. CASE ReadPaid(a)
  <2> DEFINE marked(l) == IF PaidElsewhere(job[a].period, l.class)
                          THEN [l EXCEPT !.pay = "already_paid"] ELSE l
             ls == {marked(l) : l \in job[a].lines}
  <2>1. /\ job'[a].op = "finalize" /\ job'[a].pc = "lock" /\ job'[a].lines = ls
        /\ job'[a].period = job[a].period /\ \A b \in Admins \ {a} : job'[b] = job[b]
    BY <1>1, <1>7 DEF ReadPaid, FinalizeJob
  <2>2. \A l \in job[a].lines :
          /\ marked(l).class = l.class
          /\ marked(l).pay = "already_paid" => PaidElsewhere(job[a].period, l.class)
          /\ marked(l).pay = "paid" => ~PaidElsewhere(job[a].period, l.class)
    BY <1>3 DEF JobLine
  <2> HIDE DEF marked
  <2>3. /\ \A l, m \in ls : l.class = m.class => l = m
        /\ \A l \in ls :
             (l.pay = "already_paid" => PaidElsewhere(job'[a].period, l.class))
             /\ (l.pay = "paid" => ~PaidElsewhere(job'[a].period, l.class))
    BY <1>3, <2>1, <2>2
  <2>4. Finalizing(a)' /\ Computed(a)'
    BY <2>1 DEF Finalizing, Computed
  <2> HIDE DEF ls
  <2> QED BY <1>2, <1>4, <2>1, <2>3, <2>4, OnePrice
<1> QED BY <1>5, <1>6, <1>7

LEMMA FinalizePrices ==
  ASSUME Priced, Inductive, NEW a \in Admins, Finalize(a)
  PROVE  Priced'
<1> DEFINE p == job[a].period
           line(l) == [period |-> p, kind |-> "class", class |-> l.class, pay |-> l.pay]
           paid == {line(l) : l \in job[a].lines}
<1>1. /\ job[a] \in FinalizeJob /\ job[a].pc = "write" /\ ClassLinesOf(p) = {}
      /\ job'[a] = Idle /\ \A b \in Admins \ {a} : job'[b] = job[b]
  BY FinalizeStep
<1>2. lines' = (lines \ ClassLinesOf(p)) \cup paid /\ UNCHANGED counts
  BY DEF Finalize
<1>3. LessonLines' = LessonLines \cup paid /\ \A l \in LessonLines : l.period # p
  BY <1>1, <1>2 DEF LessonLines, ClassLinesOf, LinesOf
<1>4. /\ \A l \in paid : l.period = p
      /\ \A l, m \in paid : l.class = m.class => l = m
  BY <1>1 DEF Priced, OneLineEach, Finalizing, FinalizeJob
<1>5. \A q, c : PaidElsewhere(q, c) => PaidElsewhere(q, c)'
  BY <1>3, PaidElsewhereIs
<1>6. \A q, c : q = p => (PaidElsewhere(q, c)' <=> PaidElsewhere(q, c))
  BY <1>3, <1>4, PaidElsewhereIs
<1>7. Computed(a) /\ Finalizing(a)
  BY <1>1 DEF Computed, Finalizing, FinalizeJob
<1>8. \A b \in Admins : Finalizing(b)' => b # a /\ job'[b] = job[b] /\ Finalizing(b)
        /\ (Computed(b)' <=> Computed(b))
  BY <1>1, CalmIdle DEF Finalizing, Computed
<1>9. \A b \in Admins : Computed(b)' => Finalizing(b)'
  BY DEF Computed, Finalizing
<1>10. OneLineEach'
  BY <1>8 DEF Priced, OneLineEach
<1>11. NewIsNew'
  <2> SUFFICES ASSUME ~raced'
               PROVE  /\ \A b, c \in Admins : Finalizing(b)' /\ Finalizing(c)'
                                              => job'[b].period = job'[c].period
                      /\ \A b \in Admins : Computed(b)' => \A l \in job'[b].lines :
                           l.pay = "paid" => ~PaidElsewhere(job[b].period, l.class)'
    BY DEF NewIsNew
  <2>1. ~raced
    BY <1>2 DEF counts
  <2>2. \A b \in Admins : Finalizing(b) => job[b].period = p
    BY <2>1, <1>7 DEF Priced, NewIsNew
  <2> QED BY <2>1, <2>2, <1>6, <1>8, <1>9 DEF Priced, NewIsNew
<1>12. OldIsBacked'
  <2>1. reopens' = reopens
    BY <1>2 DEF counts
  <2>2. \A b \in Admins : job'[b].op = "reopen" => job[b].op = "reopen"
    BY <1>1, CalmIdle
  <2> QED BY <2>1, <2>2, <1>5, <1>8, <1>9 DEF Priced, OldIsBacked
<1>13. PaidTwiceOnlyRaced'
  <2> SUFFICES ASSUME ~raced' PROVE PaidOnce'
    BY DEF PaidTwiceOnlyRaced
  <2>1. ~raced /\ PaidOnce
    BY <1>2 DEF counts, Priced, PaidTwiceOnlyRaced
  <2>2. \A l \in job[a].lines : l.pay = "paid" => ~PaidElsewhere(p, l.class)
    BY <2>1, <1>7 DEF Priced, NewIsNew
  <2>3. \A l \in paid, m \in LessonLines : l.pay = "paid" => l.class # m.class
    BY <2>2, <1>3, PaidElsewhereIs
  <2> HIDE DEF paid
  <2> QED BY <2>1, <2>3, <1>3, <1>4, PaidOnceIs
<1>14. AlreadyPaidIsBacked'
  <2> SUFFICES ASSUME reopens' = 0, NEW l \in LessonLines', l.pay = "already_paid"
               PROVE  PaidElsewhere(l.period, l.class)'
    BY BackedIs
  <2>1. reopens = 0
    BY <1>2 DEF counts
  <2>2. CASE l \in LessonLines
    BY <2>1, <2>2, <1>5, BackedIs DEF Priced
  <2>3. CASE l \in paid
    <3>1. PICK m \in job[a].lines : l = line(m)
      BY <2>3
    <3>2. PaidElsewhere(p, m.class)
      BY <2>1, <3>1, <1>7 DEF Priced, OldIsBacked
    <3> QED BY <3>1, <3>2, <1>5
  <2> QED BY <2>2, <2>3, <1>3
<1> QED BY <1>10, <1>11, <1>12, <1>13, <1>14 DEF Priced

LEMMA ReopenPrices ==
  ASSUME Priced, Inductive, NEW a \in Admins, Reopen(a)
  PROVE  Priced'
<1>1. /\ job[a] \in ReopenJob /\ job'[a] = Idle
      /\ \A b \in Admins \ {a} : job'[b] = job[b]
  BY ReopenStep
<1>2. lines' = lines \ ClassLinesOf(job[a].period) /\ UNCHANGED counts
  BY DEF Reopen
<1>3. LessonLines' \subseteq LessonLines
  BY <1>2 DEF LessonLines
<1>4. reopens' # 0
  BY <1>1, <1>2 DEF Priced, OldIsBacked, counts, ReopenJob
<1>5. \A q, c : PaidElsewhere(q, c)' => PaidElsewhere(q, c)
  BY <1>3, PaidElsewhereIs
<1>6. \A b \in Admins : Finalizing(b)' => job'[b] = job[b] /\ Finalizing(b)
        /\ (Computed(b)' <=> Computed(b))
  BY <1>1, CalmIdle DEF Finalizing, Computed
<1>7. \A b \in Admins : Computed(b)' => Finalizing(b)'
  BY DEF Computed, Finalizing
<1>8. OneLineEach'
  BY <1>6 DEF Priced, OneLineEach
<1>9. NewIsNew'
  BY <1>2, <1>5, <1>6, <1>7 DEF Priced, NewIsNew, counts
<1>10. OldIsBacked' /\ AlreadyPaidIsBacked'
  BY <1>4 DEF OldIsBacked, AlreadyPaidIsBacked
<1>11. PaidTwiceOnlyRaced'
  BY <1>2, <1>3, PaidOnceIs DEF Priced, PaidTwiceOnlyRaced, counts
<1> QED BY <1>8, <1>9, <1>10, <1>11 DEF Priced

LEMMA Prices == Priced /\ Inductive /\ [Next]_vars => Priced'
<1> SUFFICES ASSUME Priced, Inductive, [Next]_vars PROVE Priced'
  OBVIOUS
<1>i. JobsOK /\ CountsOK /\ raced \in BOOLEAN
  BY DEF Inductive, TypeOK
\* One request goes to a job that pays nothing and gives nothing back.
<1>q. ASSUME LessonLines' = LessonLines, raced' = raced, reopens' = reopens,
             NEW a \in Admins, \A b \in Admins \ {a} : job'[b] = job[b],
             job'[a].op \notin {"finalize", "reopen"}
      PROVE  Priced'
  BY <1>q, SamePrices
<1>1. CASE UNCHANGED vars
  BY <1>1, SamePrices DEF vars, LessonLines
<1>2. CASE \E c \in Classes : EditClass(c)
  BY <1>2, SamePrices DEF EditClass, LessonLines
<1> SUFFICES ASSUME NEW a \in Admins, Request(a) \/ Step(a) \/ Lost(a) PROVE Priced'
  BY <1>1, <1>2 DEF Next
<1>b. ASSUME NEW j, Become(a, j) PROVE job'[a] = j /\ \A b \in Admins \ {a} : job'[b] = job[b]
  BY <1>b, <1>i DEF Become, JobsOK
<1>3. ASSUME NEW p \in PeriodId, LoadPeriod(a, p) PROVE Priced'
  <2>1. /\ job'[a] = [op |-> "finalize", pc |-> "classes", period |-> p, lines |-> {}]
        /\ \A b \in Admins \ {a} : job'[b] = job[b]
    BY <1>3, <1>b DEF LoadPeriod
  <2>2. /\ LessonLines' = LessonLines /\ reopens' = reopens
        /\ raced' = (raced \/ \E b \in Admins : job[b].op = "finalize" /\ job[b].period # p)
    BY <1>3 DEF LoadPeriod, LessonLines
  <2>3. ~raced' => ~raced /\ \A b \in Admins \ {a} : Finalizing(b) => job[b].period = p
    BY <2>2 DEF Finalizing
  <2>4. Finalizing(a)' /\ ~Computed(a)' /\ job'[a].lines = {} /\ job'[a].period = p
    BY <2>1 DEF Finalizing, Computed
  <2>5. raced' \in BOOLEAN
    BY <2>2, <1>i
  <2> QED BY <2>1, <2>2, <2>3, <2>4, <2>5, OnePrice
<1>4. ASSUME NEW p \in PeriodId, RequestReopen(a, p) PROVE Priced'
  <2>1. /\ job'[a].op = "reopen" /\ \A b \in Admins \ {a} : job'[b] = job[b]
        /\ LessonLines' = LessonLines /\ raced' = raced /\ reopens' = reopens + 1
    BY <1>4, <1>b DEF RequestReopen, LessonLines
  <2>2. reopens' # 0
    BY <2>1, <1>i DEF CountsOK
  <2>3. \A b \in Admins : Finalizing(b)' => job'[b] = job[b] /\ Finalizing(b)
          /\ (Computed(b)' <=> Computed(b))
    BY <2>1 DEF Finalizing, Computed
  <2>4. \A b \in Admins : Computed(b)' => Finalizing(b)'
    BY DEF Computed, Finalizing
  <2>5. \A q, c : PaidElsewhere(q, c)' <=> PaidElsewhere(q, c)
    BY <2>1, PaidElsewhereIs
  <2>6. OneLineEach' /\ NewIsNew'
    BY <2>1, <2>3, <2>4, <2>5 DEF Priced, OneLineEach, NewIsNew
  <2>7. OldIsBacked' /\ AlreadyPaidIsBacked'
    BY <2>2 DEF OldIsBacked, AlreadyPaidIsBacked
  <2>8. PaidTwiceOnlyRaced'
    BY <2>1, PaidOnceIs DEF Priced, PaidTwiceOnlyRaced
  <2> QED BY <2>6, <2>7, <2>8 DEF Priced
<1>5. CASE Request(a)
  <2> SUFFICES ASSUME \/ ReadAnchor(a)
                      \/ \E p \in PeriodId : RequestAdjustment(a, p)
                      \/ \E l \in lines : RequestDelete(a, l)
                      \/ \E new \in Anchors : RequestAnchor(a, new)
               PROVE  Priced'
    BY <1>3, <1>4, <1>5 DEF Request
  <2>1. LessonLines' = LessonLines /\ raced' = raced /\ reopens' = reopens
    BY DEF ReadAnchor, RequestAdjustment, RequestDelete, RequestAnchor, counts, LessonLines
  <2>2. PICK j : Become(a, j) /\ j.op \notin {"finalize", "reopen"}
    <3>1. CASE ReadAnchor(a)
      BY <3>1 DEF ReadAnchor
    <3>2. CASE \E p \in PeriodId : RequestAdjustment(a, p)
      BY <3>2 DEF RequestAdjustment
    <3>3. CASE \E l \in lines : RequestDelete(a, l)
      BY <3>3 DEF RequestDelete
    <3>4. CASE \E new \in Anchors : RequestAnchor(a, new)
      BY <3>4 DEF RequestAnchor
    <3> QED BY <3>1, <3>2, <3>3, <3>4
  <2> QED BY <1>q, <1>b, <2>1, <2>2
<1>6. CASE Lost(a) \/ DeadlockVictim(a)
  BY <1>6, <1>q, LossStep, CalmIdle DEF counts, LessonLines
<1>7. CASE NeedsRate(a) \/ RefusePeriod(a) \/ RefuseAnchor(a) \/ EnsurePeriods(a)
  <2>1. LessonLines' = LessonLines /\ raced' = raced /\ reopens' = reopens
    BY <1>7 DEF NeedsRate, RefusePeriod, RefuseAnchor, EnsurePeriods, counts, LessonLines
  <2>2. Become(a, Idle)
    BY <1>7 DEF NeedsRate, RefusePeriod, RefuseAnchor, EnsurePeriods
  <2> QED BY <1>q, <1>b, <2>1, <2>2, CalmIdle
<1>8. CASE GuardLine(a)
  <2>1. LessonLines' = LessonLines /\ raced' = raced /\ reopens' = reopens
    BY <1>8 DEF GuardLine, counts, LessonLines
  <2>2. job[a] \in LineJob
    BY <1>8, <1>i, Shape DEF GuardLine
  <2>3. PICK j : Become(a, j) /\ j.op \notin {"finalize", "reopen"}
    BY <1>8, <2>2, CalmIdle DEF GuardLine, LineJob
  <2> QED BY <1>q, <1>b, <2>1, <2>3
<1>9. CASE LockPeriod(a)
  <2>1. job[a] \in FinalizeJob \cup ReopenJob /\ job[a].pc = "lock"
    BY <1>9, <1>i, Shape DEF LockPeriod
  <2>2. /\ job'[a] = [job[a] EXCEPT !.pc = "write"] /\ \A b \in Admins \ {a} : job'[b] = job[b]
        /\ LessonLines' = LessonLines /\ raced' = raced /\ reopens' = reopens
    BY <1>9, <1>i DEF LockPeriod, JobsOK, counts, LessonLines
  <2>3. /\ job'[a].op = job[a].op /\ job'[a].period = job[a].period
        /\ job'[a].pc = "write"
        /\ Finalizing(a) => job'[a].lines = job[a].lines
    BY <2>1, <2>2 DEF FinalizeJob, ReopenJob, Finalizing
  <2>4. Computed(a)' <=> Computed(a)
    BY <2>1, <2>3 DEF Computed, Finalizing
  <2> QED BY <2>2, <2>3, <2>4, SamePrices
<1>10. CASE InsertAdjustment(a) \/ DeleteAdjustment(a)
  <2>1. raced' = raced /\ reopens' = reopens
    BY <1>10 DEF InsertAdjustment, DeleteAdjustment, counts
  <2> QED BY <1>10, <1>q, <2>1, LineStep, CalmIdle DEF LessonLines
<1>11. CASE LockTable(a)
  <2>1. job[a] \in AnchorJob
    BY <1>11, <1>i, Shape DEF LockTable
  <2> QED BY <1>11, <1>i, <1>q, <2>1 DEF LockTable, JobsOK, AnchorJob, counts, LessonLines
<1>12. CASE MoveAnchor(a)
  <2>1. \A l \in lines : l.kind # "class"
    BY <1>12, MoveAnchorStep DEF Inductive, OpenHasNoLessons
  <2>2. LessonLines' = LessonLines /\ raced' = raced /\ reopens' = reopens
    BY <1>12, <2>1 DEF MoveAnchor, LessonLines
  <2> QED BY <1>12, <1>q, <2>2, MoveAnchorStep, CalmIdle
<1> QED BY <1>5, <1>6, <1>7, <1>8, <1>9, <1>10, <1>11, <1>12, ReadPrices, FinalizePrices,
           ReopenPrices DEF Step

\* A lesson is paid by one period at most unless two were finalized at the same
\* time, and a line that pays nothing because another one did has that other one,
\* as long as no period is reopened (PayrollService.finalize, markAlreadyPaid).
THEOREM PaidAtMostOnce == Spec => []LessonsPaidOnce
<1>1. Init => Priced
  <2> SUFFICES ASSUME Init PROVE Priced
    OBVIOUS
  <2>1. /\ lines = {} /\ reopens = 0
        /\ \A a \in Admins : ~Finalizing(a) /\ ~Computed(a) /\ job[a].op # "reopen"
    BY CalmIdle DEF Init, Finalizing, Computed
  <2> QED BY <2>1 DEF Priced, OneLineEach, NewIsNew, OldIsBacked, PaidTwiceOnlyRaced,
                      PaidOnce, AlreadyPaidIsBacked
<1>2. Inductive /\ Priced => LessonsPaidOnce
  BY DEF Inductive, Priced, LessonsPaidOnce
<1> QED BY <1>1, <1>2, Prices, AlwaysInductive, PTL DEF Spec
=============================================================================
