--------------------------- MODULE PayrollPeriods ---------------------------
(***************************************************************************)
(* Payroll: periods, the lines they are paid by, and the pay of lessons.   *)
(*                                                                         *)
(* PayrollService computes the lines of an open period from the classes    *)
(* each time it is asked and stores them when the period is finalized.     *)
(* It reads with one query after the other and then calls one of the SQL   *)
(* functions of supabase/migrations/275_payroll.sql and 287; those take a  *)
(* lock on the period's row (for update) or on the table (share row        *)
(* exclusive), and a trigger guards the lines of finalized periods.  Each  *)
(* query is a step, and so is each wait for a lock.                        *)
(*                                                                         *)
(* Days are numbers; of a lesson only its day, whether it is cancelled and *)
(* whether it has a pay rate are kept, of a line only how it pays.         *)
(***************************************************************************)
EXTENDS Integers, FiniteSets

CONSTANTS
  Admins,         \* admin requests in progress
  Classes,
  Anchors,        \* anchor dates an admin may choose
  PeriodDays,     \* 14 in the code
  MaxDay,         \* bound: the days 0 .. MaxDay
  MaxEdits,       \* bound: edits of classes and rates
  MaxReopens,     \* bound
  MaxMoves,       \* bound: changes of the anchor
  MaxAdjustments, \* bound
  MaxChanges      \* bound: all four together

ASSUME AdminAssumption == IsFiniteSet(Admins)
ASSUME PeriodAssumption == PeriodDays \in Nat \ {0}
ASSUME DayAssumption == MaxDay \in Nat /\ Anchors \subseteq 0 .. MaxDay
ASSUME CountAssumption ==
  {MaxEdits, MaxReopens, MaxMoves, MaxAdjustments, MaxChanges} \subseteq Nat

VARIABLES
  periods,     \* payroll_periods: from the id of a row to its status
  lines,       \* payroll_lines
  anchor,      \* payroll_settings.anchor_date
  classes,     \* the day of a class, whether it is live, whether it has a rate
  job,         \* what each admin's request is doing
  rowLock,     \* per period, the request that holds its row
  tableLock,   \* the requests that hold the table payroll_periods
  raced,       \* history: two periods have been finalized at the same time
  moves,       \* how often the anchor has been changed
  edits, reopens, adjustments  \* bounds

vars == <<periods, lines, anchor, classes, job, rowLock, tableLock, raced,
          moves, edits, reopens, adjustments>>
locks == <<rowLock, tableLock>>
counts == <<raced, moves, edits, reopens, adjustments>>

-----------------------------------------------------------------------------
Days == 0 .. MaxDay
MoreChanges == edits + reopens + moves + adjustments < MaxChanges

\* A row is created at most once between two changes of the anchor.
PeriodId == Days \X (0 .. MaxMoves)
Start(p) == p[1]

Pays == {"paid", "needs_rate", "already_paid"}
ClassLine == [period: PeriodId, kind: {"class"}, class: Classes, pay: Pays]
Adjustment == [period: PeriodId, kind: {"adjustment"}, id: 1 .. MaxAdjustments]

Idle == [op |-> "none", pc |-> "idle"]

Aligned(day, a) == (day - a) % PeriodDays = 0

\* periodsAround: the periods of the anchor, as far as they are shown.
PeriodsAround(a) == {d \in Days : Aligned(d, a)}

\* startsOn <= date and date <= endsOn.
InPeriod(day, p) == day \in Start(p) .. Start(p) + PeriodDays - 1

Existing == DOMAIN periods
Finalized == {p \in Existing : periods[p] = "finalized"}
LinesOf(p) == {l \in lines : l.period = p}
ClassLinesOf(p) == {l \in LinesOf(p) : l.kind = "class"}

\* classesPaidElsewhere: the class has a line in another period.
PaidElsewhere(p, c) ==
  \E l \in lines : l.kind = "class" /\ l.period # p /\ l.class = c

\* Only completed, scheduled and missed lessons are paid.
IsPaid(c) == classes[c].live

Become(a, j) == job' = [job EXCEPT ![a] = j]

\* The end of a request, its transaction committed or rolled back.
Release(a) ==
  /\ Become(a, Idle)
  /\ rowLock' = [p \in PeriodId |-> rowLock[p] \ {a}]
  /\ tableLock' = tableLock \ {a}

-----------------------------------------------------------------------------
(* What else happens to the lessons.                                        *)

\* A class is moved, cancelled or given back, or its pay rate comes or goes.
EditClass(c) ==
  /\ edits < MaxEdits /\ MoreChanges
  /\ \E day \in Days, live, rated \in BOOLEAN :
       LET row == [day |-> day, live |-> live, rated |-> rated] IN
       /\ Cardinality({f \in DOMAIN row : row[f] # classes[c][f]}) = 1
       /\ classes' = [classes EXCEPT ![c] = row]
  /\ edits' = edits + 1
  /\ UNCHANGED <<periods, lines, anchor, job, locks, raced, moves, reopens,
                 adjustments>>

-----------------------------------------------------------------------------
(* listPeriods.                                                             *)

\* The first query reads the anchor.
ReadAnchor(a) ==
  /\ job[a] = Idle
  /\ Become(a, [op |-> "list", pc |-> "ensure", anchor |-> anchor])
  /\ UNCHANGED <<periods, lines, anchor, classes, locks, counts>>

\* Mutation: the upsert has no conflict target.
EnsureAgain(a) ==
  LET missing == PeriodsAround(job[a].anchor) IN
  /\ job[a].pc = "ensure"
  /\ tableLock \subseteq {a}
  /\ periods' = [p \in Existing \cup (missing \X {moves}) |->
                   IF p \in Existing THEN periods[p] ELSE "open"]
  /\ Become(a, Idle)
  /\ UNCHANGED <<lines, anchor, classes, locks, counts>>

\* The upsert of the periods around a date ignores those that exist.
EnsurePeriods(a) ==
  LET missing == {d \in PeriodsAround(job[a].anchor) :
                    \A p \in Existing : Start(p) # d} IN
  /\ job[a].pc = "ensure"
  /\ tableLock \subseteq {a}
  /\ periods' = [p \in Existing \cup (missing \X {moves}) |->
                   IF p \in Existing THEN periods[p] ELSE "open"]
  /\ Become(a, Idle)
  /\ UNCHANGED <<lines, anchor, classes, locks, counts>>

-----------------------------------------------------------------------------
(* finalize and reopen.                                                     *)

\* finalize calls detail, which loads the period and its adjustments.
LoadPeriod(a, p) ==
  /\ job[a] = Idle
  /\ p \in Existing \ Finalized
  /\ Become(a, [op |-> "finalize", pc |-> "classes", period |-> p, lines |-> {}])
  /\ raced' = (raced \/ \E b \in Admins : job[b].op = "finalize"
                                         /\ job[b].period # p)
  /\ UNCHANGED <<periods, lines, anchor, classes, locks, moves, edits, reopens,
                 adjustments>>

\* classesBetween: the lessons of the period that are not cancelled.
ReadClasses(a) ==
  /\ job[a].pc = "classes"
  /\ job' = [job EXCEPT
       ![a].pc = "rates",
       ![a].lines = {[class |-> c, pay |-> "paid"] :
                       c \in {c \in Classes : /\ InPeriod(classes[c].day,
                                                          job[a].period)
                                              /\ IsPaid(c)}}]
  /\ UNCHANGED <<periods, lines, anchor, classes, locks, counts>>

\* ratesFor: a lesson without a rate is flagged needs_rate.
ReadRates(a) ==
  /\ job[a].pc = "rates"
  /\ job' = [job EXCEPT
       ![a].pc = "paid",
       ![a].lines = {IF classes[l.class].rated THEN l
                     ELSE [l EXCEPT !.pay = "needs_rate"] : l \in @}]
  /\ UNCHANGED <<periods, lines, anchor, classes, locks, counts>>

\* Mutation: the lines of other periods are not looked at.
PayRegardless(a) ==
  /\ job[a].pc = "paid"
  /\ job' = [job EXCEPT ![a].pc = "lock"]
  /\ UNCHANGED <<periods, lines, anchor, classes, locks, counts>>

\* markAlreadyPaid: a lesson with a line in another period is not paid again.
\* The admin has accepted the lessons that still need a rate, if there are any.
ReadPaid(a) ==
  LET marked == {IF PaidElsewhere(job[a].period, l.class)
                 THEN [l EXCEPT !.pay = "already_paid"] ELSE l
                 : l \in job[a].lines} IN
  /\ job[a].pc = "paid"
  /\ job' = [job EXCEPT ![a].pc = "lock", ![a].lines = marked]
  /\ UNCHANGED <<periods, lines, anchor, classes, locks, counts>>

\* PERIOD_NEEDS_RATE: the admin has not.
NeedsRate(a) ==
  /\ job[a].pc = "paid"
  /\ \E l \in job[a].lines : l.pay = "needs_rate"
                             /\ ~PaidElsewhere(job[a].period, l.class)
  /\ Become(a, Idle)
  /\ UNCHANGED <<periods, lines, anchor, classes, locks, counts>>

\* reopen: the period is finalized.
RequestReopen(a, p) ==
  /\ job[a] = Idle
  /\ p \in Finalized
  /\ reopens < MaxReopens /\ MoreChanges
  /\ reopens' = reopens + 1
  /\ Become(a, [op |-> "reopen", pc |-> "lock", period |-> p])
  /\ UNCHANGED <<periods, lines, anchor, classes, locks, raced, moves, edits,
                 adjustments>>

\* Mutation: the status is not looked at again.
LockAnyPeriod(a) ==
  LET p == job[a].period IN
  /\ job[a].pc = "lock"
  /\ p \in Existing
  /\ rowLock[p] \subseteq {a}
  /\ rowLock' = [rowLock EXCEPT ![p] = {a}]
  /\ job' = [job EXCEPT ![a].pc = "write"]
  /\ UNCHANGED <<periods, lines, anchor, classes, tableLock, counts>>

\* select status ... for update, and the check of the status it finds.
LockPeriod(a) ==
  LET p == job[a].period IN
  /\ job[a].pc = "lock"
  /\ p \in Existing
  /\ rowLock[p] \subseteq {a}
  /\ periods[p] = IF job[a].op = "finalize" THEN "open" ELSE "finalized"
  /\ rowLock' = [rowLock EXCEPT ![p] = {a}]
  /\ job' = [job EXCEPT ![a].pc = "write"]
  /\ UNCHANGED <<periods, lines, anchor, classes, tableLock, counts>>

\* 'payroll period not found', 'is finalized' or 'is not finalized'.
RefusePeriod(a) ==
  LET p == job[a].period IN
  /\ job[a].pc = "lock"
  /\ p \in Existing =>
       /\ rowLock[p] \subseteq {a}
       /\ periods[p] # IF job[a].op = "finalize" THEN "open" ELSE "finalized"
  /\ Become(a, Idle)
  /\ UNCHANGED <<periods, lines, anchor, classes, locks, counts>>

\* Mutation: the update of the period does not wait for the table.
FinalizeUnderAnchor(a) ==
  LET p == job[a].period IN
  /\ job[a].op = "finalize" /\ job[a].pc = "write"
  /\ lines' = (lines \ ClassLinesOf(p))
              \cup {[period |-> p, kind |-> "class", class |-> l.class,
                     pay |-> l.pay] : l \in job[a].lines}
  /\ periods' = [periods EXCEPT ![p] = "finalized"]
  /\ Release(a)
  /\ UNCHANGED <<anchor, classes, counts>>

\* Mutation: the delete forgets the period.
FinalizeAll(a) ==
  LET p == job[a].period IN
  /\ job[a].op = "finalize" /\ job[a].pc = "write"
  /\ tableLock \subseteq {a}
  /\ lines' = {l \in lines : l.kind = "adjustment"}
              \cup {[period |-> p, kind |-> "class", class |-> l.class,
                     pay |-> l.pay] : l \in job[a].lines}
  /\ periods' = [periods EXCEPT ![p] = "finalized"]
  /\ Release(a)
  /\ UNCHANGED <<anchor, classes, counts>>

\* payroll_finalize: the class lines are replaced, the period is finalized, and
\* the transaction commits.
Finalize(a) ==
  LET p == job[a].period IN
  /\ job[a].op = "finalize" /\ job[a].pc = "write"
  /\ tableLock \subseteq {a}
  /\ lines' = (lines \ ClassLinesOf(p))
              \cup {[period |-> p, kind |-> "class", class |-> l.class,
                     pay |-> l.pay] : l \in job[a].lines}
  /\ periods' = [periods EXCEPT ![p] = "finalized"]
  /\ Release(a)
  /\ UNCHANGED <<anchor, classes, counts>>

\* payroll_reopen: the class lines are dropped, the adjustments stay.
Reopen(a) ==
  LET p == job[a].period IN
  /\ job[a].op = "reopen" /\ job[a].pc = "write"
  /\ tableLock \subseteq {a}
  /\ periods' = [periods EXCEPT ![p] = "open"]
  /\ lines' = lines \ ClassLinesOf(p)
  /\ Release(a)
  /\ UNCHANGED <<anchor, classes, counts>>

-----------------------------------------------------------------------------
(* Adjustments.                                                             *)

\* addAdjustment: loadOpenPeriod.
RequestAdjustment(a, p) ==
  /\ job[a] = Idle
  /\ adjustments < MaxAdjustments /\ MoreChanges
  /\ p \in Existing \ Finalized
  /\ adjustments' = adjustments + 1
  /\ Become(a, [op |-> "adjust", pc |-> "guard", period |-> p,
                id |-> adjustments'])
  /\ UNCHANGED <<periods, lines, anchor, classes, locks, raced, moves, edits, reopens>>

\* deleteAdjustment: loadOpenPeriod.
RequestDelete(a, l) ==
  /\ job[a] = Idle
  /\ l \in lines /\ l.kind = "adjustment"
  /\ l.period \in Existing \ Finalized
  /\ Become(a, [op |-> "delete", pc |-> "guard", period |-> l.period, id |-> l.id])
  /\ UNCHANGED <<periods, lines, anchor, classes, locks, counts>>

\* The trigger payroll_lines_guard_finalized, which locks nothing.
GuardLine(a) ==
  /\ job[a].pc = "guard"
  /\ Become(a, IF job[a].period \in Finalized THEN Idle
               ELSE [job[a] EXCEPT !.pc = "line"])
  /\ UNCHANGED <<periods, lines, anchor, classes, locks, counts>>

\* The insert commits once its foreign key has found the period, for which it
\* waits for whoever has locked the row.
InsertAdjustment(a) ==
  LET p == job[a].period IN
  /\ job[a].op = "adjust" /\ job[a].pc = "line"
  /\ rowLock[p] = {}
  /\ lines' = IF p \notin Existing THEN lines
              ELSE lines \cup {[period |-> p, kind |-> "adjustment",
                                id |-> job[a].id]}
  /\ Become(a, Idle)
  /\ UNCHANGED <<periods, anchor, classes, locks, counts>>

DeleteAdjustment(a) ==
  /\ job[a].op = "delete" /\ job[a].pc = "line"
  /\ lines' = lines \ {[period |-> job[a].period, kind |-> "adjustment",
                        id |-> job[a].id]}
  /\ Become(a, Idle)
  /\ UNCHANGED <<periods, anchor, classes, locks, counts>>

-----------------------------------------------------------------------------
(* updateSettings.                                                          *)

\* The settings are not locked: no period is finalized.
RequestAnchor(a, new) ==
  /\ job[a] = Idle
  /\ moves + Cardinality({b \in Admins : job[b].op = "anchor"}) < MaxMoves
  /\ MoreChanges
  /\ Finalized = {}
  /\ Become(a, [op |-> "anchor", pc |-> "table", anchor |-> new])
  /\ UNCHANGED <<periods, lines, anchor, classes, locks, counts>>

Misaligned(new) == {p \in Existing : ~Aligned(Start(p), new)}

\* payroll_set_anchor: lock table, and the two checks under the lock.
LockTable(a) ==
  /\ job[a].pc = "table"
  /\ tableLock \subseteq {a}
  /\ Finalized = {}
  /\ \A p \in Misaligned(job[a].anchor) : LinesOf(p) = {}
  /\ tableLock' = {a}
  /\ job' = [job EXCEPT ![a].pc = "drop"]
  /\ UNCHANGED <<periods, lines, anchor, classes, rowLock, counts>>

\* 'a payroll period is finalized' or 'payroll adjustments exist'.
RefuseAnchor(a) ==
  /\ job[a].pc = "table"
  /\ tableLock \subseteq {a}
  /\ \/ Finalized # {}
     \/ \E p \in Misaligned(job[a].anchor) : LinesOf(p) # {}
  /\ Become(a, Idle)
  /\ UNCHANGED <<periods, lines, anchor, classes, locks, counts>>

\* The misaligned periods are deleted, and their lines by the foreign key.  The
\* delete waits for the rows that are locked.
MoveAnchor(a) ==
  LET gone == Misaligned(job[a].anchor) IN
  /\ job[a].pc = "drop"
  /\ \A p \in gone : rowLock[p] = {}
  /\ periods' = [p \in Existing \ gone |-> periods[p]]
  /\ lines' = {l \in lines : l.period \notin gone}
  /\ anchor' = job[a].anchor
  /\ moves' = moves + 1
  /\ Release(a)
  /\ UNCHANGED <<classes, raced, edits, reopens, adjustments>>

-----------------------------------------------------------------------------
\* d holds the table and waits for the row of a period, w holds the row and waits
\* for the table.
Deadlocked(d, w) ==
  /\ job[d].pc = "drop" /\ job[w].pc = "write"
  /\ rowLock[job[w].period] = {w}
  /\ job[w].period \in Misaligned(job[d].anchor)

\* The database gives up one of the two.
DeadlockVictim(a) ==
  /\ \E b \in Admins : Deadlocked(a, b) \/ Deadlocked(b, a)
  /\ Release(a)
  /\ UNCHANGED <<periods, lines, anchor, classes, counts>>

\* The request is lost; the database rolls its transaction back.
Lost(a) ==
  /\ job[a] # Idle
  /\ Release(a)
  /\ UNCHANGED <<periods, lines, anchor, classes, counts>>

-----------------------------------------------------------------------------
Init ==
  /\ anchor \in Anchors
  /\ periods = [p \in PeriodsAround(anchor) \X {0} |-> "open"]
  /\ lines = {}
  /\ classes \in [Classes -> [day: Days, live: {TRUE}, rated: {TRUE}]]
  /\ job = [a \in Admins |-> Idle]
  /\ rowLock = [p \in PeriodId |-> {}]
  /\ tableLock = {}
  /\ raced = FALSE
  /\ moves = 0 /\ edits = 0 /\ reopens = 0 /\ adjustments = 0

Request(a) ==
  \/ ReadAnchor(a)
  \/ \E p \in PeriodId : \/ LoadPeriod(a, p)
                         \/ RequestReopen(a, p)
                         \/ RequestAdjustment(a, p)
  \/ \E l \in lines : RequestDelete(a, l)
  \/ \E new \in Anchors : RequestAnchor(a, new)

Step(a) ==
  \/ EnsurePeriods(a)
  \/ ReadClasses(a) \/ ReadRates(a) \/ ReadPaid(a) \/ NeedsRate(a)
  \/ LockPeriod(a) \/ RefusePeriod(a) \/ Finalize(a) \/ Reopen(a)
  \/ GuardLine(a) \/ InsertAdjustment(a) \/ DeleteAdjustment(a)
  \/ LockTable(a) \/ RefuseAnchor(a) \/ MoveAnchor(a)
  \/ DeadlockVictim(a)

Next ==
  \/ \E a \in Admins : Request(a) \/ Step(a) \/ Lost(a)
  \/ \E c \in Classes : EditClass(c)

Spec == Init /\ [][Next]_vars

-----------------------------------------------------------------------------
(* Properties.                                                              *)

TypeOK ==
  /\ Existing \subseteq PeriodId
  /\ \A p \in Existing : periods[p] \in {"open", "finalized"}
  /\ \A p, q \in Existing : Start(p) = Start(q) => p = q
  /\ lines \subseteq ClassLine \cup Adjustment
  /\ \A l \in lines : l.period \in Existing
  /\ anchor \in Anchors
  /\ classes \in [Classes -> [day: Days, live: BOOLEAN, rated: BOOLEAN]]
  /\ rowLock \in [PeriodId -> SUBSET Admins] /\ tableLock \subseteq Admins
  /\ raced \in BOOLEAN

\* A lesson is paid by one period at most, although it may be moved to another
\* one, be finalized there and be priced from queries made at different times.
PaidOnce ==
  \A l, m \in {n \in lines : n.kind = "class" /\ n.pay = "paid"} :
    l.class = m.class => l = m

\* That takes two periods that are finalized at the same time.  One after the
\* other, finalize, reopen and the anchor leave a lesson with one paid line.
PaidTwiceOnlyRaced == raced \/ PaidOnce

\* As long as no period is reopened, a line that says already_paid, and pays
\* nothing, is backed by a line of another period, whatever was moved or finalized
\* between the queries it was computed from.
AlreadyPaidIsBacked ==
  reopens = 0 => \A l \in lines :
    l.kind = "class" /\ l.pay = "already_paid" => PaidElsewhere(l.period, l.class)

\* While a period stays finalized its class lines are what was paid: neither a
\* second finalize nor a reopen that lost a race changes them.
ClassLinesFrozen ==
  [][\A p \in Finalized : p \in DOMAIN periods' /\ periods'[p] = "finalized" =>
       {l \in lines' : l.period = p /\ l.kind = "class"} = ClassLinesOf(p)]_vars

\* The anchor moves only while no period is finalized, and a finalized period is
\* never deleted with its lines.
AnchorLocked ==
  [][/\ anchor' # anchor => Finalized = {}
     /\ Finalized \subseteq DOMAIN periods']_vars

(* What the lines of all periods say of a lesson: it is paid once, but by periods  *)
(* finalized at the same time, and a line that pays nothing because another one     *)
(* did has that other one.  With the types of the state.                            *)
LessonsPaidOnce == TypeOK /\ PaidTwiceOnlyRaced /\ AlreadyPaidIsBacked

(* What has been finalized stands: neither its lines nor the anchor its dates come  *)
(* from change under it, and it is not deleted.                                     *)
FinalizedStands == ClassLinesFrozen /\ AnchorLocked
=============================================================================
