---- MODULE MyLessons ----
(* What an instructor is shown of her lessons and her pay, read with one query after the other while *)
(* lessons are moved, rates edited and periods finalized and reopened.                                *)
(*   payroll/me-lessons.service.ts, payroll-lines.ts, payroll.repository.ts, lessons/pay-rates.ts,     *)
(*   lessons/pay-rates.service.ts, supabase/migrations/272_booking_foundation.sql (pay_rates)           *)
(* finalize and reopen are as in PayrollPeriods, one at a time; one lesson type, hours folded into     *)
(* the rate, and no adjustments.                                                                        *)
EXTENDS Integers, FiniteSets

CONSTANTS
  Lessons,
  Days, PeriodDays,
  Today,          \* lessons before it are over
  RateRows,       \* rates an admin may save: [scope, from, to, amount], scope "me" or "default"
  MaxRates,       \* bound: rates saved
  MaxEdits,       \* bound: edits of lessons
  MaxClosings     \* bound: periods finalized and reopened

VARIABLES
  lesson,         \* [day, live, who]
  rates,          \* pay_rates
  finalized,      \* the periods finalized, by their first day
  lines,          \* their class lines: [lesson, period, who, amount, paid]
  closing,        \* a finalize in progress: its period and lines
  view,           \* the request of "me"
  stirred,        \* history: something it reads changed after the request began
  saved, edits, closings

lessonVars == <<lesson, rates, finalized, lines, closing, view, stirred, saved, edits, closings>>
lessonBudgets == <<saved, edits, closings>>

Me == "me"
People == {Me, "other"}
NoRate == 0
None == -1
Idle == [pc |-> "idle"]
PeriodOf(day) == day - (day % PeriodDays)
Periods == {PeriodOf(d) : d \in Days}

LessonsInit ==
  /\ lesson \in [Lessons -> [day: Days, live: {TRUE}, who: {Me}]]
  /\ rates = {} /\ finalized = {} /\ lines = {}
  /\ closing = Idle /\ view = Idle /\ stirred = FALSE
  /\ saved = 0 /\ edits = 0 /\ closings = 0

Stir == stirred' = (stirred \/ view # Idle)

------------------------------------------------------------------------------
(* Pay rates. *)
(* Mutation: the last day is not part of the range. *)
MeetHalfOpen(a, b) == a.scope = b.scope /\ a.from < b.to /\ b.from < a.to
(* pay_rates_no_overlap: daterange(effective_from, effective_to, '[]') *)
Meet(a, b) == a.scope = b.scope /\ a.from <= b.to /\ b.from <= a.to

(* create and update: the range is checked, and kept apart from the others by the database. *)
SaveRate(old, new) ==
  /\ saved < MaxRates /\ saved' = saved + 1
  /\ new.from <= new.to
  /\ \A r \in rates \ old : ~Meet(r, new)
  /\ rates' = (rates \ old) \cup {new}
  /\ Stir
  /\ UNCHANGED <<lesson, finalized, lines, closing, view, edits, closings>>

EffectiveOn(r, day) == r.from <= day /\ day <= r.to

(* Mutation: the default comes first. *)
ResolveDefault(rs, who, day) ==
  LET of(scope) == {r \in rs : r.scope = scope /\ EffectiveOn(r, day)}
      best(s) == (CHOOSE r \in s : \A q \in s : q.from <= r.from).amount IN
  IF of("default") # {} THEN best(of("default")) ELSE IF of(who) # {} THEN best(of(who)) ELSE NoRate
(* resolveRate: the instructor's own, else the default; the latest of several. *)
ResolveRate(rs, who, day) ==
  LET of(scope) == {r \in rs : r.scope = scope /\ EffectiveOn(r, day)}
      best(s) == (CHOOSE r \in s : \A q \in s : q.from <= r.from).amount IN
  IF of(who) # {} THEN best(of(who)) ELSE IF of("default") # {} THEN best(of("default")) ELSE NoRate

(* classLine *)
ClassLine(c, row, rs) == [lesson |-> c, who |-> row.who, amount |-> ResolveRate(rs, row.who, row.day)]

------------------------------------------------------------------------------
(* Lessons are moved, given to somebody else, cancelled. *)
EditLesson(c, row) ==
  /\ edits < MaxEdits /\ edits' = edits + 1
  /\ row # lesson[c]
  /\ lesson' = [lesson EXCEPT ![c] = row]
  /\ Stir
  /\ UNCHANGED <<rates, finalized, lines, closing, view, saved, closings>>

(* finalize: the lines are computed, then stored; a lesson with a line elsewhere is not paid again. *)
ComputeLines(p) ==
  /\ closing = Idle /\ p \notin finalized /\ closings < MaxClosings /\ closings' = closings + 1
  /\ LET here == {c \in Lessons : lesson[c].live /\ PeriodOf(lesson[c].day) = p}
         elsewhere == {l.lesson : l \in {k \in lines : k.period # p}} IN
     closing' = [pc |-> "commit", period |-> p,
                 lines |-> {LET l == ClassLine(c, lesson[c], rates) IN
                            [lesson |-> c, period |-> p, who |-> l.who, paid |-> c \notin elsewhere,
                             amount |-> IF c \in elsewhere THEN NoRate ELSE l.amount] : c \in here}]
  /\ UNCHANGED <<lesson, rates, finalized, lines, view, stirred, saved, edits>>

StoreLines ==
  /\ closing # Idle /\ closing' = Idle
  /\ lines' = lines \cup closing.lines
  /\ finalized' = finalized \cup {closing.period}
  /\ Stir
  /\ UNCHANGED <<lesson, rates, view, lessonBudgets>>

Reopen(p) ==
  /\ p \in finalized /\ closing = Idle /\ closings < MaxClosings /\ closings' = closings + 1
  /\ finalized' = finalized \ {p}
  /\ lines' = {l \in lines : l.period # p}
  /\ Stir
  /\ UNCHANGED <<lesson, rates, closing, view, saved, edits>>

------------------------------------------------------------------------------
(* lessons: the lock of the account decides how much is shown. *)
Ask(lock) ==
  /\ view = Idle
  /\ lock # "onboarding"
  /\ view' = [pc |-> "first", lock |-> lock, left |-> {"classes", "lines"},
              classes |-> [c \in {} |-> None], lines |-> {}, rates |-> {}, paidIn |-> {}, periods |-> {}]
  /\ stirred' = FALSE
  /\ UNCHANGED <<lesson, rates, finalized, lines, closing, lessonBudgets>>

Reading(what) == view # Idle /\ what \in view.left
Read(what, next, new) ==
  LET left == view.left \ {what} IN
  /\ view' = [new EXCEPT !.left = IF left # {} THEN left
                                  ELSE IF view.pc = "first" THEN {"rates", "paidIn"}
                                  ELSE IF view.pc = "second" THEN {"periods"} ELSE {},
                         !.pc = IF left # {} THEN view.pc ELSE next]
  /\ UNCHANGED <<lesson, rates, finalized, lines, closing, stirred, lessonBudgets>>

(* classesForInstructor *)
ReadClasses ==
  /\ Reading("classes")
  /\ Read("classes", "second",
          [view EXCEPT !.classes = [c \in {d \in Lessons : lesson[d].live /\ lesson[d].who = Me} |-> lesson[c]]])

(* linesForInstructor; each comes with its period. *)
ReadLines ==
  /\ Reading("lines")
  /\ LET mine == {l \in lines : l.who = Me} IN
     Read("lines", "second",
          [view EXCEPT !.lines = mine, !.periods = {l.period : l \in mine}])

(* ratesFor *)
ReadRates == Reading("rates") /\ Read("rates", "third", [view EXCEPT !.rates = rates])

(* classLinePeriods *)
ReadPaid ==
  /\ Reading("paidIn")
  /\ Read("paidIn", "third",
          [view EXCEPT !.paidIn = {<<l.lesson, l.period>> : l \in {k \in lines : k.lesson \in DOMAIN view.classes}}])

(* Periods with lessons of hers and no line. *)
Missing == {PeriodOf(view.classes[c].day) : c \in {d \in DOMAIN view.classes : view.classes[d].day < Today}}
             \ view.periods

(* periodsStartingOn *)
ReadPeriods ==
  /\ Reading("periods")
  /\ Read("periods", "answer", [view EXCEPT !.periods = view.periods \cup (Missing \cap finalized)])

(* Mutation: lines elsewhere do not count. *)
PaidOutsideNever(c, p) == FALSE
(* paidOutside *)
PaidOutside(c, p) == \E k \in view.paidIn : k[1] = c /\ k[2] # p

(* Mutation: a line that pays nothing because another one does is shown. *)
ShownLineAll(l) == TRUE
(* The stored lines that are shown. *)
ShownLine(l) == l.paid

(* What a finalized period shows is stored, what an open one shows is computed. *)
StoredIn(p) == {[lesson |-> l.lesson, in |-> p, amount |-> l.amount] :
                  l \in {k \in view.lines : k.period = p /\ ShownLine(k)}}
LiveIn(p) == {[lesson |-> c, in |-> p, amount |-> ClassLine(c, view.classes[c], view.rates).amount] :
                c \in {d \in DOMAIN view.classes :
                         /\ view.classes[d].day < Today
                         /\ PeriodOf(view.classes[d].day) = p
                         /\ ~PaidOutside(d, p)}}

Upcoming ==
  {[lesson |-> c, in |-> None, amount |-> ClassLine(c, view.classes[c], view.rates).amount] :
     c \in {d \in DOMAIN view.classes : view.classes[d].day >= Today /\ ~PaidOutside(d, None)}}

Shown ==
  UNION {IF p \in view.periods THEN StoredIn(p) ELSE LiveIn(p) : p \in Periods}
    \cup IF view.lock = "none" THEN Upcoming ELSE {}

Answer ==
  /\ view # Idle /\ view.pc = "answer"
  /\ view' = Idle /\ stirred' = FALSE
  /\ UNCHANGED <<lesson, rates, finalized, lines, closing, lessonBudgets>>

LessonsNext ==
  \/ \E new \in RateRows : \E old \in {{}} \cup {{r} : r \in rates} : SaveRate(old, new)
  \/ \E c \in Lessons, row \in [day: Days, live: BOOLEAN, who: People] : EditLesson(c, row)
  \/ \E p \in Periods : ComputeLines(p) \/ Reopen(p)
  \/ StoreLines
  \/ \E lock \in {"none", "certification"} : Ask(lock)
  \/ ReadClasses \/ ReadLines \/ ReadRates \/ ReadPaid \/ ReadPeriods \/ Answer

LessonsSpec == LessonsInit /\ [][LessonsNext]_lessonVars

------------------------------------------------------------------------------
Paid(c) == {l \in lines : l.lesson = c /\ l.paid}
ShownAs(c) == {s \in Shown : s.lesson = c}
Due(c) == /\ lesson[c].live /\ lesson[c].who = Me /\ Paid(c) = {}
          /\ PeriodOf(lesson[c].day) \notin finalized
          /\ \A l \in lines : l.lesson # c

(* An answer during which nothing changed shows a lesson that has been paid to her once, in the period *)
(* that paid it and with what it paid, wherever the lesson has been moved since; and a lesson that is    *)
(* still to be paid once, in its period or among the upcoming, at the one rate in force that day.        *)
ViewAddsUp ==
  view # Idle /\ view.pc = "answer" /\ ~stirred =>
    \A c \in Lessons :
      /\ Cardinality(ShownAs(c)) <= 1
      /\ \A l \in Paid(c) : l.who = Me =>
           ShownAs(c) = {[lesson |-> c, in |-> l.period, amount |-> l.amount]}
      /\ Due(c) /\ (view.lock = "none" \/ lesson[c].day < Today) =>
           \E s \in ShownAs(c) :
             /\ s.in = IF lesson[c].day < Today THEN PeriodOf(lesson[c].day) ELSE None
             /\ LET force(scope) == {r \in rates : r.scope = scope /\ EffectiveOn(r, lesson[c].day)} IN
                \A r \in rates :
                  r \in force(Me) \/ (force(Me) = {} /\ r \in force("default")) => s.amount = r.amount
====
