---- MODULE MCPayroll ----
(* What lessons earn, checked side by side: the payroll, with its state in the module's *)
(* own variables, and, in v1, v2, ..., the instructor's view of what was and will be    *)
(* paid.                                                                               *)
EXTENDS PayrollPeriods, TLC

CONSTANTS a1, a2, c1

VARIABLES
  part,  \* what this behaviour is about
  \* the variables of that part, in the order its module declares them
  v1, v2, v3, v4, v5, v6, v7, v8, v9, v10

slots == <<v1, v2, v3, v4, v5, v6, v7, v8, v9, v10>>

MCSymmetry == Permutations({a1, a2})

MCRates ==
  {[scope |-> "me", from |-> 0, to |-> 1, amount |-> 1],
   [scope |-> "me", from |-> 1, to |-> 3, amount |-> 2],
   [scope |-> "default", from |-> 0, to |-> 3, amount |-> 3]}

MyView == INSTANCE MyLessons WITH
  Lessons <- {"l"}, Days <- 1 .. 3, PeriodDays <- 2, Today <- 3, RateRows <- MCRates,
  MaxRates <- 2, MaxEdits <- 1, MaxClosings <- 1,
  lesson <- v1, rates <- v2, finalized <- v3, lines <- v4, closing <- v5, view <- v6,
  stirred <- v7, saved <- v8, edits <- v9, closings <- v10

------------------------------------------------------------------------------

SuiteInit ==
  /\ Init
  /\ \/ /\ part = "payroll"
        /\ v1 = 0 /\ v2 = 0 /\ v3 = 0 /\ v4 = 0 /\ v5 = 0 /\ v6 = 0 /\ v7 = 0 /\ v8 = 0 /\ v9 = 0
        /\ v10 = 0
     \/ /\ part = "lessons" /\ MyView!LessonsInit
  \* The module's own variables rest in one state while a behaviour is about another part.
  /\ part # "payroll" => anchor = 0 /\ \A c \in Classes : classes[c].day = 0

PayrollStep == part = "payroll" /\ Next /\ UNCHANGED <<part, slots>>
MyViewStep == part = "lessons" /\ MyView!LessonsNext /\ UNCHANGED <<part, vars>>
\* Only payroll is checked for deadlock: the others stop where their bounds end.
Stay == part # "payroll" /\ UNCHANGED <<part, vars, slots>>

SuiteNext ==
  \/ PayrollStep \/ MyViewStep \/ Stay

Suite == SuiteInit /\ [][SuiteNext]_<<part, vars, slots>>

------------------------------------------------------------------------------

(* A lesson is shown once, in the period that paid it with what it paid, or as still  *)
(* to be paid, at the one rate of its day (MyLessons).                                *)
ViewAddsUp == part = "lessons" => MyView!ViewAddsUp
====
