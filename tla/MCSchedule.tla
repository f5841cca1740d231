---- MODULE MCSchedule ----
(* What locks, leases and claims in the database keep apart, checked side by side: the     *)
(* booking of classes, the quota of drafts and the emails about open documents, each with  *)
(* its state in its module's own variables, and, in v1, v2, ..., the insurance of lessons,  *)
(* as instructors record it (insured) and as an admin changes it (edited).                 *)
EXTENDS InstructorSchedule, BioDrafts, DailyReminders, TLC

CONSTANTS c1, c2, i1, i2, s1, s2

VARIABLES
  part,  \* what this behaviour is about
  \* the variables of the insurance, in the order its module declares them
  v1, v2, v3, v4, v5, v6, v7, v8

insuranceSlots == <<v1, v2, v3, v4, v5, v6, v7, v8>>

MCSlots == {<<0, 2>>, <<2, 3>>}
MCSymmetry ==
  Permutations({c1, c2}) \cup Permutations({i1, i2}) \cup Permutations({s1, s2})

MCSeasons == [A |-> 1 .. 3, B |-> 4 .. 5]
MCLessons ==
  {[date |-> 2, hours |-> 1, students |-> 3], [date |-> 3, hours |-> 2, students |-> 1]}

Insured == INSTANCE LessonInsurance WITH
  Calls <- {"c", "d"}, Admins <- {}, Keys <- {"k"}, SeasonKeys <- {"A", "B"},
  LastDate <- 5, FirstSeasons <- MCSeasons, CapCents <- 4,
  Lessons <- {[date |-> 2, hours |-> 1, students |-> 3]},
  MaxLessons <- 2, MaxRecords <- 3, MaxEdits <- 0, MaxFaults <- 0,
  seasons <- v1, records <- v2, requests <- v3, locks <- v4, call <- v5, admin <- v6,
  edits <- v7, insuranceFaults <- v8
Edited == INSTANCE LessonInsurance WITH
  Calls <- {"c"}, Admins <- {"a"}, Keys <- {"k"}, SeasonKeys <- {"A", "B"}, LastDate <- 5,
  FirstSeasons <- MCSeasons, Lessons <- MCLessons, CapCents <- 4, MaxLessons <- 2,
  MaxRecords <- 2, MaxEdits <- 1, MaxFaults <- 1,
  seasons <- v1, records <- v2, requests <- v3, locks <- v4, call <- v5, admin <- v6,
  edits <- v7, insuranceFaults <- v8
------------------------------------------------------------------------------

SuiteInit ==
  /\ Init /\ DraftsInit /\ RemindersInit
  /\ \/ /\ part \in {"schedule", "drafts", "reminders"}
        /\ v1 = 0 /\ v2 = 0 /\ v3 = 0 /\ v4 = 0 /\ v5 = 0 /\ v6 = 0 /\ v7 = 0 /\ v8 = 0
     \/ part = "insured" /\ Insured!InsuranceInit
     \/ part = "edited" /\ Edited!InsuranceInit

ScheduleStep ==
  /\ part = "schedule" /\ Next
  /\ UNCHANGED <<part, draftVars, remindersVars, insuranceSlots>>
DraftsStep ==
  /\ part = "drafts" /\ DraftsNext
  /\ UNCHANGED <<part, vars, remindersVars, insuranceSlots>>
RemindersStep ==
  /\ part = "reminders" /\ RemindersNext
  /\ UNCHANGED <<part, vars, draftVars, insuranceSlots>>
InsuredStep ==
  /\ part = "insured" /\ Insured!InsuranceNext
  /\ UNCHANGED <<part, vars, draftVars, remindersVars>>
EditedStep ==
  /\ part = "edited" /\ Edited!InsuranceNext
  /\ UNCHANGED <<part, vars, draftVars, remindersVars>>
\* Only schedule is checked for deadlock: the others stop where their bounds end.
Stay == part # "schedule" /\ UNCHANGED <<part, vars, draftVars, remindersVars, insuranceSlots>>

SuiteNext ==
  \/ ScheduleStep \/ DraftsStep \/ RemindersStep \/ InsuredStep \/ EditedStep \/ Stay

Suite == SuiteInit /\ [][SuiteNext]_<<part, vars, draftVars, remindersVars, insuranceSlots>>

------------------------------------------------------------------------------

(* Nobody owes more than the cap or has two season passes, a key makes one record,    *)
(* and a request says what its lessons say (LessonInsurance).                         *)
InsuranceAddsUp ==
  /\ part = "insured" => Insured!InsuranceAddsUp
  /\ part = "edited" => Edited!InsuranceAddsUp
====
