---- MODULE MCCalendar ----
(* What hangs on Google Calendar, checked side by side, one per behaviour: the sync  *)
(* of booked classes, the token of the connection and the import of classes from a    *)
(* calendar's file, with their state in their modules' own variables, and, in v1, v2, *)
(* ..., the times offered to students and the bookings of them (three instances).     *)
EXTENDS CalendarSync, GoogleToken, ClassImports, TLC

CONSTANTS c1, cal1, cal2, none, api, worker

VARIABLES
  part,  \* what this behaviour is about
  \* the variables of that part, in the order its module declares them
  v1, v2, v3, v4, v5, v6, v7, v8, v9, v10, v11, v12, v13, v14

slots == <<v1, v2, v3, v4, v5, v6, v7, v8, v9, v10, v11, v12, v13, v14>>

Line(id, name, event) ==
  [id |-> id, name |-> name, event |-> event, valid |-> TRUE, deleted |-> FALSE]
MCFiles ==
  [f1 |-> <<Line("x", "ann", "e"), Line("y", "who", "e")>>,
   f2 |-> <<[Line("x", "ann", "e") EXCEPT !.deleted = TRUE],
            [Line("z", "ann", "e") EXCEPT !.valid = FALSE]>>]
MCNameMatch == [ann |-> "i1", who |-> "instructor_not_found"]

Asked == INSTANCE BookingOffers WITH
  Instructors <- {"i"}, Calendars <- {"c"}, Askers <- {"x", "y"}, Bookers <- {},
  Classes <- {}, Minutes <- {1, 2}, Durations <- {1}, Windows <- {{1, 2}, {2}}, TTL <- 1,
  LastMinute <- 1, MaxEvents <- 1, MaxChanges <- 1, MaxFaults <- 1,
  now <- v1, window <- v2, bookable <- v3, link <- v4, writable <- v5, foreign <- v6,
  classes <- v7, left <- v8, access <- v9, busy <- v10, req <- v11, events <- v12,
  changes <- v13, googleFaults <- v14
Taken == INSTANCE BookingOffers WITH
  Instructors <- {"i", "j"}, Calendars <- {"c", "d"}, Askers <- {}, Bookers <- {"x"},
  Classes <- {"k"}, Minutes <- {1, 2}, Durations <- {1}, Windows <- {{1, 2}}, TTL <- 1,
  LastMinute <- 1, MaxEvents <- 1, MaxChanges <- 0, MaxFaults <- 0,
  now <- v1, window <- v2, bookable <- v3, link <- v4, writable <- v5, foreign <- v6,
  classes <- v7, left <- v8, access <- v9, busy <- v10, req <- v11, events <- v12,
  changes <- v13, googleFaults <- v14
Cached == INSTANCE BookingOffers WITH
  Instructors <- {"i"}, Calendars <- {"c"}, Askers <- {"y"}, Bookers <- {"x"},
  Classes <- {"k"}, Minutes <- {1}, Durations <- {1}, Windows <- {{1}}, TTL <- 2,
  LastMinute <- 1, MaxEvents <- 1, MaxChanges <- 0, MaxFaults <- 0,
  now <- v1, window <- v2, bookable <- v3, link <- v4, writable <- v5, foreign <- v6,
  classes <- v7, left <- v8, access <- v9, busy <- v10, req <- v11, events <- v12,
  changes <- v13, googleFaults <- v14
------------------------------------------------------------------------------

SuiteInit ==
  /\ Init /\ GoogleInit /\ ImportsInit
  /\ \/ /\ part \in {"sync", "google", "imports"}
        /\ v1 = 0 /\ v2 = 0 /\ v3 = 0 /\ v4 = 0 /\ v5 = 0 /\ v6 = 0 /\ v7 = 0 /\ v8 = 0 /\ v9 = 0
        /\ v10 = 0 /\ v11 = 0 /\ v12 = 0 /\ v13 = 0 /\ v14 = 0
     \/ /\ part = "asked" /\ Asked!OffersInit
     \/ /\ part = "taken" /\ Taken!OffersInit
     \/ /\ part = "cached" /\ Cached!OffersInit
  /\ part # "imports" => eventMap = [e \in Events |-> None]

resting == <<part, vars, googleVars, importVars>>

SyncStep == part = "sync" /\ Next /\ UNCHANGED <<part, googleVars, importVars, slots>>
AskedStep == part = "asked" /\ Asked!OffersNext /\ UNCHANGED resting
TakenStep == part = "taken" /\ Taken!OffersNext /\ UNCHANGED resting
CachedStep == part = "cached" /\ Cached!OffersNext /\ UNCHANGED resting
GoogleStep == part = "google" /\ GoogleNext /\ UNCHANGED <<part, vars, importVars, slots>>
ImportsStep == part = "imports" /\ ImportsNext /\ UNCHANGED <<part, vars, googleVars, slots>>

SuiteNext ==
  \/ SyncStep \/ AskedStep \/ TakenStep \/ CachedStep \/ GoogleStep \/ ImportsStep

Suite == SuiteInit /\ [][SuiteNext]_<<resting, slots>>

------------------------------------------------------------------------------

(* An offered time is free, and a booking is clear, by what Google and the database  *)
(* say while the request runs, cache or not (BookingOffers).                         *)
OffersHold ==
  [][/\ part = "asked" => Asked!OffersHold
     /\ part = "taken" => Taken!OffersHold
     /\ part = "cached" => Cached!OffersHold]_<<resting, slots>>
====
