---- MODULE LessonInsurance ----
(* What one instructor owes for lesson insurance, and the seasons it is counted in.  *)
(*   insurance/me-insurance.service.ts, admin-insurance.service.ts, insurance.presenters *)
(*   insurance/lesson-insurance.repository.ts, seasons/seasons.service.ts                 *)
(*   supabase/migrations/291_seasons.sql, 293 (register, admin_grant_pass),                *)
(*   307_lesson_insurance_requests.sql (submit_request, request_transition)                *)
(* Each call of the database is a transaction: what it inserts is its own until it           *)
(* commits, what it reads is whatever has committed by then. Advisory locks on a season       *)
(* and on the key of a request order the calls; admins and edits of seasons take none.         *)
EXTENDS Naturals, FiniteSets, SequencesExt, FiniteSetsExt

CONSTANTS
  Calls,          \* calls of instructors and admins that may run at once
  Admins,
  Keys,           \* idempotency keys
  SeasonKeys,
  LastDate,       \* dates are 1..LastDate
  FirstSeasons,   \* the seasons at the start: a function from keys to sets of dates
  Lessons,        \* lessons somebody may register: date, hours, students
  CapCents,       \* in units of 1000 cents
  MaxLessons,     \* MAX_REQUEST_LESSONS
  MaxRecords,     \* bound: records
  MaxEdits,       \* bound: changes of the seasons
  MaxFaults       \* bound: transactions that fail

VARIABLES
  seasons,        \* seasons[k]: its dates; {} when there is no such season
  records,        \* lesson_insurance_records by number: a sequence
  requests,       \* lesson_insurance_requests by number: a sequence
  locks,          \* advisory locks: the call that holds each, or Nobody
  call,           \* call[c]: a transaction in progress
  admin,          \* admin[a]: the change an admin makes to a record it has read
  edits,
  insuranceFaults

insuranceVars == <<seasons, records, requests, locks, call, admin, edits, insuranceFaults>>
tables == <<records, requests>>

Nobody == "nobody"
NoKey == "no key"
Ranges == {d \in {a..b : a, b \in 1..LastDate} : Cardinality(d) > 1}
Idle == [at |-> "idle", what |-> "lesson", key |-> NoKey, lessons |-> <<>>, season |-> NoKey,
         rows |-> <<>>, paid |-> FALSE, redated |-> FALSE]
NoChange == [op |-> "none", record |-> 0, from |-> "none"]

InsuranceInit ==
  /\ seasons = FirstSeasons /\ records = <<>> /\ requests = <<>>
  /\ locks = [l \in SeasonKeys \cup Keys |-> Nobody]
  /\ call = [c \in Calls |-> Idle] /\ admin = [a \in Admins |-> NoChange]
  /\ edits = 0 /\ insuranceFaults = 0

ToCall(c, s) == call' = [call EXCEPT ![c] = s]
Released(c) == [l \in DOMAIN locks |-> IF locks[l] = c THEN Nobody ELSE locks[l]]
Answer(c) == ToCall(c, Idle) /\ locks' = Released(c)

(* select key from seasons where the date is between starts_on and ends_on. *)
SeasonOf(date) ==
  IF \E k \in SeasonKeys : date \in seasons[k]
  THEN CHOOSE k \in SeasonKeys : date \in seasons[k] ELSE NoKey

ListCents(lesson) == lesson.hours * Min({lesson.students, 4})
Sum(rows, Counts(_)) == MapThenSumSet(LAMBDA i : rows[i].amount, {i \in DOMAIN rows : Counts(rows[i])})

(* totalsOf *)
TotalsOf(rows) ==
  LET live(r) == r.status # "voided"
      paid(r) == r.status = "paid"
      unpaid(r) == r.status = "unpaid"
  IN  [owed |-> Sum(rows, live), paid |-> Sum(rows, paid), unpaid |-> Sum(rows, unpaid)]
InSeason(rows, k) == LET there(r) == r.season = k IN SelectSeq(rows, there)
HasPass(rows) == \E i \in DOMAIN rows : rows[i].kind = "season_pass" /\ rows[i].status # "voided"

------------------------------------------------------------------------------
(* registerLesson, submitRequest and grantSeasonPass: the transactions *)

Begin(c, s) ==
  /\ call[c].at = "idle" /\ Len(records) + Len(s.lessons) <= MaxRecords
  /\ ToCall(c, [s EXCEPT !.at = "open"])
  /\ UNCHANGED <<seasons, tables, locks, admin, edits, insuranceFaults>>
Register(key, lesson) == [Idle EXCEPT !.what = "lesson", !.key = key, !.lessons = <<lesson>>]
Submit(key, lessons) == [Idle EXCEPT !.what = "request", !.key = key, !.lessons = lessons]
GrantPass(k, paid) == [Idle EXCEPT !.what = "pass", !.season = k, !.paid = paid]

RegisterLesson(c, key, lesson) == Begin(c, Register(key, lesson))
SubmitRequest(c, key, lessons) == Begin(c, Submit(key, lessons))
(* A pass has a key of its own; the season is one the service has found. *)
GrantSeasonPass(c, k, paid) ==
  /\ seasons[k] # {} /\ Len(records) < MaxRecords
  /\ Begin(c, GrantPass(k, paid))

Existing(s) == s.key # NoKey /\
  \E i \in DOMAIN records : records[i].key = s.key /\ records[i].request = 0

(* lesson_insurance_register, before its lock. *)
OpenRegister(c) ==
  /\ call[c].at = "open" /\ call[c].what # "request"
  /\ LET s == call[c]
         k == IF s.what = "pass" THEN s.season ELSE SeasonOf(s.lessons[1].date)
     IN  IF Existing(s) \/ k = NoKey \/ (k # NoKey /\ seasons[k] = {})
         THEN ToCall(c, Idle) ELSE ToCall(c, [s EXCEPT !.at = "wait", !.season = k])
  /\ UNCHANGED <<seasons, tables, locks, admin, edits, insuranceFaults>>

(* lesson_insurance_submit_request: the lock of its key, then the season of every lesson. *)
OpenRequest(c) ==
  /\ call[c].at = "open" /\ call[c].what = "request" /\ locks[call[c].key] = Nobody
  /\ LET s == call[c]
         found == {SeasonOf(s.lessons[i].date) : i \in DOMAIN s.lessons}
         k == CHOOSE x \in found : TRUE
     IN  IF \/ \E i \in DOMAIN requests : requests[i].key = s.key
            \/ Cardinality(found) # 1 \/ k = NoKey
         THEN ToCall(c, Idle) /\ UNCHANGED locks
         ELSE /\ ToCall(c, [s EXCEPT !.at = "wait", !.season = k])
              /\ locks' = [locks EXCEPT ![s.key] = c]
  /\ UNCHANGED <<seasons, tables, admin, edits, insuranceFaults>>

(* The lock of the season; then the key is looked for again, or the row of the request *)
(* is inserted and holds its season. Mutation: nothing is locked.                       *)
FreeAlways(c, k) == TRUE
Free(c, k) == locks[k] \in {Nobody, c}
Enter(c) ==
  /\ call[c].at = "wait" /\ Free(c, call[c].season)
  /\ LET s == call[c] IN
     IF (s.what # "request" /\ Existing(s)) \/ (s.what = "request" /\ seasons[s.season] = {})
     THEN Answer(c)
     ELSE ToCall(c, [s EXCEPT !.at = "price"]) /\ locks' = [locks EXCEPT ![s.season] = c]
  /\ UNCHANGED <<seasons, tables, admin, edits, insuranceFaults>>

(* A row; its amount, given what is owed in its season already. *)
Record(kind, k, key, amount, status) ==
  [kind |-> kind, season |-> k, key |-> key, request |-> 0, amount |-> amount, status |-> status]
Lesson(key, k, list, owed) ==
  IF owed >= CapCents THEN Record("lesson", k, key, 0, "not_required")
  ELSE Record("lesson", k, key, Min({list, CapCents - owed}), "unpaid")
Pass(k, owed, paid) ==
  Record("season_pass", k, NoKey, CapCents - owed, IF paid THEN "paid" ELSE "unpaid")

(* What this transaction sees. Mutation: it does not see the rows it has inserted. *)
SeenCommitted(c) == records
Seen(c) == records \o call[c].rows

(* A lesson: in a request, its season is looked up and locked again. *)
Price(c) ==
  /\ call[c].at = "price" /\ call[c].what # "pass" /\ Len(call[c].rows) < Len(call[c].lessons)
  /\ LET s == call[c]
         lesson == s.lessons[Len(s.rows) + 1]
         k == IF s.what = "request" THEN SeasonOf(lesson.date) ELSE s.season
     IN  IF k = NoKey \/ (k # NoKey /\ seasons[k] = {})
         THEN Answer(c)
         ELSE /\ Free(c, k) /\ locks' = [locks EXCEPT ![k] = c]
              /\ LET row == Lesson(IF s.what = "request" THEN NoKey ELSE s.key, k, ListCents(lesson),
                                   TotalsOf(InSeason(Seen(c), k)).owed)
                 IN  ToCall(c, [s EXCEPT !.rows = Append(@, row)])
  /\ UNCHANGED <<seasons, tables, admin, edits, insuranceFaults>>

(* already_has_pass, already_covered *)
PricePass(c) ==
  /\ call[c].at = "price" /\ call[c].what = "pass" /\ call[c].rows = <<>>
  /\ LET s == call[c] there == InSeason(records, s.season) owed == TotalsOf(there).owed
     IN  IF HasPass(there) \/ owed >= CapCents \/ seasons[s.season] = {}
         THEN Answer(c)
         ELSE ToCall(c, [s EXCEPT !.rows = <<Pass(s.season, owed, s.paid)>>]) /\ UNCHANGED locks
  /\ UNCHANGED <<seasons, tables, admin, edits, insuranceFaults>>

(* The end of the transaction. The rows of a key are unique; a request gets its total. *)
Request(s, total) ==
  [season |-> s.season, key |-> s.key, total |-> total, lessons |-> Len(s.lessons),
   status |-> IF total > 0 THEN "unpaid" ELSE "not_required", redated |-> s.redated]
Commit(c) ==
  /\ call[c].at = "price" /\ Len(call[c].rows) = Max({1, Len(call[c].lessons)})
  /\ LET s == call[c]
         number == IF s.what = "request" THEN Len(requests) + 1 ELSE 0
         request == Request(s, TotalsOf(s.rows).owed)
     IN  IF s.what = "lesson" /\ Existing(s)
         THEN UNCHANGED tables
         ELSE /\ records' = records \o [i \in DOMAIN s.rows |-> [s.rows[i] EXCEPT !.request = number]]
              /\ requests' = IF s.what = "request" THEN Append(requests, request) ELSE requests
  /\ Answer(c)
  /\ UNCHANGED <<seasons, admin, edits, insuranceFaults>>

(* A statement fails, or the database ends a deadlock: everything is rolled back. *)
RollBack(c) ==
  /\ call[c].at \in {"wait", "price"} /\ insuranceFaults < MaxFaults
  /\ insuranceFaults' = insuranceFaults + 1
  /\ Answer(c)
  /\ UNCHANGED <<seasons, tables, admin, edits>>

------------------------------------------------------------------------------
(* The admin's changes of a status *)

Ops == {"mark_paid", "mark_unpaid", "void"}
Allowed(op, status) == CASE op = "mark_paid" -> status = "unpaid"
                         [] op = "mark_unpaid" -> status = "paid"
                         [] op = "void" -> status # "voided"
Result(op) == CASE op = "mark_paid" -> "paid" [] op = "mark_unpaid" -> "unpaid" [] op = "void" -> "voided"

(* lesson_insurance_request_transition: the request is locked, its lessons follow it. *)
(* Mutation: a void follows only where a payment was asked for.                        *)
FollowsUnpaid(op, r) == r.status = IF op = "mark_unpaid" THEN "paid" ELSE "unpaid"
Follows(op, r) == Allowed(op, r.status)
Transition(q, op) ==
  /\ Allowed(op, requests[q].status)
  /\ requests' = [requests EXCEPT ![q].status = Result(op)]
  /\ records' = [i \in DOMAIN records |->
       IF records[i].request = q /\ Follows(op, records[i])
       THEN [records[i] EXCEPT !.status = Result(op)] ELSE records[i]]

(* markRequestPaid, markRequestUnpaid, voidRequest *)
TransitionRequest(q, op) ==
  /\ q \in DOMAIN requests /\ Transition(q, op)
  /\ UNCHANGED <<seasons, locks, call, admin, edits, insuranceFaults>>

(* markPaid, markUnpaid, void: the record is read and its status compared ... *)
FindRecord(i) == {j \in DOMAIN records : j = i}
ReadRecord(a, i, op) ==
  /\ admin[a] = NoChange /\ FindRecord(i) # {} /\ Allowed(op, records[i].status)
  /\ admin' = [admin EXCEPT ![a] = [op |-> op, record |-> i, from |-> records[i].status]]
  /\ UNCHANGED <<seasons, tables, locks, call, edits, insuranceFaults>>

(* ... and the lesson of a request changes with its request, another record only *)
(* while it has the status that was read (updateIfStatus).                        *)
ApplyChange(a) ==
  /\ admin[a] # NoChange
  /\ LET op == admin[a].op i == admin[a].record r == records[i] IN
     \/ r.request # 0 /\ Transition(r.request, op)
     \/ /\ r.request # 0 /\ ~Allowed(op, requests[r.request].status) /\ UNCHANGED tables
     \/ /\ r.request = 0 /\ UNCHANGED requests
        /\ records' = IF r.status = admin[a].from
                      THEN [records EXCEPT ![i].status = Result(op)] ELSE records
  /\ admin' = [admin EXCEPT ![a] = NoChange]
  /\ UNCHANGED <<seasons, locks, call, edits, insuranceFaults>>

------------------------------------------------------------------------------
(* SeasonsService: seasons never overlap; one that is referenced is not deleted. *)

Redate(k, dates) ==
  /\ edits < MaxEdits /\ edits' = edits + 1
  /\ \A l \in SeasonKeys \ {k} : seasons[l] \cap dates = {}
  /\ seasons' = [seasons EXCEPT ![k] = dates]
  /\ call' = [c \in Calls |-> IF call[c].at = "idle" THEN Idle ELSE [call[c] EXCEPT !.redated = TRUE]]
  /\ UNCHANGED <<tables, locks, admin, insuranceFaults>>
CreateSeason(k, dates) == seasons[k] = {} /\ Redate(k, dates)
UpdateSeason(k, dates) == seasons[k] # {} /\ dates # seasons[k] /\ Redate(k, dates)

Refers(k) ==
  \/ \E i \in DOMAIN records : records[i].season = k
  \/ \E i \in DOMAIN requests : requests[i].season = k
  \/ \E c \in Calls :
       /\ call[c].at = "price"
       /\ \/ call[c].what = "request" /\ call[c].season = k
          \/ \E i \in DOMAIN call[c].rows : call[c].rows[i].season = k
RemoveSeason(k) == seasons[k] # {} /\ ~Refers(k) /\ Redate(k, {})

InsuranceNext ==
  \/ \E c \in Calls :
       \/ \E key \in Keys :
            \/ \E l \in Lessons : RegisterLesson(c, key, l)
            \/ \E n \in 1..MaxLessons : \E ls \in [1..n -> Lessons] : SubmitRequest(c, key, ls)
       \/ \E k \in SeasonKeys, paid \in BOOLEAN : GrantSeasonPass(c, k, paid)
       \/ OpenRegister(c) \/ OpenRequest(c) \/ Enter(c) \/ Price(c) \/ PricePass(c)
       \/ Commit(c) \/ RollBack(c)
  \/ \E q \in 1..MaxRecords, op \in Ops : TransitionRequest(q, op)
  \/ \E a \in Admins :
       (\E i \in 1..MaxRecords, op \in Ops : ReadRecord(a, i, op)) \/ ApplyChange(a)
  \/ \E k \in SeasonKeys :
       (\E r \in Ranges : CreateSeason(k, r) \/ UpdateSeason(k, r)) \/ RemoveSeason(k)

InsuranceSpec == InsuranceInit /\ [][InsuranceNext]_insuranceVars

------------------------------------------------------------------------------
LessonsOf(q) == LET of(r) == r.request = q IN SelectSeq(records, of)

(* Whatever calls run at once and however they are repeated, and while admins void and   *)
(* seasons move: an instructor never owes more than the cap in a season and never has two *)
(* season passes; a key makes one record and one request; and a request says what its      *)
(* lessons say - their number, their sum, their status, and their season too, unless the    *)
(* seasons were edited while it was being made.                                             *)
InsuranceAddsUp ==
  /\ \A k \in SeasonKeys :
       /\ TotalsOf(InSeason(records, k)).owed <= CapCents
       /\ Cardinality({i \in DOMAIN records :
            records[i].kind = "season_pass" /\ records[i].season = k /\ records[i].status # "voided"}) <= 1
  /\ \A i, j \in DOMAIN records : i # j /\ records[i].key # NoKey => records[i].key # records[j].key
  /\ \A p, q \in DOMAIN requests : p # q => requests[p].key # requests[q].key
  /\ \A q \in DOMAIN requests :
       LET lessons == LessonsOf(q) amount(r) == TRUE IN
       /\ Len(lessons) = requests[q].lessons /\ Sum(lessons, amount) = requests[q].total
       /\ \A i \in DOMAIN lessons :
            /\ \/ lessons[i].status = requests[q].status
               \/ lessons[i].status = "not_required" /\ requests[q].status # "voided"
            /\ requests[q].redated \/ lessons[i].season = requests[q].season
====
