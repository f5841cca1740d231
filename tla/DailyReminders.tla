---- MODULE DailyReminders ----
(* The daily run of reminders and the reminders of open documents:               *)
(*   reminders/daily-reminders.worker.ts, daily-reminder-runs.repository.ts       *)
(*   documents/document-reminders.service.ts, document-assignments.repository.ts  *)
(*   supabase/migrations/297_daily_reminder_runs.sql                              *)
(* A worker takes the lease of the day's row and renews it from a timer and        *)
(* before each email; POST internal/documents/reminders sends the same emails      *)
(* without a lease. Two emails about one assignment are kept apart by claims, not  *)
(* by the lease. Each instructor has one assignment here; a step is one query or   *)
(* one email; a run may last into the next day.                                    *)
EXTENDS Naturals

CONSTANTS
  Workers,       \* machines of the worker group
  Endpoints,     \* requests of POST internal/documents/reminders
  Assignments,   \* open instructor assignments
  Interval,      \* REMINDER_INTERVAL_MS, in days
  LastDay,       \* bound: the days are Interval .. LastDay
  MaxByHand,     \* bound: requests and reminders by hand
  MaxFaults      \* bound: crashes, failed queries, leases that run out early

VARIABLES
  today,
  runRow,         \* daily_reminder_runs: attempts stands for lock_token
  job,            \* job[p]: the run of a worker or request
  open,           \* the assignments that are open, of a live template
  able,           \* the assignments of active, approved instructors
  sentAt,         \* reminder_sent_at, Never or the day
  claimedAt,      \* reminder_claimed_at
  lastMail,       \* history: the day on which a run sent its last email
  doubled,        \* history: the assignments reminded again too early
  givenBack,      \* history: the claims given back although their email had gone
  served,         \* the email provider: the days whose key it has sent an email for
  byHand,
  reminderFaults

remindersVars == <<today, runRow, job, open, able, sentAt, claimedAt, lastMail, doubled,
                   givenBack, served, byHand, reminderFaults>>

Never == 0
Days == Interval .. LastDay
Jobs == Workers \cup Endpoints
NoRun == [attempts |-> 0, leased |-> FALSE, held |-> FALSE, finished |-> FALSE]
NoJob == [pc |-> "idle", now |-> Never, token |-> 0, holds |-> FALSE, due |-> {}, at |-> 0]

RemindersInit ==
  /\ today = Interval
  /\ runRow = [d \in Days |-> NoRun]
  /\ job = [p \in Jobs |-> NoJob]
  /\ open = Assignments /\ able = Assignments
  /\ sentAt = [a \in Assignments |-> Never] /\ claimedAt = [a \in Assignments |-> Never]
  /\ lastMail = [a \in Assignments |-> Never] /\ doubled = {} /\ givenBack = {}
  /\ served = [a \in Assignments |-> {}]
  /\ byHand = 0 /\ reminderFaults = 0

Fault == reminderFaults < MaxFaults /\ reminderFaults' = reminderFaults + 1
Goes(p, to) == job' = [job EXCEPT ![p] = to]
emails == <<lastMail, doubled, givenBack, served>>
rows == <<today, open, able, sentAt, claimedAt, emails, byHand>>

------------------------------------------------------------------------------
(* The lease of a day *)

(* held: lock_token is set; leased: locked_until is ahead. *)
Owns(p) == /\ runRow[job[p].now].held /\ runRow[job[p].now].attempts = job[p].token
RowOf(p) == runRow[job[p].now]

(* try_start_daily_reminders: an unfinished run nobody holds any more. *)
Startable(row) == ~row.finished /\ ~row.leased

TryStart(w) ==
  /\ job[w].pc = "idle" /\ Startable(runRow[today])
  /\ runRow' = [runRow EXCEPT ![today].attempts = @ + 1, ![today].leased = TRUE,
                              ![today].held = TRUE]
  /\ Goes(w, [NoJob EXCEPT !.pc = "list", !.now = today, !.token = runRow'[today].attempts,
                           !.holds = TRUE])
  /\ UNCHANGED <<rows, reminderFaults>>

(* renew_daily_reminders looks at the token, not at locked_until: a lease that ran *)
(* out comes back when nobody took it.                                            *)
Renewable(p) == Owns(p) /\ ~RowOf(p).finished
Renewed(p) == runRow' = IF Renewable(p) THEN [runRow EXCEPT ![job[p].now].leased = TRUE] ELSE runRow

(* The timer of RunLease. *)
Heartbeat(w) ==
  /\ job[w].holds
  /\ Renewed(w)
  /\ Goes(w, [job[w] EXCEPT !.holds = Renewable(w)])
  /\ runRow' # runRow \/ job' # job
  /\ UNCHANGED <<rows, reminderFaults>>

RenewalFails(w) ==
  /\ job[w].holds /\ Fault
  /\ Goes(w, [job[w] EXCEPT !.holds = FALSE])
  /\ UNCHANGED <<rows, runRow>>

(* locked_until passes, of a dead holder or of one that does not renew. *)
Holding(d) == {w \in Workers : job[w].now = d /\ job[w].token = runRow[d].attempts /\ job[w].holds}

LeaseEnds(d) ==
  /\ runRow[d].leased
  /\ IF Holding(d) = {} THEN UNCHANGED reminderFaults ELSE Fault
  /\ runRow' = [runRow EXCEPT ![d].leased = FALSE]
  /\ UNCHANGED <<rows, job>>

------------------------------------------------------------------------------
(* DocumentRemindersService.remindOpenAssignments *)

StartEndpoint(r) ==
  /\ job[r].pc = "idle" /\ byHand < MaxByHand
  /\ byHand' = byHand + 1
  /\ Goes(r, [NoJob EXCEPT !.pc = "list", !.now = today])
  /\ UNCHANGED <<today, runRow, open, able, sentAt, claimedAt, emails, reminderFaults>>

Before(at, now) == at = Never \/ at + Interval <= now     \* older than the cutoff

List(p) ==
  /\ job[p].pc = "list"
  /\ Goes(p, [job[p] EXCEPT !.pc = "next", !.due = {a \in open : Before(sentAt[a], job[p].now)}])
  /\ UNCHANGED <<rows, runRow, reminderFaults>>

Skipping(p, a) == [job[p] EXCEPT !.pc = "next", !.due = @ \ {a}, !.at = 0]

FindInstructor(p, a) ==
  /\ job[p].pc = "next" /\ a \in job[p].due
  /\ Goes(p, IF a \in able THEN [job[p] EXCEPT !.pc = "gate", !.at = a] ELSE Skipping(p, a))
  /\ UNCHANGED <<rows, runRow, reminderFaults>>

(* canSend: a worker renews its lease, and stops when that fails. *)
CanSend(p) == p \in Endpoints \/ (job[p].holds /\ Renewable(p))

Gate(p) ==
  /\ job[p].pc = "gate"
  /\ IF p \in Workers /\ job[p].holds THEN Renewed(p) ELSE UNCHANGED runRow
  /\ Goes(p, IF CanSend(p) THEN [job[p] EXCEPT !.pc = "claim"]
             ELSE [job[p] EXCEPT !.pc = "next", !.due = {}, !.holds = FALSE])
  /\ UNCHANGED <<rows, reminderFaults>>

(* claim_document_reminders. *)
ClaimableUnsent(p, a) == a \in open /\ Before(sentAt[a], job[p].now)  \* mutation: claims are ignored
Claimable(p, a) == /\ a \in open
                   /\ Before(sentAt[a], job[p].now) /\ Before(claimedAt[a], job[p].now)

Claim(p) ==
  /\ job[p].pc = "claim"
  /\ IF Claimable(p, job[p].at)
     THEN /\ claimedAt' = [claimedAt EXCEPT ![job[p].at] = job[p].now]
          /\ Goes(p, [job[p] EXCEPT !.pc = "send"])
     ELSE Goes(p, Skipping(p, job[p].at)) /\ UNCHANGED claimedAt
  /\ UNCHANGED <<today, runRow, open, able, sentAt, emails, byHand, reminderFaults>>

(* The provider sends one email under a key, that of the day of the run. *)
Mails(p) ==
  LET a == job[p].at IN
  /\ served' = [served EXCEPT ![a] = @ \cup {job[p].now}]
  /\ IF job[p].now \in served[a] THEN UNCHANGED <<lastMail, doubled>>
     ELSE /\ lastMail' = [lastMail EXCEPT ![a] = today]
          /\ doubled' = IF Before(lastMail[a], today + 1) \/ a \in givenBack
                        THEN doubled ELSE doubled \cup {a}
  /\ givenBack' = givenBack \ {a}

(* sendReminder never throws: it says sent or failed, and failed too when all that  *)
(* sendWithRetry has seen of the provider's answers is that they were late.         *)
Send(p) ==
  LET Answered(pc) == Goes(p, [job[p] EXCEPT !.pc = pc]) IN
  /\ job[p].pc = "send"
  /\ \/ Mails(p) /\ Answered("stamp") /\ UNCHANGED reminderFaults
     \/ Mails(p) /\ Answered("unsure") /\ Fault
     \/ UNCHANGED emails /\ Answered("release") /\ Fault
  /\ UNCHANGED <<today, runRow, open, able, sentAt, claimedAt, byHand>>

Stamp(p) ==
  /\ job[p].pc = "stamp"
  /\ sentAt' = [sentAt EXCEPT ![job[p].at] = job[p].now]
  /\ Goes(p, Skipping(p, job[p].at))
  /\ UNCHANGED <<today, runRow, open, able, claimedAt, emails, byHand, reminderFaults>>

(* releaseReminderClaim, whether the email has gone or not. *)
ReleaseClaim(p) ==
  LET a == job[p].at
      mine == claimedAt[a] = job[p].now
  IN
  /\ job[p].pc \in {"release", "unsure"}
  /\ claimedAt' = IF mine THEN [claimedAt EXCEPT ![a] = Never] ELSE claimedAt
  /\ givenBack' = IF mine /\ job[p].pc = "unsure" THEN givenBack \cup {a} ELSE givenBack
  /\ Goes(p, Skipping(p, a))
  /\ UNCHANGED <<today, runRow, open, able, sentAt, lastMail, doubled, served, byHand,
                 reminderFaults>>

(* A query fails: the loop goes on with the next instructor. *)
Throws(p) ==
  /\ job[p].pc \in {"claim", "stamp", "release", "unsure"} /\ Fault
  /\ Goes(p, Skipping(p, job[p].at))
  /\ UNCHANGED <<rows, runRow>>

(* remindOne, by an admin, claims nothing. *)
RemindOne(a) ==
  /\ a \in open /\ byHand < MaxByHand
  /\ byHand' = byHand + 1
  /\ sentAt' = [sentAt EXCEPT ![a] = today]
  /\ UNCHANGED <<today, runRow, job, open, able, claimedAt, emails, reminderFaults>>

------------------------------------------------------------------------------
(* The rest of a run *)

(* After certifications, invites and exports, which are modelled where they belong; *)
(* a run that lost its lease ends after the part it was in.                         *)
Rest(p) ==
  /\ job[p].pc = "next" /\ job[p].due = {}
  /\ Goes(p, IF job[p].holds THEN [job[p] EXCEPT !.pc = "finish"] ELSE NoJob)
  /\ UNCHANGED <<rows, runRow, reminderFaults>>

(* finish_daily_reminders. *)
Finish(w) ==
  /\ job[w].pc = "finish"
  /\ runRow' = IF Owns(w) THEN [runRow EXCEPT ![job[w].now] =
                                  [@ EXCEPT !.leased = FALSE, !.held = FALSE, !.finished = TRUE]]
               ELSE runRow
  /\ Goes(w, NoJob)
  /\ UNCHANGED <<rows, reminderFaults>>

Crash(p) ==
  /\ job[p].pc # "idle" /\ Fault
  /\ Goes(p, NoJob)
  /\ UNCHANGED <<rows, runRow>>

NextDay ==
  /\ today < LastDay /\ \A p \in Jobs : job[p].now \in {Never, today}
  /\ today' = today + 1
  /\ UNCHANGED <<runRow, job, open, able, sentAt, claimedAt, emails, byHand, reminderFaults>>

(* An assignment is signed or archived, or its template retired; an instructor is   *)
(* deactivated.                                                                     *)
Close(a) ==
  /\ a \in open
  /\ \/ open' = open \ {a} /\ UNCHANGED able
     \/ able' = able \ {a} /\ able' # able /\ UNCHANGED open
  /\ UNCHANGED <<today, runRow, job, sentAt, claimedAt, emails, byHand, reminderFaults>>

------------------------------------------------------------------------------

JobStep(p) ==
  \/ List(p) \/ Gate(p) \/ Claim(p) \/ Send(p) \/ Stamp(p) \/ ReleaseClaim(p) \/ Rest(p) \/ Finish(p)
  \/ \E a \in Assignments : FindInstructor(p, a)

RemindersNext ==
  \/ NextDay
  \/ \E d \in Days : LeaseEnds(d)
  \/ \E w \in Workers : TryStart(w) \/ Heartbeat(w) \/ RenewalFails(w)
  \/ \E r \in Endpoints : StartEndpoint(r)
  \/ \E p \in Jobs : JobStep(p) \/ Throws(p) \/ Crash(p)
  \/ \E a \in Assignments : RemindOne(a) \/ Close(a)

RemindersSpec == RemindersInit /\ [][RemindersNext]_remindersVars

------------------------------------------------------------------------------

RemindersTypeOK ==
  /\ today \in Days /\ byHand \in 0 .. MaxByHand /\ reminderFaults \in 0 .. MaxFaults
  /\ open \subseteq Assignments /\ able \subseteq Assignments /\ doubled \subseteq Assignments
  /\ givenBack \subseteq Assignments /\ served \in [Assignments -> SUBSET Days]
  /\ \A d \in Days : /\ runRow[d].attempts \in Nat
                     /\ runRow[d].leased => runRow[d].held
                     /\ runRow[d].finished => ~runRow[d].held
  /\ \A a \in Assignments : {sentAt[a], claimedAt[a], lastMail[a]} \subseteq Days \cup {Never}
  /\ \A p \in Jobs : /\ job[p].now \in Days \cup {Never} /\ job[p].due \subseteq Assignments
                     /\ job[p].pc = "idle" <=> job[p].now = Never

(* Whatever runs overlap, lose their lease or die, their emails about one assignment  *)
(* are an interval apart, less the day into which the earlier run may have lasted     *)
(* (claims are dated by the start of a run), unless the earlier one was reported as   *)
(* failed although it had gone and its claim was given back; the one after it is      *)
(* again on record. "A claim whose email may have gone out holds for 7 days"          *)
(* (document-reminders.service.ts) is so when the process dies or the query fails,    *)
(* and not when the provider's answer is lost.                                        *)
RemindedApart == doubled = {}

(* The day whose time is not up gets its run finished, by whichever worker. *)
DayIsDone == runRow[LastDay].finished
====
