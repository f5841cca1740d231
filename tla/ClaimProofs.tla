---- MODULE ClaimProofs ----
(* What is claimed before it is done: the reminder of an assignment (DailyReminders), and *)
(* a slot of the quota of drafts (BioDrafts).                                             *)
EXTENDS DailyReminders, BioDrafts, TLAPS, FiniteSetTheorems, WellFoundedInduction

(* DailyReminders, for any machines, requests and assignments, and any number of days,  *)
(* faults and reminders by hand: the emails of runs about one assignment are an interval *)
(* apart, less the day into which a run may last, unless the claim of one that had gone  *)
(* was given back.  What keeps them apart is the claim, which only one run holds at a    *)
(* time; a claim that is given back leaves no trace, so the invariant also says that by  *)
(* then the time of the email before is up, or that it is such a claim.                  *)

(* The interval (7 days) is longer than a run may last into the next day. *)
Bounds ==
  /\ Interval \in Nat /\ Interval >= 2 /\ LastDay \in Nat /\ Interval <= LastDay
  /\ MaxByHand \in Nat /\ MaxFaults \in Nat

Claiming == {"send", "stamp", "unsure", "release"}
Busy == {"gate", "claim"} \cup Claiming

Run == {row \in [attempts: Nat, leased: BOOLEAN, held: BOOLEAN, finished: BOOLEAN] :
          (row.leased => row.held) /\ (row.finished => ~row.held)}
Job == [pc: {"idle", "list", "next", "finish"} \cup Busy, now: Days \cup {Never}, token: Nat,
        holds: BOOLEAN, due: SUBSET Assignments, at: Assignments \cup {0}]

(* A run is from today or yesterday, and knows about whom it writes. *)
JobOK(j) ==
  /\ j.pc = "idle" <=> j.now = Never
  /\ j.pc # "idle" => j.now <= today /\ today <= j.now + 1
  /\ j.pc \in Busy => j.at \in Assignments
  /\ j.holds => j.pc # "idle"

Typed ==
  /\ today \in Days /\ byHand \in 0 .. MaxByHand /\ reminderFaults \in 0 .. MaxFaults
  /\ open \subseteq Assignments /\ able \subseteq Assignments
  /\ runRow \in [Days -> Run]
  /\ job \in [Jobs -> Job] /\ \A p \in Jobs : JobOK(job[p])
  /\ sentAt \in [Assignments -> Days \cup {Never}]
  /\ claimedAt \in [Assignments -> Days \cup {Never}]
  /\ lastMail \in [Assignments -> Days \cup {Never}]
  /\ givenBack \subseteq Assignments /\ served \in [Assignments -> SUBSET Days]

NotAhead ==
  \A a \in Assignments : sentAt[a] <= today /\ claimedAt[a] <= today /\ lastMail[a] <= today

(* An email about the assignment may go out, or has nothing left to keep it back. *)
TimeUp(a) == Before(lastMail[a], today + 1)
MayMail(a) == TimeUp(a) \/ a \in givenBack

(* The last email is on record, as a claim or as sent, or another may go out. *)
Recorded ==
  \A a \in Assignments :
    lastMail[a] <= claimedAt[a] + 1 \/ lastMail[a] <= sentAt[a] + 1 \/ MayMail(a)

(* Whoever is about to send, or has just sent, holds the claim, alone. *)
ClaimHeld ==
  /\ \A p \in Jobs : job[p].pc \in Claiming => claimedAt[job[p].at] = job[p].now
  /\ \A p, q \in Jobs : job[p].pc \in Claiming /\ job[q].pc \in Claiming /\ job[p].at = job[q].at
                          => p = q

(* A claim was made when an email might go out; after the email it dates from it. *)
ClaimMeans ==
  \A p \in Jobs :
    /\ job[p].pc \in {"send", "release"} => MayMail(job[p].at)
    /\ job[p].pc = "stamp" => lastMail[job[p].at] <= job[p].now + 1

Inductive == Typed /\ NotAhead /\ Recorded /\ ClaimHeld /\ ClaimMeans /\ RemindedApart

------------------------------------------------------------------------------
(* Runs. *)

LEMMA InitInductive ==
  ASSUME Bounds, RemindersInit
  PROVE  Inductive
<1>1. NoJob \in Job /\ NoJob.pc = "idle" /\ NoJob.now = Never
  BY DEF NoJob, Job, Never
<1>2. NoRun \in Run
  BY DEF NoRun, Run
<1>3. Interval \in Days /\ Interval \in Nat /\ Never \notin Days
  BY DEF Bounds, Days, Never
<1>4. Typed
  <2>1. JobOK(NoJob)
    BY DEF NoJob, JobOK, Busy, Claiming, Never
  <2>2. \A p \in Jobs : job[p] = NoJob
    BY DEF RemindersInit
  <2>3. \A p \in Jobs : JobOK(job[p])
    BY <2>1, <2>2
  <2> QED BY <1>1, <1>2, <1>3, <2>3 DEF Bounds, RemindersInit, Typed
<1>5. NotAhead /\ Recorded /\ RemindedApart
  BY <1>3 DEF RemindersInit, NotAhead, Recorded, RemindedApart, Never
<1>6. ClaimHeld /\ ClaimMeans
  BY <1>1 DEF RemindersInit, ClaimHeld, ClaimMeans, Claiming
<1> QED BY <1>4, <1>5, <1>6 DEF Inductive

(* Days are numbers, and Never is none of them. *)
LEMMA Numbers ==
  ASSUME Bounds, Inductive
  PROVE  /\ today \in Nat /\ today >= Interval /\ today <= LastDay
         /\ \A d \in Days : d \in Nat /\ d >= 2
         /\ \A a \in Assignments :
              sentAt[a] \in Nat /\ claimedAt[a] \in Nat /\ lastMail[a] \in Nat
         /\ \A p \in Jobs : job[p] \in Job /\ job[p].now \in Nat /\ JobOK(job[p])
BY DEF Bounds, Inductive, Typed, Days, Never, Job

(* What touches neither emails nor claims keeps the invariant, if the run at hand  *)
(* takes no part in them or stays where it is.                                     *)
LEMMA JobMoves ==
  ASSUME Bounds, Inductive, NEW p \in Jobs, NEW new \in Job, JobOK(new),
         \/ new.pc \notin Claiming
         \/ new.pc = job[p].pc /\ new.now = job[p].now /\ new.at = job[p].at,
         Goes(p, new),
         runRow' \in [Days -> Run], reminderFaults' \in 0 .. MaxFaults,
         byHand' \in 0 .. MaxByHand,
         UNCHANGED <<today, open, able, sentAt, claimedAt, lastMail, doubled, givenBack, served>>
  PROVE  Inductive'
<1>1. /\ job'[p] = new /\ \A q \in Jobs \ {p} : job'[q] = job[q]
      /\ job' \in [Jobs -> Job]
  BY DEF Goes, Inductive, Typed
<1>2. Typed'
  <2>1. \A q \in Jobs : JobOK(job'[q])
    BY <1>1 DEF Inductive, Typed
  <2> QED BY <1>1, <2>1 DEF Inductive, Typed, JobOK
<1>3. NotAhead' /\ Recorded' /\ RemindedApart'
  BY DEF Inductive, NotAhead, Recorded, RemindedApart, MayMail, TimeUp, Before
<1>4. ClaimHeld'
  BY <1>1 DEF Inductive, ClaimHeld
<1>5. ClaimMeans'
  <2>1. CASE new.pc \notin Claiming
    <3>1. new.pc \notin {"send", "release", "stamp"}
      BY <2>1 DEF Claiming
    <3> QED BY <1>1, <3>1 DEF Inductive, ClaimMeans, MayMail, TimeUp, Before
  <2>2. CASE new.pc = job[p].pc /\ new.now = job[p].now /\ new.at = job[p].at
    BY <1>1, <2>2 DEF Inductive, ClaimMeans, MayMail, TimeUp, Before
  <2> QED BY <2>1, <2>2
<1> QED BY <1>2, <1>3, <1>4, <1>5 DEF Inductive

LEMMA FaultIs ==
  ASSUME Bounds, Inductive
  PROVE  /\ reminderFaults \in 0 .. MaxFaults /\ byHand \in 0 .. MaxByHand
         /\ Fault => reminderFaults' \in 0 .. MaxFaults
BY DEF Bounds, Inductive, Typed, Fault

LEMMA Fields ==
  ASSUME NEW j \in Job
  PROVE  /\ j.now \in Days \cup {Never} /\ j.token \in Nat /\ j.holds \in BOOLEAN
         /\ j.due \in SUBSET Assignments /\ j.at \in Assignments \cup {0}
         /\ j.pc \in {"idle", "list", "next", "finish"} \cup Busy
BY DEF Job

LEMMA IdleIs == NoJob \in Job /\ JobOK(NoJob) /\ NoJob.pc \notin Claiming
BY DEF NoJob, Job, JobOK, Busy, Claiming, Never

(* A renewal needs the token, and an unfinished row. *)
LEMMA RenewedIs ==
  ASSUME Bounds, Inductive, NEW p \in Jobs, job[p].pc # "idle" \/ job[p].now # Never, Renewed(p)
  PROVE  runRow' \in [Days -> Run]
<1>1. job[p].now \in Days /\ runRow \in [Days -> Run]
  BY Numbers DEF JobOK, Inductive, Typed, Job
<1>2. CASE Renewable(p)
  <2> DEFINE row == runRow[job[p].now]
             new == [row EXCEPT !.leased = TRUE]
  <2>1. runRow' = [runRow EXCEPT ![job[p].now] = new]
    BY <1>1, <1>2 DEF Renewed
  <2>2. row \in Run /\ row.held /\ ~row.finished
    BY <1>1, <1>2 DEF Renewable, Owns, RowOf, Run
  <2>3. new \in Run
    BY <2>2 DEF Run
  <2> QED BY <1>1, <2>1, <2>3
<1>3. CASE ~Renewable(p)
  BY <1>1, <1>3 DEF Renewed
<1> QED BY <1>2, <1>3

------------------------------------------------------------------------------
(* Each action. *)

LEMMA TryStartMoves ==
  ASSUME Bounds, Inductive, NEW w \in Workers, TryStart(w)
  PROVE  Inductive'
<1> DEFINE row == runRow[today]
           started == [row EXCEPT !.attempts = row.attempts + 1, !.leased = TRUE, !.held = TRUE]
           new == [NoJob EXCEPT !.pc = "list", !.now = today, !.token = runRow'[today].attempts,
                                !.holds = TRUE]
<1>1. today \in Days /\ runRow \in [Days -> Run] /\ today \in Nat /\ today # Never
  BY Numbers DEF Inductive, Typed, Never
<1>2. row \in Run /\ ~row.finished
  BY <1>1 DEF TryStart, Startable
<1>3. started \in Run
  <2>1. started = [row EXCEPT !.attempts = row.attempts + 1, !.leased = TRUE, !.held = TRUE]
    OBVIOUS
  <2> HIDE DEF row, started
  <2>3. started = [attempts |-> row.attempts + 1, leased |-> TRUE, held |-> TRUE,
                   finished |-> row.finished]
    BY <1>2, <2>1 DEF Run
  <2>2. row.attempts + 1 \in Nat /\ row.finished = FALSE
    BY <1>2 DEF Run
  <2> QED BY <2>2, <2>3 DEF Run
<1>6. runRow' = [runRow EXCEPT ![today] = started] /\ Goes(w, new)
  <2>1. runRow' = [runRow EXCEPT ![today].attempts = @ + 1, ![today].leased = TRUE,
                                 ![today].held = TRUE]
    BY DEF TryStart
  <2>2. runRow' = [runRow EXCEPT ![today] = started]
    BY <1>1, <2>1
  <2>3. Goes(w, new)
    BY DEF TryStart
  <2> QED BY <2>2, <2>3
<1>4. runRow' \in [Days -> Run] /\ runRow'[today] = started /\ started.attempts \in Nat
  BY <1>1, <1>3, <1>6 DEF Run
<1>5. new \in Job /\ JobOK(new) /\ new.pc \notin Claiming
  <2> DEFINE token == runRow'[today].attempts
  <2>1. token \in Nat
    BY <1>4
  <2>2. new = [NoJob EXCEPT !.pc = "list", !.now = today, !.token = token, !.holds = TRUE]
    OBVIOUS
  <2> HIDE DEF token, new
  <2>3. new = [pc |-> "list", now |-> today, token |-> token, holds |-> TRUE, due |-> {}, at |-> 0]
    BY <2>2 DEF NoJob
  <2> QED BY <1>1, <2>1, <2>3 DEF Job, JobOK, Busy, Claiming, Never
<1> HIDE DEF new, started
<1> QED BY <1>4, <1>5, <1>6, FaultIs, JobMoves DEF TryStart, rows, emails, Jobs

LEMMA HeartbeatMoves ==
  ASSUME Bounds, Inductive, NEW w \in Workers, Heartbeat(w) \/ RenewalFails(w)
  PROVE  Inductive'
<1> DEFINE j == job[w]
<1>1. j \in Job /\ JobOK(j) /\ w \in Jobs /\ j.holds
  BY Numbers DEF Jobs, Heartbeat, RenewalFails
<1>2. runRow' \in [Days -> Run]
  <2>1. CASE Heartbeat(w)
    BY <1>1, <2>1, RenewedIs DEF Heartbeat, JobOK
  <2>2. CASE RenewalFails(w)
    BY <2>2 DEF RenewalFails, Inductive, Typed
  <2> QED BY <2>1, <2>2
<1>3. \E holds \in BOOLEAN : Goes(w, [j EXCEPT !.holds = holds])
  BY DEF Heartbeat, RenewalFails, Renewable
<1>4. PICK holds \in BOOLEAN : Goes(w, [j EXCEPT !.holds = holds])
  BY <1>3
<1> DEFINE new == [j EXCEPT !.holds = holds]
<1>5. new \in Job /\ new.pc = j.pc /\ new.now = j.now /\ new.at = j.at
  BY <1>1 DEF Job
<1>6. /\ reminderFaults' \in 0 .. MaxFaults /\ byHand' \in 0 .. MaxByHand
      /\ UNCHANGED <<today, open, able, sentAt, claimedAt, lastMail, doubled, givenBack, served>>
  BY FaultIs DEF Heartbeat, RenewalFails, rows, emails
<1>7. JobOK(new)
  <2>1. new.holds => j.holds
    BY <1>1
  <2> QED BY <1>1, <1>5, <2>1 DEF JobOK
<1>8. Goes(w, new)
  BY <1>4
<1> HIDE DEF new
<1> QED BY <1>1, <1>2, <1>5, <1>6, <1>7, <1>8, JobMoves

(* Steps in which no run takes part. *)
LEMMA CalmMoves ==
  ASSUME Bounds, Inductive, runRow' \in [Days -> Run], reminderFaults' \in 0 .. MaxFaults,
         open' \subseteq Assignments, able' \subseteq Assignments,
         UNCHANGED <<today, job, sentAt, claimedAt, lastMail, doubled, givenBack, served, byHand>>
  PROVE  Inductive'
<1>1. Typed' /\ NotAhead' /\ RemindedApart'
  BY DEF Inductive, Typed, JobOK, NotAhead, RemindedApart
<1>2. Recorded' /\ ClaimMeans'
  BY DEF Inductive, Recorded, ClaimMeans, MayMail, TimeUp, Before
<1>3. ClaimHeld'
  BY DEF Inductive, ClaimHeld
<1> QED BY <1>1, <1>2, <1>3 DEF Inductive

LEMMA LeaseEndsMoves ==
  ASSUME Bounds, Inductive, NEW d \in Days, LeaseEnds(d)
  PROVE  Inductive'
<1> DEFINE row == runRow[d]
           new == [row EXCEPT !.leased = FALSE]
<1>1. runRow \in [Days -> Run] /\ row \in Run
  BY DEF Inductive, Typed
<1>2. runRow' = [runRow EXCEPT ![d] = new]
  BY <1>1 DEF LeaseEnds
<1>3. new \in Run
  <2> HIDE DEF row
  <2> QED BY <1>1 DEF Run
<1>4. runRow' \in [Days -> Run]
  BY <1>1, <1>2, <1>3
<1>5. reminderFaults' \in 0 .. MaxFaults
  BY FaultIs DEF LeaseEnds
<1> QED BY <1>4, <1>5, CalmMoves DEF LeaseEnds, rows, emails, Inductive, Typed

LEMMA CloseMoves ==
  ASSUME Bounds, Inductive, NEW a \in Assignments, Close(a)
  PROVE  Inductive'
<1>1. open' \subseteq Assignments /\ able' \subseteq Assignments
  BY DEF Close, Inductive, Typed
<1> QED BY <1>1, CalmMoves DEF Close, emails, Inductive, Typed

(* A reminder by hand is newer than every email. *)
LEMMA RemindOneMoves ==
  ASSUME Bounds, Inductive, NEW a \in Assignments, RemindOne(a)
  PROVE  Inductive'
<1>1. /\ sentAt' = [sentAt EXCEPT ![a] = today] /\ byHand < MaxByHand /\ byHand' = byHand + 1
      /\ UNCHANGED <<today, runRow, job, open, able, claimedAt, lastMail, doubled, givenBack, served,
                     reminderFaults>>
  BY DEF RemindOne, emails
<1>2. byHand' \in 0 .. MaxByHand
  BY <1>1, FaultIs DEF Bounds
<1>3. /\ sentAt'[a] = today /\ \A b \in Assignments \ {a} : sentAt'[b] = sentAt[b]
      /\ sentAt' \in [Assignments -> Days \cup {Never}]
  BY <1>1 DEF Inductive, Typed
<1>4. Typed' /\ RemindedApart'
  BY <1>1, <1>2, <1>3 DEF Inductive, Typed, JobOK, RemindedApart
<1>5. NotAhead'
  BY <1>1, <1>3, Numbers DEF Inductive, NotAhead
<1>6. Recorded'
  <2>1. lastMail[a] <= sentAt'[a] + 1
    BY <1>3, Numbers DEF Inductive, NotAhead
  <2> QED BY <1>1, <1>3, <2>1 DEF Inductive, Recorded, MayMail, TimeUp, Before
<1>7. ClaimHeld' /\ ClaimMeans'
  BY <1>1 DEF Inductive, ClaimHeld, ClaimMeans, MayMail, TimeUp, Before
<1> QED BY <1>4, <1>5, <1>6, <1>7 DEF Inductive

(* Every run that goes on is of the day that ends; what is up stays up. *)
LEMMA NextDayMoves ==
  ASSUME Bounds, Inductive, NextDay
  PROVE  Inductive'
<1>1. /\ today < LastDay /\ today' = today + 1 /\ \A p \in Jobs : job[p].now \in {Never, today}
      /\ UNCHANGED <<runRow, job, open, able, sentAt, claimedAt, lastMail, doubled, givenBack, served,
                     byHand,
                     reminderFaults>>
  BY DEF NextDay, emails
<1>2. today \in Nat /\ today' \in Days
  BY <1>1, Numbers DEF Days, Bounds
<1>3. \A p \in Jobs : JobOK(job[p])'
  <2>1. ASSUME NEW p \in Jobs PROVE JobOK(job[p])'
    <3>1. job[p].now \in {Never, today} /\ JobOK(job[p])
      BY <1>1, Numbers
    <3> QED BY <1>1, <1>2, <3>1 DEF JobOK
  <2> QED BY <2>1
<1>4. Typed' /\ RemindedApart'
  BY <1>1, <1>2, <1>3 DEF Inductive, Typed, RemindedApart
<1>5. NotAhead'
  BY <1>1, <1>2, Numbers DEF Inductive, NotAhead
<1>6. \A a \in Assignments : MayMail(a) => MayMail(a)'
  BY <1>1, <1>2, Numbers DEF MayMail, TimeUp, Before, Bounds
<1>7. Recorded'
  BY <1>1, <1>6 DEF Inductive, Recorded
<1>8. ClaimHeld'
  BY <1>1 DEF Inductive, ClaimHeld
<1>9. ClaimMeans'
  <2>1. \A p \in Jobs : job[p].pc \in {"send", "release"} => job[p].at \in Assignments
    BY Numbers DEF JobOK, Busy, Claiming
  <2> QED BY <1>1, <1>6, <2>1 DEF Inductive, ClaimMeans
<1> QED BY <1>4, <1>5, <1>7, <1>8, <1>9 DEF Inductive

LEMMA StartEndpointMoves ==
  ASSUME Bounds, Inductive, NEW r \in Endpoints, StartEndpoint(r)
  PROVE  Inductive'
<1> DEFINE new == [NoJob EXCEPT !.pc = "list", !.now = today]
<1>1. today \in Days /\ today \in Nat /\ today # Never
  BY Numbers DEF Inductive, Typed, Never
<1>2. new \in Job /\ JobOK(new) /\ new.pc \notin Claiming
  <2>1. new = [NoJob EXCEPT !.pc = "list", !.now = today]
    OBVIOUS
  <2> HIDE DEF new
  <2>2. new = [pc |-> "list", now |-> today, token |-> 0, holds |-> FALSE, due |-> {}, at |-> 0]
    BY <2>1 DEF NoJob, Never
  <2>3. new \in Job
    BY <1>1, <2>2 DEF Job
  <2>4. JobOK(new) /\ new.pc \notin Claiming
    BY <1>1, <2>2 DEF JobOK, Busy, Claiming
  <2> QED BY <2>3, <2>4
<1>3. Goes(r, new) /\ byHand' \in 0 .. MaxByHand
  BY FaultIs DEF StartEndpoint, Bounds, emails
<1> HIDE DEF new
<1>4. runRow' \in [Days -> Run] /\ reminderFaults' \in 0 .. MaxFaults
  BY DEF StartEndpoint, Inductive, Typed, emails
<1> QED BY <1>2, <1>3, <1>4, JobMoves DEF StartEndpoint, Jobs, emails

(* A run that goes on to another step, with other assignments to remind. *)
LEMMA GoesOn ==
  ASSUME Bounds, Inductive, NEW p \in Jobs, job[p].pc # "idle",
         NEW pc \in {"list", "next", "gate", "claim", "finish"}, NEW due \in SUBSET Assignments,
         NEW at \in Assignments \cup {0}, pc \in Busy => at \in Assignments,
         NEW holds \in BOOLEAN,
         Goes(p, [job[p] EXCEPT !.pc = pc, !.due = due, !.at = at, !.holds = holds]),
         runRow' \in [Days -> Run], reminderFaults' \in 0 .. MaxFaults, UNCHANGED rows
  PROVE  Inductive'
<1> DEFINE new == [job[p] EXCEPT !.pc = pc, !.due = due, !.at = at, !.holds = holds]
<1>1. job[p] \in Job /\ JobOK(job[p])
  BY Numbers
<1>2. /\ new \in Job /\ new.pc = pc /\ new.now = job[p].now /\ new.at = at /\ new.holds = holds
  BY <1>1 DEF Job, Busy
<1>3. Goes(p, new)
  OBVIOUS
<1> HIDE DEF new
<1>4. JobOK(new) /\ new.pc \notin Claiming
  BY <1>1, <1>2 DEF JobOK, Claiming
<1> QED BY <1>2, <1>3, <1>4, FaultIs, JobMoves DEF rows, emails

LEMMA SkippingIs ==
  ASSUME Bounds, Inductive, NEW p \in Jobs, NEW a
  PROVE  /\ Skipping(p, a) = [job[p] EXCEPT !.pc = "next", !.due = job[p].due \ {a}, !.at = 0,
                                            !.holds = job[p].holds]
         /\ job[p].due \ {a} \in SUBSET Assignments /\ job[p].holds \in BOOLEAN
         /\ job[p].due \in SUBSET Assignments /\ job[p].at \in Assignments \cup {0}
<1>1. job[p] \in Job
  BY Numbers
<1> QED BY <1>1 DEF Skipping, Job

LEMMA ListMoves ==
  ASSUME Bounds, Inductive, NEW p \in Jobs, List(p)
  PROVE  Inductive'
<1> DEFINE due == {a \in open : Before(sentAt[a], job[p].now)}
<1>1. due \in SUBSET Assignments /\ runRow' \in [Days -> Run] /\ reminderFaults' \in 0 .. MaxFaults
  BY DEF List, Inductive, Typed
<1>2. job[p].pc = "list" /\ UNCHANGED rows
  BY DEF List
<1>3. Goes(p, [job[p] EXCEPT !.pc = "next", !.due = due])
  BY DEF List
<1> HIDE DEF due
<1>4. job[p] \in Job
  BY Numbers
<1>5. [job[p] EXCEPT !.pc = "next", !.due = due]
        = [job[p] EXCEPT !.pc = "next", !.due = due, !.at = job[p].at, !.holds = job[p].holds]
  BY <1>4 DEF Job
<1>6. Goes(p, [job[p] EXCEPT !.pc = "next", !.due = due, !.at = job[p].at, !.holds = job[p].holds])
  BY <1>3, <1>5
<1> QED BY <1>1, <1>2, <1>6, SkippingIs, GoesOn DEF Busy, Claiming

LEMMA SkipMoves ==
  ASSUME Bounds, Inductive, NEW p \in Jobs, job[p].pc # "idle", NEW a, Goes(p, Skipping(p, a)),
         UNCHANGED rows, UNCHANGED runRow, reminderFaults' \in 0 .. MaxFaults
  PROVE  Inductive'
<1>1. runRow' \in [Days -> Run]
  BY DEF Inductive, Typed
<1>2. Goes(p, [job[p] EXCEPT !.pc = "next", !.due = job[p].due \ {a}, !.at = 0,
                             !.holds = job[p].holds])
  BY SkippingIs
<1> QED BY <1>1, <1>2, SkippingIs, GoesOn DEF Busy, Claiming

LEMMA FindInstructorMoves ==
  ASSUME Bounds, Inductive, NEW p \in Jobs, NEW a \in Assignments, FindInstructor(p, a)
  PROVE  Inductive'
<1>1. /\ job[p].pc = "next" /\ UNCHANGED rows /\ UNCHANGED runRow /\ runRow' \in [Days -> Run]
      /\ reminderFaults' \in 0 .. MaxFaults
  BY DEF FindInstructor, Inductive, Typed
<1>2. CASE a \in able
  <2>1. Goes(p, [job[p] EXCEPT !.pc = "gate", !.at = a])
    BY <1>2 DEF FindInstructor
  <2>2. job[p] \in Job
    BY Numbers
  <2>3. [job[p] EXCEPT !.pc = "gate", !.at = a]
          = [job[p] EXCEPT !.pc = "gate", !.due = job[p].due, !.at = a, !.holds = job[p].holds]
    BY <2>2 DEF Job
  <2>4. Goes(p, [job[p] EXCEPT !.pc = "gate", !.due = job[p].due, !.at = a,
                               !.holds = job[p].holds])
    BY <2>1, <2>3
  <2> QED BY <1>1, <2>4, SkippingIs, GoesOn
<1>3. CASE a \notin able
  BY <1>1, <1>3, SkipMoves DEF FindInstructor
<1> QED BY <1>2, <1>3

LEMMA GateMoves ==
  ASSUME Bounds, Inductive, NEW p \in Jobs, Gate(p)
  PROVE  Inductive'
<1>1. /\ job[p].pc = "gate" /\ UNCHANGED rows /\ reminderFaults' \in 0 .. MaxFaults
      /\ job[p] \in Job /\ job[p].at \in Assignments
  BY Numbers DEF Gate, Inductive, Typed, JobOK, Busy
<1>2. runRow' \in [Days -> Run]
  <2>1. CASE Renewed(p)
    BY <1>1, <2>1, RenewedIs
  <2>2. CASE UNCHANGED runRow
    BY <2>2 DEF Inductive, Typed
  <2> QED BY <2>1, <2>2 DEF Gate
<1>3. CASE Goes(p, [job[p] EXCEPT !.pc = "claim"])
  <2>1. [job[p] EXCEPT !.pc = "claim"]
          = [job[p] EXCEPT !.pc = "claim", !.due = job[p].due, !.at = job[p].at,
                           !.holds = job[p].holds]
    BY <1>1 DEF Job
  <2>2. Goes(p, [job[p] EXCEPT !.pc = "claim", !.due = job[p].due, !.at = job[p].at,
                               !.holds = job[p].holds])
    BY <1>3, <2>1
  <2> QED BY <1>1, <1>2, <2>2, SkippingIs, GoesOn
<1>4. CASE Goes(p, [job[p] EXCEPT !.pc = "next", !.due = {}, !.holds = FALSE])
  <2>1. [job[p] EXCEPT !.pc = "next", !.due = {}, !.holds = FALSE]
          = [job[p] EXCEPT !.pc = "next", !.due = {}, !.at = job[p].at, !.holds = FALSE]
    BY <1>1 DEF Job
  <2>2. Goes(p, [job[p] EXCEPT !.pc = "next", !.due = {}, !.at = job[p].at, !.holds = FALSE])
    BY <1>4, <2>1
  <2> QED BY <1>1, <1>2, <2>2, GoesOn DEF Busy, Claiming
<1> QED BY <1>3, <1>4 DEF Gate

LEMMA EndMoves ==
  ASSUME Bounds, Inductive, NEW p \in Jobs, Goes(p, NoJob), UNCHANGED rows,
         runRow' \in [Days -> Run], reminderFaults' \in 0 .. MaxFaults
  PROVE  Inductive'
BY IdleIs, FaultIs, JobMoves DEF rows, emails

LEMMA RestMoves ==
  ASSUME Bounds, Inductive, NEW p \in Jobs, Rest(p)
  PROVE  Inductive'
<1>1. /\ job[p].pc = "next" /\ UNCHANGED rows /\ reminderFaults' \in 0 .. MaxFaults
      /\ runRow' \in [Days -> Run] /\ job[p] \in Job
  BY Numbers DEF Rest, Inductive, Typed
<1>2. CASE Goes(p, [job[p] EXCEPT !.pc = "finish"])
  <2>1. [job[p] EXCEPT !.pc = "finish"]
          = [job[p] EXCEPT !.pc = "finish", !.due = job[p].due, !.at = job[p].at,
                           !.holds = job[p].holds]
    BY <1>1 DEF Job
  <2>2. Goes(p, [job[p] EXCEPT !.pc = "finish", !.due = job[p].due, !.at = job[p].at,
                               !.holds = job[p].holds])
    BY <1>2, <2>1
  <2> QED BY <1>1, <2>2, SkippingIs, GoesOn DEF Busy, Claiming
<1>3. CASE Goes(p, NoJob)
  BY <1>1, <1>3, EndMoves
<1> QED BY <1>2, <1>3 DEF Rest

LEMMA FinishMoves ==
  ASSUME Bounds, Inductive, NEW w \in Jobs, Finish(w)
  PROVE  Inductive'
<1> DEFINE d == job[w].now
           new == [runRow[d] EXCEPT !.leased = FALSE, !.held = FALSE, !.finished = TRUE]
<1>1. /\ d \in Days /\ runRow \in [Days -> Run] /\ runRow[d] \in Run
  <2>1. d \in Days
    BY Numbers DEF Finish, JobOK, Job
  <2> QED BY <2>1 DEF Inductive, Typed
<1>2. runRow' = runRow \/ runRow' = [runRow EXCEPT ![d] = new]
  BY <1>1 DEF Finish
<1>3. new \in Run
  <2> DEFINE row == runRow[d]
  <2>1. row \in Run /\ new = [row EXCEPT !.leased = FALSE, !.held = FALSE, !.finished = TRUE]
    BY <1>1
  <2> HIDE DEF row, new
  <2> QED BY <2>1 DEF Run
<1>4. runRow' \in [Days -> Run]
  <2> HIDE DEF new
  <2> QED BY <1>1, <1>2, <1>3
<1>5. reminderFaults' \in 0 .. MaxFaults
  BY DEF Finish, Inductive, Typed
<1> QED BY <1>4, <1>5, EndMoves DEF Finish

(* A query that fails, or a process that dies, gives no claim back. *)
LEMMA StopMoves ==
  ASSUME Bounds, Inductive, NEW p \in Jobs, Throws(p) \/ Crash(p)
  PROVE  Inductive'
<1>1. /\ job[p].pc # "idle" /\ UNCHANGED rows /\ UNCHANGED runRow
      /\ runRow' \in [Days -> Run] /\ reminderFaults' \in 0 .. MaxFaults
  BY FaultIs DEF Throws, Crash, Inductive, Typed
<1>2. CASE Throws(p)
  BY <1>1, <1>2, SkipMoves DEF Throws
<1>3. CASE Crash(p)
  BY <1>1, <1>3, EndMoves DEF Crash
<1> QED BY <1>2, <1>3

------------------------------------------------------------------------------
(* Claims and emails. *)

(* A claim keeps every other run from the assignment while this one has it. *)
LEMMA ClaimIsFree ==
  ASSUME Bounds, Inductive, NEW p \in Jobs, job[p].pc = "claim", Claimable(p, job[p].at),
         NEW q \in Jobs, job[q].pc \in Claiming
  PROVE  job[q].at # job[p].at
<1> SUFFICES ASSUME job[q].at = job[p].at PROVE FALSE
  OBVIOUS
<1> DEFINE m == job[q].now
           n == job[p].now
<1>1. claimedAt[job[p].at] = m
  BY DEF Inductive, ClaimHeld
<1>2. m # Never /\ m \in Nat /\ n \in Nat /\ today <= m + 1 /\ n <= today /\ today \in Nat
  BY Numbers DEF JobOK, Claiming
<1>3. m + Interval <= n
  BY <1>1, <1>2 DEF Claimable, Before
<1> QED BY <1>2, <1>3 DEF Bounds

(* What is claimed may be sent: the email before is on record, or its time is up. *)
LEMMA ClaimIsDue ==
  ASSUME Bounds, Inductive, NEW p \in Jobs, job[p].pc = "claim", Claimable(p, job[p].at)
  PROVE  MayMail(job[p].at)
<1> DEFINE a == job[p].at
           n == job[p].now
<1>1. /\ a \in Assignments /\ n \in Nat /\ n <= today /\ today \in Nat
  BY Numbers DEF JobOK, Busy
<1>2. /\ sentAt[a] \in Nat /\ claimedAt[a] \in Nat /\ lastMail[a] \in Nat
      /\ lastMail[a] = Never \/ lastMail[a] >= 2
  BY <1>1, Numbers DEF Inductive, Typed
<1>3. Before(sentAt[a], n) /\ Before(claimedAt[a], n)
  BY DEF Claimable
<1>4. lastMail[a] <= claimedAt[a] + 1 \/ lastMail[a] <= sentAt[a] + 1 \/ MayMail(a)
  BY <1>1 DEF Inductive, Recorded
<1>5. ASSUME NEW at \in Nat, Before(at, n), lastMail[a] <= at + 1 PROVE TimeUp(a)
  BY <1>1, <1>2, <1>5 DEF Before, TimeUp, Never, Bounds
<1> QED BY <1>2, <1>3, <1>4, <1>5 DEF MayMail

LEMMA ClaimMoves ==
  ASSUME Bounds, Inductive, NEW p \in Jobs, Claim(p)
  PROVE  Inductive'
<1> DEFINE a == job[p].at
           j == job[p]
           new == [j EXCEPT !.pc = "send"]
<1>1. /\ j.pc = "claim" /\ j \in Job /\ JobOK(j) /\ a \in Assignments
      /\ UNCHANGED <<today, runRow, open, able, sentAt, lastMail, doubled, givenBack, served,
                     byHand, reminderFaults>>
  BY Numbers DEF Claim, emails, JobOK, Busy
<1>2. CASE Claimable(p, a)
  <2>1. claimedAt' = [claimedAt EXCEPT ![a] = j.now] /\ Goes(p, new)
    BY <1>2 DEF Claim
  <2>2. new \in Job /\ new.pc = "send" /\ new.now = j.now /\ new.at = a /\ new.holds = j.holds
    BY <1>1 DEF Job, Busy, Claiming
  <2> HIDE DEF new
  <2>3. /\ job'[p] = new /\ \A q \in Jobs \ {p} : job'[q] = job[q]
        /\ job' \in [Jobs -> Job]
    BY <2>1, <2>2 DEF Goes, Inductive, Typed
  <2>4. /\ claimedAt'[a] = j.now /\ \A b \in Assignments \ {a} : claimedAt'[b] = claimedAt[b]
        /\ claimedAt' \in [Assignments -> Days \cup {Never}]
    BY <1>1, <2>1 DEF Inductive, Typed, Job
  <2>5. JobOK(new)
    BY <1>1, <2>2 DEF JobOK
  <2>6. Typed' /\ RemindedApart'
    <3>1. \A q \in Jobs : JobOK(job[q])'
      BY <1>1, <2>3, <2>5 DEF Inductive, Typed, JobOK
    <3> QED BY <1>1, <2>3, <2>4, <3>1 DEF Inductive, Typed, RemindedApart
  <2>7. NotAhead'
    <3>1. j.now <= today
      BY <1>1 DEF JobOK
    <3> QED BY <1>1, <2>4, <3>1 DEF Inductive, NotAhead
  <2>8. MayMail(a)
    BY <1>1, <1>2, ClaimIsDue
  <2>9. Recorded'
    BY <1>1, <2>4, <2>8 DEF Inductive, Recorded, MayMail, TimeUp, Before
  <2>10. \A q \in Jobs \ {p} : job[q].pc \in Claiming => job[q].at # a
    BY <1>1, <1>2, ClaimIsFree
  <2>11. \A q \in Jobs : job[q].pc \in Claiming => job[q].at \in Assignments
    BY Numbers DEF JobOK, Busy
  <2>12. ClaimHeld'
    <3>1. ASSUME NEW q \in Jobs, job'[q].pc \in Claiming
          PROVE  claimedAt'[job'[q].at] = job'[q].now
      <4>1. CASE q = p
        BY <2>2, <2>3, <2>4, <4>1
      <4>2. CASE q # p
        BY <2>3, <2>4, <2>10, <2>11, <3>1, <4>2 DEF Inductive, ClaimHeld
      <4> QED BY <4>1, <4>2
    <3>2. ASSUME NEW q \in Jobs, NEW r \in Jobs, job'[q].pc \in Claiming, job'[r].pc \in Claiming,
                 job'[q].at = job'[r].at
          PROVE  q = r
      BY <2>2, <2>3, <2>10, <3>2 DEF Inductive, ClaimHeld
    <3> QED BY <3>1, <3>2 DEF ClaimHeld
  <2>13. ClaimMeans'
    <3>1. \A b : MayMail(b) => MayMail(b)'
      BY <1>1 DEF MayMail, TimeUp, Before
    <3> QED BY <1>1, <2>2, <2>3, <2>8, <3>1 DEF Inductive, ClaimMeans
  <2> QED BY <2>6, <2>7, <2>9, <2>12, <2>13 DEF Inductive
<1>3. CASE ~Claimable(p, a)
  BY <1>1, <1>3, SkipMoves DEF Claim, rows, emails, Inductive, Typed
<1> QED BY <1>2, <1>3

(* An email that goes, or that its key keeps back, and a call of the provider that fails. *)
LEMMA MailsIs ==
  ASSUME Bounds, Inductive, NEW p \in Jobs, job[p].pc = "send",
         Mails(p) \/ UNCHANGED emails
  PROVE  /\ lastMail' \in [Assignments -> Days \cup {Never}]
         /\ served' \in [Assignments -> SUBSET Days] /\ givenBack' \subseteq Assignments
         /\ doubled' = doubled
         /\ \A b \in Assignments \ {job[p].at} :
              lastMail'[b] = lastMail[b] /\ (b \in givenBack' <=> b \in givenBack)
         /\ lastMail'[job[p].at] \in {lastMail[job[p].at], today}
<1> DEFINE a == job[p].at
           day == job[p].now
<1>1. /\ a \in Assignments /\ day \in Days /\ MayMail(a) /\ today \in Days
      /\ lastMail \in [Assignments -> Days \cup {Never}]
      /\ served \in [Assignments -> SUBSET Days] /\ givenBack \subseteq Assignments
  BY Numbers DEF JobOK, Busy, Claiming, Inductive, ClaimMeans, Typed, Job
<1>2. CASE UNCHANGED emails
  BY <1>1, <1>2 DEF emails
<1>3. CASE Mails(p)
  <2>1. /\ served' = [served EXCEPT ![a] = @ \cup {day}] /\ givenBack' = givenBack \ {a}
        /\ \/ UNCHANGED <<lastMail, doubled>>
           \/ lastMail' = [lastMail EXCEPT ![a] = today] /\ doubled' = doubled
    BY <1>1, <1>3 DEF Mails, MayMail, TimeUp
  <2> HIDE DEF a, day
  <2>2. served' \in [Assignments -> SUBSET Days]
    BY <1>1, <2>1
  <2>3. /\ lastMail' \in [Assignments -> Days \cup {Never}] /\ doubled' = doubled
        /\ lastMail'[a] \in {lastMail[a], today}
        /\ \A b \in Assignments \ {a} : lastMail'[b] = lastMail[b]
    BY <1>1, <2>1
  <2> QED BY <1>1, <2>1, <2>2, <2>3 DEF a
<1> QED BY <1>2, <1>3

LEMMA SendMoves ==
  ASSUME Bounds, Inductive, NEW p \in Jobs, Send(p)
  PROVE  Inductive'
<1> DEFINE a == job[p].at
           j == job[p]
<1>1. /\ j.pc = "send" /\ j \in Job /\ JobOK(j) /\ a \in Assignments
      /\ claimedAt[a] = j.now /\ MayMail(a)
      /\ UNCHANGED <<today, runRow, open, able, sentAt, claimedAt, byHand>>
  BY Numbers DEF Send, JobOK, Busy, Claiming, Inductive, ClaimHeld, ClaimMeans
<1>2. reminderFaults' \in 0 .. MaxFaults
  BY FaultIs DEF Send
<1>3. \E to \in {"stamp", "unsure", "release"} :
        Goes(p, [j EXCEPT !.pc = to]) /\ (to = "release" => UNCHANGED emails)
  BY DEF Send
<1>4. PICK pc \in {"stamp", "unsure", "release"} :
        Goes(p, [j EXCEPT !.pc = pc]) /\ (pc = "release" => UNCHANGED emails)
  BY <1>3
<1> DEFINE new == [j EXCEPT !.pc = pc]
<1>5. /\ new \in Job /\ new.pc = pc /\ new.now = j.now /\ new.at = a /\ new.holds = j.holds
      /\ Goes(p, new)
  BY <1>1, <1>4 DEF Job, Busy, Claiming
<1> HIDE DEF new
<1>6. /\ job'[p] = new /\ \A q \in Jobs \ {p} : job'[q] = job[q]
      /\ job' \in [Jobs -> Job]
  BY <1>5 DEF Goes, Inductive, Typed
<1>7. JobOK(new)
  BY <1>1, <1>5 DEF JobOK, Busy, Claiming
<1>8. /\ lastMail' \in [Assignments -> Days \cup {Never}]
      /\ served' \in [Assignments -> SUBSET Days] /\ givenBack' \subseteq Assignments
      /\ doubled' = doubled
      /\ \A b \in Assignments \ {a} :
           lastMail'[b] = lastMail[b] /\ (b \in givenBack' <=> b \in givenBack)
      /\ lastMail'[a] \in {lastMail[a], today}
  <2>1. Mails(p) \/ UNCHANGED emails
    BY DEF Send
  <2> QED BY <1>1, <2>1, MailsIs
<1>9. Typed' /\ RemindedApart'
  <2>1. \A q \in Jobs : JobOK(job[q])'
    BY <1>1, <1>6, <1>7 DEF Inductive, Typed, JobOK
  <2> QED BY <1>1, <1>2, <1>6, <1>8, <2>1 DEF Inductive, Typed, RemindedApart
<1>10. today \in Nat /\ j.now \in Nat /\ today <= j.now + 1 /\ lastMail[a] <= today
  BY <1>1, Numbers DEF JobOK, Inductive, NotAhead
<1>11. NotAhead'
  BY <1>1, <1>8, <1>10 DEF Inductive, NotAhead
<1>12. \A b \in Assignments \ {a} :
         MayMail(b) => Before(lastMail'[b], today' + 1) \/ b \in givenBack'
  BY <1>1, <1>8 DEF MayMail, TimeUp
<1>13. lastMail'[a] <= j.now + 1
  BY <1>1, <1>8, <1>10, Numbers
<1>14. Recorded'
  BY <1>1, <1>8, <1>12, <1>13 DEF Inductive, Recorded, MayMail, TimeUp
<1>15. \A q \in Jobs \ {p} : job[q].pc \in Claiming => job[q].at \in Assignments \ {a}
  BY <1>1, Numbers DEF JobOK, Busy, Claiming, Inductive, ClaimHeld
<1>16. ClaimHeld'
  <2>1. new.pc \in Claiming /\ j.pc \in Claiming
    BY <1>1, <1>5 DEF Claiming
  <2> QED BY <1>1, <1>5, <1>6, <1>15, <2>1 DEF Inductive, ClaimHeld
<1>17. ClaimMeans'
  <2>1. ASSUME NEW q \in Jobs
        PROVE  /\ job'[q].pc \in {"send", "release"} =>
                    Before(lastMail'[job'[q].at], today' + 1) \/ job'[q].at \in givenBack'
               /\ job'[q].pc = "stamp" => lastMail'[job'[q].at] <= job'[q].now + 1
    <3>1. CASE q = p
      <4>1. pc = "release" => Before(lastMail'[a], today' + 1) \/ a \in givenBack'
        BY <1>1, <1>4 DEF MayMail, TimeUp, emails
      <4> QED BY <1>5, <1>6, <1>13, <3>1, <4>1
    <3>2. CASE q # p
      <4>1. job'[q] = job[q] /\ (job[q].pc \in Claiming => job[q].at \in Assignments \ {a})
        BY <1>6, <1>15, <3>2
      <4> QED BY <1>8, <1>12, <4>1 DEF Inductive, ClaimMeans, Claiming
    <3> QED BY <3>1, <3>2
  <2> QED BY <2>1 DEF ClaimMeans, MayMail, TimeUp
<1> QED BY <1>9, <1>11, <1>14, <1>16, <1>17 DEF Inductive

(* A run that lets go of its assignment leaves it recorded. *)
LEMMA LetsGo ==
  ASSUME Bounds, Inductive, NEW p \in Jobs, job[p].pc \in {"stamp", "unsure", "release"},
         Goes(p, Skipping(p, job[p].at)),
         sentAt' \in [Assignments -> Days \cup {Never}],
         claimedAt' \in [Assignments -> Days \cup {Never}],
         \A b \in Assignments \ {job[p].at} : sentAt'[b] = sentAt[b] /\ claimedAt'[b] = claimedAt[b],
         sentAt'[job[p].at] <= today, claimedAt'[job[p].at] <= today,
         \/ lastMail[job[p].at] <= claimedAt'[job[p].at] + 1
         \/ lastMail[job[p].at] <= sentAt'[job[p].at] + 1
         \/ MayMail(job[p].at) \/ job[p].at \in givenBack',
         givenBack \subseteq givenBack', givenBack' \subseteq Assignments,
         UNCHANGED <<today, runRow, open, able, lastMail, doubled, served, byHand, reminderFaults>>
  PROVE  Inductive'
<1> DEFINE new == Skipping(p, job[p].at)
           a == job[p].at
<1>1. job[p] \in Job /\ JobOK(job[p]) /\ a \in Assignments /\ job[p].pc \in Claiming
  BY Numbers DEF JobOK, Busy, Claiming
<1>2. /\ new \in Job /\ new.pc = "next" /\ new.now = job[p].now /\ new.holds = job[p].holds
  <2>1. new = [job[p] EXCEPT !.pc = "next", !.due = job[p].due \ {a}, !.at = 0,
                             !.holds = job[p].holds]
    BY SkippingIs
  <2>2. job[p].due \ {a} \in SUBSET Assignments
    BY SkippingIs
  <2> HIDE DEF new
  <2> QED BY <1>1, <2>1, <2>2 DEF Job
<1>3. Goes(p, new)
  OBVIOUS
<1> HIDE DEF new
<1>4. JobOK(new) /\ new.pc \notin Claiming
  BY <1>1, <1>2 DEF JobOK, Busy, Claiming
<1>5. /\ job'[p] = new /\ \A q \in Jobs \ {p} : job'[q] = job[q]
      /\ job' \in [Jobs -> Job]
  BY <1>2, <1>3 DEF Goes, Inductive, Typed
<1>6. Typed' /\ RemindedApart'
  <2>1. \A q \in Jobs : JobOK(job[q])'
    BY <1>4, <1>5 DEF Inductive, Typed, JobOK
  <2> QED BY <1>5, <2>1 DEF Inductive, Typed, RemindedApart
<1>7. NotAhead'
  BY DEF Inductive, NotAhead
<1>8. Recorded'
  BY DEF Inductive, Recorded, MayMail, TimeUp
<1>9. \A q \in Jobs \ {p} : job[q].pc \in Claiming => job[q].at \in Assignments \ {a}
  BY <1>1, Numbers DEF JobOK, Busy, Inductive, ClaimHeld
<1>10. ClaimHeld'
  BY <1>4, <1>5, <1>9 DEF Inductive, ClaimHeld
<1>11. ClaimMeans'
  <2>1. new.pc \notin {"send", "release", "stamp"}
    BY <1>2
  <2> QED BY <1>5, <2>1 DEF Inductive, ClaimMeans, MayMail, TimeUp
<1> QED BY <1>6, <1>7, <1>8, <1>10, <1>11 DEF Inductive

LEMMA StampMoves ==
  ASSUME Bounds, Inductive, NEW p \in Jobs, Stamp(p)
  PROVE  Inductive'
<1> DEFINE a == job[p].at
<1>1. /\ job[p].pc = "stamp" /\ Goes(p, Skipping(p, a))
      /\ sentAt' = [sentAt EXCEPT ![a] = job[p].now] /\ UNCHANGED claimedAt
      /\ UNCHANGED <<today, runRow, open, able, lastMail, doubled, givenBack, served,
                     byHand, reminderFaults>>
  BY DEF Stamp, emails
<1>2. a \in Assignments /\ job[p].now \in Days \cup {Never} /\ job[p].now <= today
  BY <1>1, Numbers DEF JobOK, Busy, Claiming, Job
<1>3. /\ sentAt' \in [Assignments -> Days \cup {Never}] /\ sentAt'[a] = job[p].now
      /\ \A b \in Assignments \ {a} : sentAt'[b] = sentAt[b]
      /\ claimedAt' \in [Assignments -> Days \cup {Never}] /\ claimedAt'[a] <= today
  BY <1>1, <1>2 DEF Inductive, Typed, NotAhead
<1>4. lastMail[a] <= job[p].now + 1
  BY <1>1 DEF Inductive, ClaimMeans
<1> QED BY <1>1, <1>2, <1>3, <1>4, LetsGo DEF Inductive, Typed

LEMMA ReleaseMoves ==
  ASSUME Bounds, Inductive, NEW p \in Jobs, ReleaseClaim(p)
  PROVE  Inductive'
<1> DEFINE a == job[p].at
<1>1. /\ job[p].pc \in {"release", "unsure"} /\ Goes(p, Skipping(p, a)) /\ UNCHANGED sentAt
      /\ UNCHANGED <<today, runRow, open, able, lastMail, doubled, served, byHand, reminderFaults>>
  BY DEF ReleaseClaim
<1>2. a \in Assignments /\ today \in Nat /\ claimedAt[a] = job[p].now
  BY <1>1, Numbers DEF JobOK, Busy, Claiming, Inductive, ClaimHeld
<1>3. /\ claimedAt' = [claimedAt EXCEPT ![a] = Never]
      /\ givenBack' = IF job[p].pc = "unsure" THEN givenBack \cup {a} ELSE givenBack
  BY <1>2 DEF ReleaseClaim
<1>4. /\ claimedAt' \in [Assignments -> Days \cup {Never}] /\ claimedAt'[a] <= today
      /\ \A b \in Assignments \ {a} : claimedAt'[b] = claimedAt[b]
      /\ sentAt' \in [Assignments -> Days \cup {Never}] /\ sentAt'[a] <= today
  BY <1>1, <1>2, <1>3 DEF Inductive, Typed, NotAhead, Never
<1>5. MayMail(a) \/ a \in givenBack'
  BY <1>1, <1>3 DEF Inductive, ClaimMeans
<1>6. givenBack \subseteq givenBack' /\ givenBack' \subseteq Assignments
  BY <1>2, <1>3 DEF Inductive, Typed
<1> HIDE DEF a
<1>7. \A b \in Assignments \ {a} : sentAt'[b] = sentAt[b] /\ claimedAt'[b] = claimedAt[b]
  BY <1>1, <1>4
<1> QED BY <1>1, <1>4, <1>5, <1>6, <1>7, LetsGo DEF a

------------------------------------------------------------------------------
(* Every step. *)

LEMMA JobStepMoves ==
  ASSUME Bounds, Inductive, NEW p \in Jobs, JobStep(p) \/ Throws(p) \/ Crash(p)
  PROVE  Inductive'
<1>1. CASE List(p) \/ Gate(p) \/ Rest(p) \/ Finish(p)
  BY <1>1, ListMoves, GateMoves, RestMoves, FinishMoves
<1>2. CASE Claim(p) \/ Send(p) \/ Stamp(p) \/ ReleaseClaim(p)
  BY <1>2, ClaimMoves, SendMoves, StampMoves, ReleaseMoves
<1>3. CASE \E a \in Assignments : FindInstructor(p, a)
  BY <1>3, FindInstructorMoves
<1>4. CASE Throws(p) \/ Crash(p)
  BY <1>4, StopMoves
<1> QED BY <1>1, <1>2, <1>3, <1>4 DEF JobStep

LEMMA Steps ==
  ASSUME Bounds
  PROVE  Inductive /\ [RemindersNext]_remindersVars => Inductive'
<1> SUFFICES ASSUME Inductive, [RemindersNext]_remindersVars PROVE Inductive'
  OBVIOUS
<1>1. CASE NextDay
  BY <1>1, NextDayMoves
<1>2. ASSUME NEW d \in Days, LeaseEnds(d) PROVE Inductive'
  BY <1>2, LeaseEndsMoves
<1>3. ASSUME NEW w \in Workers, TryStart(w) \/ Heartbeat(w) \/ RenewalFails(w) PROVE Inductive'
  BY <1>3, TryStartMoves, HeartbeatMoves
<1>4. ASSUME NEW r \in Endpoints, StartEndpoint(r) PROVE Inductive'
  BY <1>4, StartEndpointMoves
<1>5. ASSUME NEW p \in Jobs, JobStep(p) \/ Throws(p) \/ Crash(p) PROVE Inductive'
  BY <1>5, JobStepMoves
<1>6. ASSUME NEW a \in Assignments, RemindOne(a) \/ Close(a) PROVE Inductive'
  BY <1>6, RemindOneMoves, CloseMoves
<1>7. CASE UNCHANGED remindersVars
  BY <1>7, CalmMoves DEF remindersVars, Inductive, Typed
<1> QED BY <1>1, <1>2, <1>3, <1>4, <1>5, <1>6, <1>7 DEF RemindersNext

(* Every column has its type, a lease is held and a finished row is not: whatever runs   *)
(* overlap, lose their lease or die (daily_reminder_runs).                               *)
THEOREM TypeCorrect == ASSUME Bounds PROVE RemindersSpec => []RemindersTypeOK
<1>1. RemindersInit => Inductive
  BY InitInductive
<1>2. Inductive /\ [RemindersNext]_remindersVars => Inductive'
  BY Steps
<1>3. Inductive => RemindersTypeOK
  <2> SUFFICES ASSUME Inductive PROVE RemindersTypeOK
    OBVIOUS
  <2>1. \A d \in Days : /\ runRow[d].attempts \in Nat
                        /\ runRow[d].leased => runRow[d].held
                        /\ runRow[d].finished => ~runRow[d].held
    BY DEF Inductive, Typed, Run
  <2>2. \A a \in Assignments : {sentAt[a], claimedAt[a], lastMail[a]} \subseteq Days \cup {Never}
    BY DEF Inductive, Typed
  <2>3. \A p \in Jobs : /\ job[p].now \in Days \cup {Never} /\ job[p].due \subseteq Assignments
                        /\ job[p].pc = "idle" <=> job[p].now = Never
    BY DEF Inductive, Typed, Job, JobOK
  <2>4. doubled \subseteq Assignments
    BY DEF Inductive, RemindedApart
  <2> QED BY <2>1, <2>2, <2>3, <2>4 DEF RemindersTypeOK, Inductive, Typed
<1> QED BY <1>1, <1>2, <1>3, PTL DEF RemindersSpec

(* Emails of runs about one assignment are an interval apart, less the day into which    *)
(* the earlier run may have lasted, whatever runs overlap, lose their lease, fail to     *)
(* stamp or die (remindOpenAssignments, claim_document_reminders), unless the provider's *)
(* answer about the earlier one was lost and its claim given back.                       *)
THEOREM Apart == ASSUME Bounds PROVE RemindersSpec => []RemindedApart
<1>1. RemindersInit => Inductive
  BY InitInductive
<1>2. Inductive /\ [RemindersNext]_remindersVars => Inductive'
  BY Steps
<1>3. Inductive => RemindedApart
  BY DEF Inductive
<1> QED BY <1>1, <1>2, <1>3, PTL DEF RemindersSpec

------------------------------------------------------------------------------
(* BioDrafts, for any requests, any limit and window, and any number of faults.  A       *)
(* request counts the rows of the window that ends when its transaction began, and those *)
(* that began after it but came first to the lock; so a row is counted against every     *)
(* window it is in, and the invariant bounds the rows of every window, not the drafts.   *)

(* The quota allows at least one draft (BIO_AI_DAILY_LIMIT), in a window that lasts. *)
DraftBounds ==
  /\ Limit \in Nat /\ Limit >= 1 /\ Window \in Nat /\ Window >= 1
  /\ LastTime \in Nat /\ MaxLength \in Nat

Begun == {"queued", "drafting", "served", "refused"}
Span(start) == {row \in slots : row.at > start /\ row.at <= start + Window}

AskOK(step) ==
  /\ step.pc \in {"idle", "releasing", "failed"} \cup Begun
  /\ step.pc \in Begun => step.at \in Nat /\ step.at <= now
  /\ step.pc \in {"queued", "refused"} => step.made \in Nat /\ step.made <= made
  /\ step.pc = "failed" => step.released \in BOOLEAN
  /\ step.pc = "refused" => step.usage.resets \in Int

DraftsTyped ==
  /\ now \in Nat /\ made \in Nat
  /\ ask = [r \in Requests |-> ask[r]] /\ \A r \in Requests : AskOK(ask[r])
  /\ slots \subseteq [by: Requests, at: Nat] /\ IsFiniteSet(slots)
  /\ \A row \in slots : row.at <= now

(* Whoever drafts has a row of the time its transaction began. *)
HasRow ==
  \A r \in Requests :
    ask[r].pc \in {"drafting", "served"} => [by |-> r, at |-> ask[r].at] \in slots

(* No window has more rows than the limit, whoever they are left by. *)
SpansWithin == \A start \in Int : Cardinality(Span(start)) <= Limit

(* Unless a slot was taken since a request began, none is newer than the request. *)
NoneNewer ==
  \A r \in Requests :
    ask[r].pc = "queued" /\ ask[r].made = made => \A row \in slots : row.at <= ask[r].at

DraftsInductive ==
  /\ DraftsTyped /\ HasRow /\ SpansWithin /\ NoneNewer
  /\ ChargedForDrafts /\ ResetsWhenTold /\ DraftsFit

------------------------------------------------------------------------------

LEMMA MinimumIs ==
  ASSUME NEW S \in SUBSET Nat, S # {}
  PROVE  Minimum(S) \in S /\ \A y \in S : Minimum(S) <= y
<1>1. PICK x \in S : \A y \in S : ~(<<y, x>> \in OpToRel(<, Nat))
  BY WFMin, NatLessThanWellFounded
<1>2. \A y \in S : x <= y
  <2> SUFFICES ASSUME NEW y \in S, y < x PROVE FALSE
    OBVIOUS
  <2>1. <<y, x>> \in OpToRel(<, Nat)
    BY DEF OpToRel
  <2> QED BY <1>1, <2>1
<1> QED BY <1>2 DEF Minimum

(* What is counted is finite, and so is every window. *)
LEMMA CountsAre ==
  ASSUME DraftBounds, DraftsInductive
  PROVE  /\ \A at : IsFiniteSet(Counted(at)) /\ Cardinality(Counted(at)) \in Nat
         /\ \A start : IsFiniteSet(Span(start)) /\ Cardinality(Span(start)) \in Nat
<1>1. IsFiniteSet(slots) /\ \A at : Counted(at) \in SUBSET slots /\ Span(at) \in SUBSET slots
  BY DEF DraftsInductive, DraftsTyped, Counted, Span
<1> QED BY <1>1, FS_Subset, FS_CardinalityType

(* A request that goes on while slots are given back or left alone, and while none is    *)
(* taken: nothing that was told becomes untrue.                                          *)
LEMMA AskMoves ==
  ASSUME DraftBounds, DraftsInductive, NEW r \in Requests, NEW step, Became(r, step),
         AskOK(step), UNCHANGED <<now, made>>,
         \/ slots' = slots
         \/ slots' = slots \ SlotOf(r) /\ step.pc = "failed" /\ step.released,
         step.pc \in {"drafting", "served"} => [by |-> r, at |-> step.at] \in slots,
         step.pc = "queued" /\ step.made = made => \A row \in slots : row.at <= step.at,
         CASE step.pc \in {"drafting", "releasing", "served"} -> SlotOf(r) # {}
           [] step.pc = "failed" -> step.released \/ SlotOf(r) # {}
           [] OTHER -> SlotOf(r) = {},
         step.pc = "failed" /\ step.released => slots' = slots \ SlotOf(r),
         step.pc = "refused" /\ step.made = made
           => HasSlot(Cardinality(Counted(step.usage.resets))),
         step.pc = "served" =>
           step.draft.en \in 1 .. MaxLength /\ step.draft.zh \in 1 .. MaxLength
  PROVE  DraftsInductive'
<1>1. /\ ask' = [q \in Requests |-> ask'[q]] /\ ask'[r] = step
      /\ \A q \in Requests \ {r} : ask'[q] = ask[q]
  BY DEF Became, DraftsInductive, DraftsTyped
<1>2. slots' \in SUBSET slots /\ IsFiniteSet(slots')
  BY FS_Subset DEF DraftsInductive, DraftsTyped
<1>3. DraftsTyped'
  <2>1. \A q \in Requests : AskOK(ask[q])'
    BY <1>1 DEF DraftsInductive, DraftsTyped, AskOK
  <2> QED BY <1>1, <1>2, <2>1 DEF DraftsInductive, DraftsTyped
<1>4. \A q \in Requests \ {r} : SlotOf(q)' = SlotOf(q)
  BY DEF SlotOf
<1>5. \A q \in Requests \ {r} : \A at : [by |-> q, at |-> at] \in slots
                                          => [by |-> q, at |-> at] \in slots'
  BY DEF SlotOf
<1>6. HasRow'
  BY <1>1, <1>5 DEF DraftsInductive, HasRow
<1>7. /\ \A at : Counted(at)' \in SUBSET Counted(at)
      /\ \A start : Span(start)' \in SUBSET Span(start)
  BY <1>2 DEF Counted, Span
<1>8. /\ \A at : Cardinality(Counted(at)') <= Cardinality(Counted(at))
                 /\ Cardinality(Counted(at)') \in Nat
      /\ \A start : Cardinality(Span(start)') <= Cardinality(Span(start))
                    /\ Cardinality(Span(start)') \in Nat
  BY <1>7, CountsAre, FS_Subset, FS_CardinalityType
<1>9. SpansWithin'
  BY <1>8, CountsAre DEF SpansWithin, DraftsInductive, DraftBounds
<1>10. NoneNewer'
  BY <1>1, <1>2 DEF DraftsInductive, NoneNewer
<1>11. ChargedForDrafts'
  <2>1. SlotOf(r)' = IF slots' = slots THEN SlotOf(r) ELSE {}
    BY DEF SlotOf
  <2>2. step.pc = "failed" /\ step.released => SlotOf(r)' = {}
    BY DEF SlotOf
  <2>3. step.pc = "failed" => step.released \in BOOLEAN
    BY DEF AskOK
  <2>4. ASSUME NEW q \in Requests \ {r}
        PROVE  LET charged == SlotOf(q)' # {} IN
               CASE ask'[q].pc \in {"drafting", "releasing", "served"} -> charged
                 [] ask'[q].pc = "failed" -> charged = ~ask'[q].released
                 [] OTHER -> ~charged
    BY <1>1, <1>4 DEF DraftsInductive, ChargedForDrafts
  <2>5. LET charged == SlotOf(r)' # {} IN
        CASE step.pc \in {"drafting", "releasing", "served"} -> charged
          [] step.pc = "failed" -> charged = ~step.released
          [] OTHER -> ~charged
    <3>1. CASE step.pc = "failed"
      BY <2>1, <2>2, <2>3, <3>1
    <3>2. CASE step.pc # "failed"
      BY <2>1, <3>2
    <3> QED BY <3>1, <3>2
  <2> QED BY <1>1, <2>4, <2>5 DEF ChargedForDrafts
<1>12. ResetsWhenTold'
  <2>1. ASSUME NEW q \in Requests, ask'[q].pc = "refused", ask'[q].made = made,
               NEW told, told = ask'[q].usage.resets
        PROVE  Cardinality(Counted(told)') < Limit
    <3>1. Cardinality(Counted(told)) < Limit
      BY <1>1, <2>1 DEF DraftsInductive, ResetsWhenTold, HasSlot
    <3> QED BY <1>8, <3>1, CountsAre DEF DraftBounds
  <2> QED BY <2>1 DEF ResetsWhenTold, HasSlot, Counted
<1>13. DraftsFit'
  BY <1>1 DEF DraftsInductive, DraftsFit
<1> QED BY <1>3, <1>6, <1>9, <1>10, <1>11, <1>12, <1>13 DEF DraftsInductive

------------------------------------------------------------------------------

LEMMA InitDrafts ==
  ASSUME DraftBounds, DraftsInit
  PROVE  DraftsInductive
<1>1. slots = {} /\ now = 0 /\ made = 0 /\ \A r \in Requests : ask[r].pc = "idle"
  BY DEF DraftsInit
<1>2. ask = [r \in Requests |-> ask[r]]
  BY DEF DraftsInit
<1>3. DraftsTyped
  BY <1>1, <1>2, FS_EmptySet DEF DraftsTyped, AskOK, Begun
<1>4. SpansWithin
  <2>1. \A start : Span(start) = {}
    BY <1>1 DEF Span
  <2> QED BY <2>1, FS_EmptySet DEF SpansWithin, DraftBounds
<1>5. ChargedForDrafts
  BY <1>1 DEF ChargedForDrafts, SlotOf
<1> QED BY <1>1, <1>3, <1>4, <1>5
        DEF DraftsInductive, HasRow, NoneNewer, ResetsWhenTold, DraftsFit

LEMMA BeginMoves ==
  ASSUME DraftBounds, DraftsInductive, NEW r \in Requests, Begin(r)
  PROVE  DraftsInductive'
<1> DEFINE step == [pc |-> "queued", at |-> now, made |-> made]
<1>1. now \in Nat /\ made \in Nat /\ \A row \in slots : row.at <= now
  BY DEF DraftsInductive, DraftsTyped
<1>2. step.pc = "queued" /\ step.at = now /\ step.made = made /\ AskOK(step)
  BY <1>1 DEF AskOK, Begun
<1>3. SlotOf(r) = {}
  BY DEF Begin, DraftsInductive, ChargedForDrafts
<1>4. Became(r, step) /\ UNCHANGED <<now, made, slots>>
  BY DEF Begin
<1> HIDE DEF step
<1> QED BY <1>1, <1>2, <1>3, <1>4, AskMoves

(* Every row within the window of a request that reserves is counted for it, those of    *)
(* requests that began later too; so the row that is added is within the limit.          *)
LEMMA ReservedMoves ==
  ASSUME DraftBounds, DraftsInductive, NEW r \in Requests, ask[r].pc = "queued",
         HasSlot(Cardinality(Counted(ask[r].at))), Reserved(r), NEW step, Became(r, step),
         \/ step.pc = "drafting" /\ step.at = ask[r].at
         \/ step.pc = "failed" /\ ~step.released,
         step.pc = "failed" => step.released \in BOOLEAN,
         UNCHANGED now
  PROVE  DraftsInductive'
<1> DEFINE at == ask[r].at
           row == [by |-> r, at |-> at]
<1>1. /\ at \in Nat /\ at <= now /\ now \in Nat /\ made \in Nat
      /\ slots \subseteq [by: Requests, at: Nat] /\ IsFiniteSet(slots)
      /\ \A old \in slots : old.at <= now
      /\ AskOK(ask[r])
  BY DEF DraftsInductive, DraftsTyped, AskOK, Begun
<1>2. slots' = slots \cup {row} /\ made' = made + 1 /\ row \in [by: Requests, at: Nat]
  BY <1>1 DEF Reserved
<1>3. /\ ask' = [q \in Requests |-> ask'[q]] /\ ask'[r] = step
      /\ \A q \in Requests \ {r} : ask'[q] = ask[q]
  BY DEF Became, DraftsInductive, DraftsTyped
<1>4. DraftsTyped'
  <2>1. IsFiniteSet(slots')
    BY <1>1, <1>2, FS_AddElement
  <2>2. \A q \in Requests : AskOK(ask[q])'
    <3>1. AskOK(step)'
      BY <1>1 DEF AskOK, Begun
    <3>2. \A q \in Requests \ {r} : AskOK(ask[q])'
      BY <1>1, <1>2, <1>3 DEF DraftsInductive, DraftsTyped, AskOK
    <3>3. AskOK(ask[r])'
      BY <1>3, <3>1 DEF AskOK
    <3> QED BY <3>2, <3>3
  <2>3. \A old \in slots' : old.at <= now'
    BY <1>1, <1>2
  <2> QED BY <1>1, <1>2, <1>3, <2>1, <2>2, <2>3 DEF DraftsTyped
<1>5. HasRow'
  BY <1>2, <1>3 DEF DraftsInductive, HasRow
<1>6. SpansWithin'
  <2> SUFFICES ASSUME NEW start \in Int PROVE Cardinality(Span(start)') <= Limit
    BY DEF SpansWithin
  <2>1. CASE at > start /\ at <= start + Window
    <3>1. Span(start)' = Span(start) \cup {row}
      BY <1>1, <1>2, <2>1 DEF Span
    <3>2. Span(start) \in SUBSET Counted(at)
      BY <1>1, <2>1 DEF Span, Counted, InWindow, DraftBounds
    <3>3. Cardinality(Span(start)) <= Cardinality(Counted(at))
      BY <3>2, CountsAre, FS_Subset
    <3>4. Cardinality(Span(start) \cup {row}) <= Cardinality(Span(start)) + 1
      <4> HIDE DEF row
      <4>1. IsFiniteSet(Span(start)) /\ Cardinality(Span(start)) \in Nat
        BY CountsAre
      <4>2. Cardinality(Span(start) \cup {row})
              = IF row \in Span(start) THEN Cardinality(Span(start))
                ELSE Cardinality(Span(start)) + 1
        BY <4>1, FS_AddElement
      <4> QED BY <4>1, <4>2
    <3>5. IsFiniteSet(Span(start) \cup {row}) /\ Cardinality(Span(start) \cup {row}) \in Nat
      <4> HIDE DEF row
      <4>1. IsFiniteSet(Span(start) \cup {row})
        BY CountsAre, FS_AddElement
      <4> QED BY <4>1, FS_CardinalityType
    <3> QED BY <3>1, <3>3, <3>4, <3>5, CountsAre DEF HasSlot, DraftBounds
  <2>2. CASE ~(at > start /\ at <= start + Window)
    <3>1. Span(start)' = Span(start)
      BY <1>1, <1>2, <2>2 DEF Span
    <3> QED BY <3>1 DEF DraftsInductive, SpansWithin
  <2> QED BY <2>1, <2>2
<1>7. NoneNewer' /\ ResetsWhenTold'
  <2>1. \A q \in Requests : ask'[q].pc \in {"queued", "refused"} => ask'[q].made # made'
    <3>1. ASSUME NEW q \in Requests, q # r, ask[q].pc \in {"queued", "refused"}
          PROVE  ask[q].made \in Nat /\ ask[q].made <= made
      BY <3>1 DEF DraftsInductive, DraftsTyped, AskOK
    <3> QED BY <1>1, <1>2, <1>3, <3>1
  <2> QED BY <2>1 DEF NoneNewer, ResetsWhenTold
<1>8. ChargedForDrafts'
  <2>1. /\ row \in SlotOf(r)' /\ SlotOf(r)' # {}
        /\ \A q \in Requests \ {r} : SlotOf(q)' = SlotOf(q)
    BY <1>2 DEF SlotOf
  <2>2. ASSUME NEW q \in Requests \ {r}
        PROVE  LET charged == SlotOf(q)' # {} IN
               CASE ask'[q].pc \in {"drafting", "releasing", "served"} -> charged
                 [] ask'[q].pc = "failed" -> charged = ~ask'[q].released
                 [] OTHER -> ~charged
    BY <1>3, <2>1 DEF DraftsInductive, ChargedForDrafts
  <2>3. LET charged == SlotOf(r)' # {} IN
        CASE step.pc \in {"drafting", "releasing", "served"} -> charged
          [] step.pc = "failed" -> charged = ~step.released
          [] OTHER -> ~charged
    BY <2>1
  <2> QED BY <1>3, <2>2, <2>3 DEF ChargedForDrafts
<1>9. DraftsFit'
  BY <1>3 DEF DraftsInductive, DraftsFit
<1> QED BY <1>4, <1>5, <1>6, <1>7, <1>8, <1>9 DEF DraftsInductive

LEMMA ReserveMoves ==
  ASSUME DraftBounds, DraftsInductive, NEW r \in Requests, Reserve(r) \/ ReserveLost(r)
  PROVE  DraftsInductive'
<1>1. /\ ask[r].pc = "queued" /\ HasSlot(Cardinality(Counted(ask[r].at)))
      /\ Reserved(r) /\ UNCHANGED now
  BY DEF Reserve, ReserveLost
<1>2. CASE Reserve(r)
  <2>1. PICK usage : Became(r, [pc |-> "drafting", at |-> ask[r].at, usage |-> usage])
    BY <1>2 DEF Reserve
  <2> DEFINE step == [pc |-> "drafting", at |-> ask[r].at, usage |-> usage]
  <2>2. step.pc = "drafting" /\ step.at = ask[r].at /\ Became(r, step)
    BY <2>1
  <2> HIDE DEF step
  <2> QED BY <1>1, <2>2, ReservedMoves
<1>3. CASE ReserveLost(r)
  <2> DEFINE step == [pc |-> "failed", released |-> FALSE]
  <2>2. step.pc = "failed" /\ step.released = FALSE /\ Became(r, step)
    BY <1>3 DEF ReserveLost
  <2> HIDE DEF step
  <2> QED BY <1>1, <2>2, ReservedMoves
<1> QED BY <1>2, <1>3

(* The oldest row counted against the request is the first to leave the window, and what *)
(* stays is one less than the limit.                                                     *)
LEMMA RefuseMoves ==
  ASSUME DraftBounds, DraftsInductive, NEW r \in Requests, Refuse(r)
  PROVE  DraftsInductive'
<1> DEFINE at == ask[r].at
           times == {row.at : row \in Counted(at)}
           first == Minimum(times)
<1>1. /\ at \in Nat /\ at <= now /\ now \in Nat /\ ask[r].made \in Nat /\ ask[r].made <= made
      /\ slots \subseteq [by: Requests, at: Nat] /\ ask[r].pc = "queued"
  BY DEF DraftsInductive, DraftsTyped, AskOK, Begun, Refuse
<1>2. /\ Cardinality(Counted(at)) \in Nat /\ Cardinality(Counted(at)) >= Limit
  BY CountsAre DEF Refuse, HasSlot, DraftBounds
<1>3. times # {} /\ times \in SUBSET Nat
  <2>1. Counted(at) # {}
    BY <1>2, FS_EmptySet DEF DraftBounds
  <2> QED BY <1>1, <2>1 DEF Counted
<1>4. first \in times /\ \A t \in times : first <= t
  <2> HIDE DEF times
  <2> QED BY <1>3, MinimumIs
<1>5. PICK oldest \in Counted(at) : oldest.at = first
  BY <1>4
<1>6. first \in Nat /\ first > at - Window
  BY <1>1, <1>5 DEF Counted, InWindow
<1> HIDE DEF first
<1> DEFINE step == [pc |-> "refused", at |-> at, made |-> ask[r].made,
                    usage |-> Usage(Cardinality(Counted(at)), times)]
<1>7. Became(r, step) /\ UNCHANGED <<now, made, slots>>
  BY DEF Refuse
<1>8. /\ step.pc = "refused" /\ step.at = at /\ step.made = ask[r].made
      /\ step.usage.resets = first + Window
  BY <1>2 DEF Usage, first, DraftBounds
<1> HIDE DEF step
<1>9. AskOK(step)
  BY <1>1, <1>6, <1>8 DEF AskOK, Begun, DraftBounds
<1>10. SlotOf(r) = {}
  BY <1>1 DEF DraftsInductive, ChargedForDrafts
<1>11. ask[r].made = made => HasSlot(Cardinality(Counted(first + Window)))
  <2> SUFFICES ASSUME ask[r].made = made PROVE Cardinality(Counted(first + Window)) < Limit
    BY DEF HasSlot
  <2>1. \A row \in slots : row.at <= at
    BY <1>1 DEF DraftsInductive, NoneNewer
  <2> DEFINE later == Counted(first + Window)
  <2>2. oldest \notin later /\ later \cup {oldest} \in SUBSET Span(at - Window)
    <3>1. oldest \in slots /\ oldest.at > at - Window
      BY <1>5 DEF Counted, InWindow
    <3>2. \A row \in later : row \in slots /\ row.at > first
      BY <1>1, <1>6 DEF Counted, InWindow, DraftBounds
    <3>3. \A row \in slots : row.at \in Nat
      BY <1>1
    <3> HIDE DEF later
    <3>4. ~(first > first)
      BY <1>6
    <3>5. \A row \in later : row.at > at - Window
      BY <1>1, <1>6, <3>2, <3>3 DEF DraftBounds
    <3> QED BY <1>1, <1>5, <2>1, <3>1, <3>2, <3>3, <3>4, <3>5 DEF Span, DraftBounds
  <2>3. IsFiniteSet(later) /\ Cardinality(later) \in Nat
    BY CountsAre
  <2>4. Cardinality(later \cup {oldest}) = Cardinality(later) + 1
    <3> HIDE DEF later
    <3> QED BY <2>2, <2>3, FS_AddElement
  <2>5. Cardinality(later \cup {oldest}) <= Cardinality(Span(at - Window))
    <3> HIDE DEF later
    <3> QED BY <2>2, CountsAre, FS_Subset
  <2>6. Cardinality(Span(at - Window)) <= Limit
    BY <1>1 DEF DraftsInductive, SpansWithin, DraftBounds
  <2> HIDE DEF later
  <2>7. Cardinality(later) < Limit
    BY <2>3, <2>4, <2>5, <2>6, CountsAre DEF DraftBounds
  <2> QED BY <2>7 DEF later
<1> QED BY <1>7, <1>8, <1>9, <1>10, <1>11, AskMoves

LEMMA ServeMoves ==
  ASSUME DraftBounds, DraftsInductive, NEW r \in Requests, NEW a \in Answers, Serve(r, a)
  PROVE  DraftsInductive'
<1> DEFINE step == [pc |-> "served", at |-> ask[r].at, draft |-> a, usage |-> ask[r].usage]
<1>1. Became(r, step) /\ UNCHANGED <<now, made, slots>> /\ ask[r].pc = "drafting" /\ Usable(a)
  BY DEF Serve
<1>2. step.pc = "served" /\ step.at = ask[r].at /\ step.draft = a
  OBVIOUS
<1> HIDE DEF step
<1>3. AskOK(step)
  BY <1>1, <1>2 DEF AskOK, Begun, DraftsInductive, DraftsTyped
<1>4. [by |-> r, at |-> step.at] \in slots /\ SlotOf(r) # {}
  BY <1>1, <1>2 DEF DraftsInductive, HasRow, ChargedForDrafts
<1> QED BY <1>1, <1>2, <1>3, <1>4, AskMoves DEF Usable

(* A draft that fails keeps its slot until its release, and for good when nobody is      *)
(* left to release it.                                                                   *)
LEMMA FailMoves ==
  ASSUME DraftBounds, DraftsInductive, NEW r \in Requests,
         Fail(r) \/ FreeSlotFails(r) \/ DraftDies(r)
  PROVE  DraftsInductive'
<1>1. /\ ask[r].pc \in {"drafting", "releasing"} /\ UNCHANGED <<now, made, slots>>
  BY DEF Fail, FreeSlotFails, DraftDies
<1>2. SlotOf(r) # {}
  BY <1>1 DEF DraftsInductive, ChargedForDrafts
<1>3. CASE Fail(r)
  <2> DEFINE step == [pc |-> "releasing"]
  <2>1. Became(r, step) /\ step.pc = "releasing"
    BY <1>3 DEF Fail
  <2> HIDE DEF step
  <2>2. AskOK(step)
    BY <2>1 DEF AskOK, Begun
  <2> QED BY <1>1, <1>2, <2>1, <2>2, AskMoves
<1>4. CASE FreeSlotFails(r) \/ DraftDies(r)
  <2> DEFINE step == [pc |-> "failed", released |-> FALSE]
  <2>1. Became(r, step) /\ step.pc = "failed" /\ step.released = FALSE
    BY <1>4 DEF FreeSlotFails, DraftDies
  <2> HIDE DEF step
  <2>2. AskOK(step)
    BY <2>1 DEF AskOK, Begun
  <2> QED BY <1>1, <1>2, <2>1, <2>2, AskMoves
<1> QED BY <1>3, <1>4

LEMMA FreeSlotMoves ==
  ASSUME DraftBounds, DraftsInductive, NEW r \in Requests, FreeSlot(r)
  PROVE  DraftsInductive'
<1> DEFINE step == [pc |-> "failed", released |-> TRUE]
<1>1. /\ Became(r, step) /\ step.pc = "failed" /\ step.released = TRUE
      /\ slots' = slots \ SlotOf(r) /\ UNCHANGED <<now, made>>
  BY DEF FreeSlot
<1> HIDE DEF step
<1>2. AskOK(step)
  BY <1>1 DEF AskOK, Begun
<1> QED BY <1>1, <1>2, AskMoves

LEMMA TimeMoves ==
  ASSUME DraftBounds, DraftsInductive, Tick \/ UNCHANGED draftVars
  PROVE  DraftsInductive'
<1>1. now \in Nat /\ now' \in Nat /\ now <= now' /\ UNCHANGED <<slots, ask, made>>
  BY DEF Tick, draftVars, DraftsInductive, DraftsTyped
<1>2. DraftsTyped'
  <2>1. \A r \in Requests : AskOK(ask[r])'
    BY <1>1 DEF DraftsInductive, DraftsTyped, AskOK
  <2>2. \A row \in slots : row.at \in Nat /\ row.at <= now
    BY DEF DraftsInductive, DraftsTyped
  <2> QED BY <1>1, <2>1, <2>2 DEF DraftsInductive, DraftsTyped
<1>3. HasRow' /\ SpansWithin' /\ NoneNewer'
  BY <1>1 DEF DraftsInductive, HasRow, SpansWithin, Span, NoneNewer
<1>4. ChargedForDrafts' /\ ResetsWhenTold' /\ DraftsFit'
  BY <1>1 DEF DraftsInductive, ChargedForDrafts, SlotOf, ResetsWhenTold, Counted, DraftsFit
<1> QED BY <1>2, <1>3, <1>4 DEF DraftsInductive

(* Each draft of a window has its row in the same window. *)
LEMMA LimitIsKept ==
  ASSUME DraftBounds, DraftsInductive
  PROVE  WithinLimit
<1> SUFFICES ASSUME NEW start \in -Window .. LastTime
             PROVE  Cardinality({r \in Requests : /\ ask[r].pc \in {"drafting", "served"}
                                                  /\ ask[r].at \in start + 1 .. start + Window})
                      <= Limit
  BY DEF WithinLimit
<1> DEFINE drafting == {r \in Requests : /\ ask[r].pc \in {"drafting", "served"}
                                         /\ ask[r].at \in start + 1 .. start + Window}
           row == [r \in drafting |-> [by |-> r, at |-> ask[r].at]]
<1>1. start \in Int
  BY DEF DraftBounds
<1>2. ASSUME NEW r \in drafting PROVE row[r] \in Span(start)
  <2>1. row[r] = [by |-> r, at |-> ask[r].at] /\ row[r] \in slots
    BY DEF DraftsInductive, HasRow
  <2> QED BY <1>1, <2>1 DEF Span, DraftBounds
<1>3. row \in Injection(drafting, Span(start))
  <2>1. row \in [drafting -> Span(start)]
    BY <1>2
  <2>2. IsInjective(row)
    BY DEF IsInjective
  <2> QED BY <2>1, <2>2 DEF Injection
<1> HIDE DEF row, drafting
<1>4. IsFiniteSet(drafting) /\ Cardinality(drafting) <= Cardinality(Span(start))
  BY <1>3, CountsAre, FS_Injection
<1>5. Cardinality(Span(start)) <= Limit
  BY <1>1 DEF DraftsInductive, SpansWithin
<1>6. Cardinality(drafting) <= Limit
  BY <1>4, <1>5, CountsAre, FS_CardinalityType DEF DraftBounds
<1> QED BY <1>6 DEF drafting

LEMMA DraftSteps ==
  ASSUME DraftBounds
  PROVE  DraftsInductive /\ [DraftsNext]_draftVars => DraftsInductive'
<1> SUFFICES ASSUME DraftsInductive, [DraftsNext]_draftVars PROVE DraftsInductive'
  OBVIOUS
<1>1. ASSUME NEW r \in Requests, Begin(r) \/ Reserve(r) \/ Refuse(r) \/ ReserveLost(r)
      PROVE  DraftsInductive'
  BY <1>1, BeginMoves, ReserveMoves, RefuseMoves
<1>2. ASSUME NEW r \in Requests, Fail(r) \/ FreeSlot(r) \/ FreeSlotFails(r) \/ DraftDies(r)
      PROVE  DraftsInductive'
  BY <1>2, FailMoves, FreeSlotMoves
<1>3. ASSUME NEW r \in Requests, NEW a \in Answers, Serve(r, a) PROVE DraftsInductive'
  BY <1>3, ServeMoves
<1> QED BY <1>1, <1>2, <1>3, TimeMoves DEF DraftsNext

(* No window has more drafts than the limit, a slot is charged for a draft that is made  *)
(* or whose release failed, who is refused is told when a slot will be free, and what is *)
(* served can be saved: however requests wait for the lock, fail and are released        *)
(* (reserve_bio_ai_request, BioDraftService.draft).                                      *)
THEOREM QuotaKept == ASSUME DraftBounds PROVE DraftsSpec => []QuotaIsKept
<1>1. DraftsInit => DraftsInductive
  BY InitDrafts
<1>2. DraftsInductive /\ [DraftsNext]_draftVars => DraftsInductive'
  BY DraftSteps
<1>3. DraftsInductive => QuotaIsKept
  BY LimitIsKept DEF DraftsInductive, QuotaIsKept
<1> QED BY <1>1, <1>2, <1>3, PTL DEF DraftsSpec
====
