---- MODULE MCWorkers ----
(* The background work of the worker process, checked side by side: which of the *)
(* five parts a behaviour is about is chosen in its initial state, and the others *)
(* rest there. Calls return, by an answer or by their timeout, and timers fire: that *)
(* is the fairness of each part. The calls of the storage have no timeout: that one   *)
(* does not return is a step of the exports (Hangs).                                  *)
EXTENDS CalendarSync, DocumentExports

CONSTANT class  \* a model value: a class may be compared with a deletion

VARIABLES
  part,
  shop, goneOnce, clock, changes, customers, watermark, lease, pull, notices, mirrorFaults,
  today, runRow, runJob, open, able, sentAt, claimedAt, lastMail, doubled,
  givenBack, served, byHand, reminderFaults,
  profile, queue, state, entries, files, batch, fresh, shopJob, lost, drifted,
  profileEdits, shopFaults, shopRuns

mirrorVars == <<shop, goneOnce, clock, changes, customers, watermark, lease, pull, notices,
                mirrorFaults>>
remindersVars == <<today, runRow, runJob, open, able, sentAt, claimedAt, lastMail, doubled,
                   givenBack, served, byHand, reminderFaults>>
storefrontVars == <<profile, queue, state, entries, files, batch, fresh, shopJob, lost,
                    drifted, profileEdits, shopFaults, shopRuns>>

Mirror == INSTANCE CustomerMirror WITH
  Customers <- {1, 2}, Workers <- {"worker"}, Admins <- {"admin"}, PageSize <- 1,
  TickPages <- 2, MaxTime <- 1, MaxChanges <- 2, MaxFaults <- 1

Reminders == INSTANCE DailyReminders WITH
  Workers <- {"w1", "w2"}, Endpoints <- {}, Assignments <- {1}, Interval <- 2,
  LastDay <- 3, MaxByHand <- 1, MaxFaults <- 1, job <- runJob

Storefront == INSTANCE InstructorPublishing WITH
  Instructors <- {"anna", "ben"}, Names <- {"amy", "zoe"},
  FirstName <- [i \in {"anna", "ben"} |-> "amy"], MaxSuffix <- 3, Foreign <- {<<"amy", 2>>},
  BatchSize <- 2, MaxAttempts <- 2, MaxEdits <- 1, MaxFaults <- 1, MaxRuns <- 1,
  job <- shopJob, edits <- profileEdits, faults <- shopFaults, runs <- shopRuns

\* How an archive is packed is checked with MCOffice.
NoRows == <<>>
resting == <<part, archiveVars>>
ArchiveRests ==
  /\ copies = 0 /\ build = 0 /\ opened = 0 /\ output = 0 /\ upload = 0 /\ sent = 0 /\ bucket = 0
  /\ archiveFaults = 0

SuiteInit ==
  /\ part \in {"calendar", "mirror", "reminders", "exports", "storefront"}
  /\ Init /\ Mirror!MirrorInit /\ Reminders!RemindersInit /\ ExportsInit
  /\ Storefront!Init /\ ArchiveRests

CalendarNext ==
  part = "calendar" /\ Next
  /\ UNCHANGED <<resting, mirrorVars, remindersVars, exportVars, storefrontVars>>
MirrorNext ==
  part = "mirror" /\ Mirror!MirrorNext
  /\ UNCHANGED <<resting, vars, remindersVars, exportVars, storefrontVars>>
RemindersNext ==
  part = "reminders" /\ Reminders!RemindersNext
  /\ UNCHANGED <<resting, vars, mirrorVars, exportVars, storefrontVars>>
ZipsNext ==
  part = "exports" /\ ExportsNext
  /\ UNCHANGED <<resting, vars, mirrorVars, remindersVars, storefrontVars>>
StorefrontNext ==
  part = "storefront" /\ Storefront!Next
  /\ UNCHANGED <<resting, vars, mirrorVars, remindersVars, exportVars>>

SuiteNext == CalendarNext \/ MirrorNext \/ RemindersNext \/ ZipsNext \/ StorefrontNext

\* Each tick of the reconciler asks for the classes and then for the queue, so neither
\* waits for ever while there is something to do; nothing makes an admin book or retry.
CalendarFairness ==
  LET Only(A) == part = "calendar" /\ A IN
  /\ WF_vars(Only(Step("worker")))
  /\ WF_vars(Only(StartWorker("worker", class)))
  /\ WF_vars(Only(StartQueue("worker")))
\* A pull that began goes on; nothing makes webhooks arrive.
MirrorFairness ==
  LET Only(A) == part = "mirror" /\ A IN
  /\ WF_mirrorVars(Only(Mirror!Expire))
  /\ \A p \in {"worker", "admin"} : WF_mirrorVars(Only(Mirror!PullStep(p)))
  /\ SF_mirrorVars(Only(Mirror!StartTick("worker")))
  /\ SF_mirrorVars(Only(Mirror!MarkSince("worker", "list")))
\* Days pass, leases run out, a run that began goes on.
RemindersFairness ==
  LET Only(A) == part = "reminders" /\ A IN
  /\ WF_remindersVars(Only(Reminders!NextDay))
  /\ \A d \in {2, 3} : WF_remindersVars(Only(Reminders!LeaseEnds(d)))
  /\ \A p \in {"w1", "w2"} : WF_remindersVars(Only(Reminders!JobStep(p)))
  /\ \A w \in {"w1", "w2"} : WF_remindersVars(Only(Reminders!TryStart(w)))
\* What was begun goes on, unless it hangs; nothing makes an export expire, or a live
\* process fall silent.
ExportsFairness ==
  LET Only(A) == part = "exports" /\ A IN
  /\ \A x \in {"x1", "x2"} :
       /\ WF_exportVars(Only(Enqueue(x)))
       /\ WF_exportVars(Only(TurnsStale(x) /\ exportRow[x].owner \notin alive))
  /\ \A o \in {"o1", "o2"} : WF_exportVars(Only(Build(o)))
  /\ WF_exportVars(Only(RecoverStale))

\* The timer ticks, the wait of a retry ends, a sync that began goes on.
StorefrontFairness ==
  LET Only(A) == part = "storefront" /\ A IN
  /\ WF_storefrontVars(Only(Storefront!Step))
  /\ WF_storefrontVars(Only(\E i \in {"anna", "ben"} : Storefront!Assess(i)))
  /\ WF_storefrontVars(Only(\E S \in SUBSET {"anna", "ben"} : Storefront!Claim(S)))

SuiteSpec ==
  /\ SuiteInit
  /\ [][SuiteNext]_<<resting, vars, mirrorVars, remindersVars, exportVars, storefrontVars>>
FairSpec ==
  /\ SuiteSpec /\ CalendarFairness /\ MirrorFairness /\ RemindersFairness /\ ExportsFairness
  /\ StorefrontFairness

(* The customers table implements CustomerReplica: versions Shopify has had, only    *)
(* deleted customers hidden, and in the end Shopify as it is (CustomerMirror).       *)
IsReplica == Mirror!IsReplica

(* What admins and faults leave behind is worked off, each part by its own rule: the *)
(* reconciler has no class and no queued event left that it has not given up, the    *)
(* day whose time is not up has had its run, whichever worker finished it, and no    *)
(* export is under way, whoever died, but one that a failed query keeps there, or a  *)
(* build that hangs in the process it belongs to.                                    *)
WorkSettles ==
  <>[](Backlog = {} /\ (part = "reminders" => Reminders!DayIsDone) /\ AllEnded)

(* With fewer failures than attempts every queued instructor is synced, and nobody stays *)
(* in the queue (InstructorPublishing).                                                  *)
BacklogDrains == <>[](part = "storefront" => Storefront!Queued = {})
====
