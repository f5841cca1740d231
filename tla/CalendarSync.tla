---------------------------- MODULE CalendarSync ----------------------------
(***************************************************************************)
(* How the events of booked classes reach Google Calendar.                 *)
(*                                                                         *)
(* A booking transaction (supabase/migrations/276_booking.sql) writes a    *)
(* class row, marks it pending and queues the event it gives up; the row   *)
(* is the outbox.  CalendarSyncService then works on a copy of the row: it *)
(* inserts or patches the event, empties the class's deletion queue and    *)
(* reports back with the version it has loaded.  API requests and the      *)
(* reconciler of the worker process do this concurrently and without a     *)
(* lock, so every call of Google or of the database is a step of its own.  *)
(*                                                                         *)
(* An event id is the class id and google_event_seq, so an event is        *)
(* <<calendar, class, seq>>.  What the event shows is reduced to the       *)
(* revision of the booking it was written from.                            *)
(***************************************************************************)
EXTENDS Naturals, FiniteSets, FiniteSetsExt

CONSTANTS
  Classes,
  Calendars,
  NoCalendar,    \* google_calendar_id is null, and the class of a pass over the queue
  ApiSyncers,    \* requests of the app process that sync a class
  Workers,       \* reconcilers of the worker process
  FaultKinds,    \* what may go wrong, a subset of AllFaults
  MaxRequests,   \* bound: booking requests
  MaxFaults,     \* bound: faults
  MaxAttempts    \* MAX_CALENDAR_SYNC_ATTEMPTS (10 in the code)

\* google: a call fails and has no effect; reply: it has its effect but its answer
\* is lost; retried: the first try of an insert fails and the client repeats it;
\* offline: the Google account is not connected; database: a query fails.
AllFaults == {"google", "reply", "retried", "offline", "database", "crash"}

ASSUME CalendarAssumption == NoCalendar \notin Calendars \cup Classes
ASSUME SyncerAssumption ==
  ApiSyncers \cap Workers = {} /\ IsFiniteSet(ApiSyncers \cup Workers)
ASSUME FaultAssumption == FaultKinds \subseteq AllFaults
ASSUME BoundAssumption ==
  MaxRequests \in Nat /\ MaxFaults \in Nat /\ MaxAttempts \in Nat \ {0}

VARIABLES
  rows,       \* the classes rows
  deletions,  \* the google_event_deletions rows
  events,     \* Google's events, a function to the revision they show
  job,        \* what each syncer is doing, with the row it has loaded
  current,    \* the syncers whose loaded updated_at is still the row's
  requests,   \* bound
  faults      \* bound

vars == <<rows, deletions, events, job, current, requests, faults>>

-----------------------------------------------------------------------------
Syncers == ApiSyncers \cup Workers
Seq0 == 0 .. MaxRequests          \* google_event_seq: one more per dropped event
NoEvent == MaxRequests + 1        \* google_event_id is null
Revisions == 0 .. MaxRequests

Row == [live: BOOLEAN,            \* status is not cancelled
        cal: Calendars \cup {NoCalendar},
        event: Seq0 \cup {NoEvent},
        seq: Seq0,
        sync: {"ok", "pending", "failed"},
        attempts: 0 .. MaxAttempts,
        revision: Revisions]
Unbooked == [live |-> FALSE]

EventId == Calendars \X Classes \X Seq0
Deletion == [id: Nat \ {0}, event: EventId, attempts: 0 .. MaxAttempts]

Idle == [pc |-> "idle"]

\* class_google_event_id and classEventId: the id a class's next event gets.
ClassEventId(c, row) ==
  <<row.cal, c, IF row.event # NoEvent THEN row.event ELSE row.seq>>

Booked(c) == rows[c] # Unbooked

\* Ids count up in the order of created_at; one that nobody knows any more is as
\* good as a new one.
UsedIds == {d.id : d \in deletions}
           \cup UNION {IF job[t].pc \in {"delete", "complete", "fail"}
                       THEN {d.id : d \in job[t].todo} ELSE {} : t \in Syncers}
FreshId == Max(UsedIds \cup {0}) + 1

\* Attempts are only compared with the cap, so they need not pass it.
OneMore(attempts) == IF attempts < MaxAttempts THEN attempts + 1 ELSE attempts

Queued(e) == \E d \in deletions : d.event = e

\* Mutation: the unique key of the queue is left out.
QueueAgain(e) ==
  deletions' = deletions \cup {[id |-> FreshId, event |-> e, attempts |-> 0]}

\* insert into google_event_deletions ... on conflict do nothing.
Queue(e) ==
  deletions' = IF Queued(e) THEN deletions
               ELSE deletions \cup {[id |-> FreshId, event |-> e, attempts |-> 0]}

\* The trigger set_updated_at: every update of a row makes the copies stale.
Touch(c) == current' = {t \in current : job[t].class # c}

Fault(kind) ==
  /\ kind \in FaultKinds
  /\ faults < MaxFaults
  /\ faults' = faults + 1

-----------------------------------------------------------------------------
(* The booking transactions, as they bear on the calendar.                  *)

Request ==
  /\ requests < MaxRequests
  /\ requests' = requests + 1
  /\ UNCHANGED <<events, job, faults>>

\* book_classes: the row is pending if the lesson goes to a calendar.
Book(c, cal) ==
  /\ Request
  /\ ~Booked(c)
  /\ rows' = [rows EXCEPT ![c] =
                [live |-> TRUE, cal |-> cal, event |-> NoEvent, seq |-> 0,
                 sync |-> IF cal = NoCalendar THEN "ok" ELSE "pending",
                 attempts |-> 0, revision |-> requests']]
  /\ UNCHANGED <<deletions, current>>

\* rebook_class: a lesson on a calendar stays there or moves to that of another
\* instructor, and then its event is dropped.
Rebook(c, cal) ==
  LET row == rows[c]
      drop == row.cal # NoCalendar /\ row.cal # cal
      new == [row EXCEPT !.revision = requests'] IN
  /\ Request
  /\ Booked(c) /\ row.live
  /\ row.cal = NoCalendar <=> cal = NoCalendar
  /\ IF drop THEN Queue(ClassEventId(c, row)) ELSE UNCHANGED deletions
  /\ rows' = [rows EXCEPT ![c] =
       IF cal = NoCalendar THEN new
       ELSE [new EXCEPT !.cal = cal,
                        !.event = IF drop THEN NoEvent ELSE @,
                        !.seq = IF drop THEN @ + 1 ELSE @,
                        !.sync = "pending",
                        !.attempts = 0]]
  /\ Touch(c)

\* Mutation: google_event_seq is left alone.
CancelSameSeq(c) ==
  LET row == rows[c]
      drop == row.cal # NoCalendar IN
  /\ Request
  /\ Booked(c) /\ row.live
  /\ IF drop THEN Queue(ClassEventId(c, row)) ELSE UNCHANGED deletions
  /\ rows' = [rows EXCEPT ![c] =
       [row EXCEPT !.live = FALSE,
                   !.event = NoEvent,
                   !.sync = IF drop THEN "pending" ELSE "ok",
                   !.attempts = 0]]
  /\ Touch(c)

\* Mutation: only an event id that has been stored is queued.
CancelStored(c) ==
  LET row == rows[c]
      drop == row.cal # NoCalendar IN
  /\ Request
  /\ Booked(c) /\ row.live
  /\ IF drop /\ row.event # NoEvent
     THEN Queue(ClassEventId(c, row)) ELSE UNCHANGED deletions
  /\ rows' = [rows EXCEPT ![c] =
       [row EXCEPT !.live = FALSE,
                   !.event = NoEvent,
                   !.seq = IF drop THEN @ + 1 ELSE @,
                   !.sync = IF drop THEN "pending" ELSE "ok",
                   !.attempts = 0]]
  /\ Touch(c)

\* set_class_status, to cancelled: the event is dropped and queued.
Cancel(c) ==
  LET row == rows[c]
      drop == row.cal # NoCalendar IN
  /\ Request
  /\ Booked(c) /\ row.live
  /\ IF drop THEN Queue(ClassEventId(c, row)) ELSE UNCHANGED deletions
  /\ rows' = [rows EXCEPT ![c] =
       [row EXCEPT !.live = FALSE,
                   !.event = NoEvent,
                   !.seq = IF drop THEN @ + 1 ELSE @,
                   !.sync = IF drop THEN "pending" ELSE "ok",
                   !.attempts = 0]]
  /\ Touch(c)

\* set_class_status, from cancelled.
Restore(c) ==
  LET row == rows[c] IN
  /\ Request
  /\ Booked(c) /\ ~row.live
  /\ rows' = [rows EXCEPT ![c] =
       [row EXCEPT !.live = TRUE,
                   !.sync = IF row.cal = NoCalendar THEN "ok" ELSE "pending",
                   !.attempts = 0]]
  /\ Touch(c)
  /\ UNCHANGED deletions

\* set_class_status, between two live statuses or by a cancel that another cancel
\* has overtaken: only updated_at moves.
SetStatus(c) ==
  /\ Request
  /\ Booked(c)
  /\ Touch(c)
  /\ UNCHANGED <<rows, deletions>>

-----------------------------------------------------------------------------
(* CalendarSyncService and CalendarSyncWorker, one step per await.          *)

Become(t, j) == job' = [job EXCEPT ![t] = j]
NoFault == UNCHANGED faults

\* BookingService calls syncPending after its transaction (pendingOnly), and
\* syncClass when an admin asks for a retry.
StartApi(t, c, pendingOnly) ==
  /\ job[t] = Idle
  /\ Booked(c)
  /\ Become(t, [pc |-> "load", class |-> c, only |-> pendingOnly])
  /\ UNCHANGED <<rows, deletions, events, current, requests, faults>>

\* The reconciler's first query: classesToSync.
StartWorker(t, c) ==
  /\ job[t] = Idle
  /\ Booked(c)
  /\ rows[c].sync \in {"pending", "failed"} /\ rows[c].attempts < MaxAttempts
  /\ Become(t, [pc |-> "load", class |-> c, only |-> FALSE])
  /\ UNCHANGED <<rows, deletions, events, current, requests, faults>>

\* The reconciler's second query: openDeletions, of which it takes those that are
\* due.
StartQueue(t) ==
  /\ job[t] = Idle
  /\ \E due \in SUBSET {d \in deletions : d.attempts < MaxAttempts} :
       /\ due # {}
       /\ Become(t, [pc |-> "delete", class |-> NoCalendar, todo |-> due])
  /\ UNCHANGED <<rows, deletions, events, current, requests, faults>>

\* findClasses: the copy of the row that the rest of the sync works on.
Load(t) ==
  LET c == job[t].class
      skip == job[t].only /\ rows[c].sync # "pending" IN
  /\ job[t].pc = "load"
  /\ Become(t, IF skip THEN Idle
               ELSE [pc |-> "connect", class |-> c, row |-> rows[c],
                     event |-> NoEvent, failed |-> FALSE, todo |-> {}])
  /\ current' = IF skip THEN current ELSE current \cup {t}
  /\ UNCHANGED <<rows, deletions, events, requests, faults>>

\* load() answers with no rows if the query fails.
LoadFails(t) ==
  /\ job[t].pc = "load"
  /\ Fault("database")
  /\ Become(t, Idle)
  /\ UNCHANGED <<rows, deletions, events, current, requests>>

\* google.isConnected() is true.
Connect(t) ==
  LET row == job[t].row IN
  /\ job[t].pc = "connect"
  /\ job' = [job EXCEPT ![t].pc =
       IF ~row.live \/ row.cal = NoCalendar THEN "queue"
       ELSE IF row.event # NoEvent THEN "patch" ELSE "insert"]
  /\ UNCHANGED <<rows, deletions, events, current, requests, faults>>

\* GoogleNotConnectedError: neither the event nor the queue is touched.
Offline(t) ==
  /\ job[t].pc = "connect"
  /\ Fault("offline")
  /\ job' = [job EXCEPT ![t].pc = "finish", ![t].failed = TRUE]
  /\ UNCHANGED <<rows, deletions, events, current, requests>>

Target(t) == ClassEventId(job[t].class, job[t].row)
Published(t) == [e \in DOMAIN events \cup {Target(t)} |->
                   IF e = Target(t) THEN job[t].row.revision ELSE events[e]]
Upserted(t) == job' = [job EXCEPT ![t].pc = "queue", ![t].event = Target(t)[3]]
Unsure(t) == job' = [job EXCEPT ![t].pc = "queue", ![t].failed = TRUE]

\* insertEvent under the class's own id.
Insert(t) ==
  /\ job[t].pc = "insert"
  /\ Target(t) \notin DOMAIN events
  /\ events' = Published(t)
  /\ \/ Upserted(t) /\ NoFault
     \/ Unsure(t) /\ Fault("reply")
  /\ UNCHANGED <<rows, deletions, current, requests>>

\* 409 on the first try: the event is there, so it is patched.
InsertDuplicate(t) ==
  /\ job[t].pc = "insert"
  /\ Target(t) \in DOMAIN events
  /\ job' = [job EXCEPT ![t].pc = "patch"]
  /\ UNCHANGED <<rows, deletions, events, current, requests, faults>>

\* 409 on a later try: GoogleCalendarClient takes the event for the one that
\* an earlier try of this insert has made, and returns it as it is.
InsertRetried(t) ==
  /\ job[t].pc = "insert"
  /\ Target(t) \in DOMAIN events
  /\ Fault("retried")
  /\ Upserted(t)
  /\ UNCHANGED <<rows, deletions, events, current, requests>>

Patch(t) ==
  /\ job[t].pc = "patch"
  /\ Target(t) \in DOMAIN events
  /\ events' = Published(t)
  /\ \/ Upserted(t) /\ NoFault
     \/ Unsure(t) /\ Fault("reply")
  /\ UNCHANGED <<rows, deletions, current, requests>>

\* 404: the event is gone.
PatchMissing(t) ==
  /\ job[t].pc = "patch"
  /\ Target(t) \notin DOMAIN events
  /\ Unsure(t)
  /\ UNCHANGED <<rows, deletions, events, current, requests, faults>>

\* The insert or the patch fails and has done nothing.
UpsertFails(t) ==
  /\ job[t].pc \in {"insert", "patch"}
  /\ Fault("google")
  /\ Unsure(t)
  /\ UNCHANGED <<rows, deletions, events, current, requests>>

\* The end of a sync, and of a pass over the queue, which reports nothing.
AfterQueue(t) == IF job[t].class = NoCalendar THEN Idle
                 ELSE [job[t] EXCEPT !.pc = "finish", !.todo = {}]

\* classDeletions: the queue of the class.
LoadQueue(t) ==
  LET todo == {d \in deletions : d.event[2] = job[t].class} IN
  /\ job[t].pc = "queue"
  /\ Become(t, IF todo = {} THEN AfterQueue(t)
               ELSE [job[t] EXCEPT !.pc = "delete", !.todo = todo])
  /\ UNCHANGED <<rows, deletions, events, current, requests, faults>>

LoadQueueFails(t) ==
  /\ job[t].pc = "queue"
  /\ Fault("database")
  /\ Become(t, [AfterQueue(t) EXCEPT !.failed = TRUE])
  /\ UNCHANGED <<rows, deletions, events, current, requests>>

\* processDeletions takes the rows one after the other, the oldest first.
Oldest(t) == CHOOSE d \in job[t].todo : \A o \in job[t].todo : d.id <= o.id

\* deleteEvent: 404 and 410 count as done.
DeleteEvent(t) ==
  /\ job[t].pc = "delete"
  /\ events' = [e \in DOMAIN events \ {Oldest(t).event} |-> events[e]]
  /\ \/ job' = [job EXCEPT ![t].pc = "complete"] /\ NoFault
     \/ job' = [job EXCEPT ![t].pc = "fail"] /\ Fault("reply")
  /\ UNCHANGED <<rows, deletions, current, requests>>

DeleteEventFails(t) ==
  /\ job[t].pc = "delete"
  /\ Fault("google")
  /\ job' = [job EXCEPT ![t].pc = "fail"]
  /\ UNCHANGED <<rows, deletions, events, current, requests>>

\* On to the next row, or to the end.
NextRow(t, j) ==
  LET rest == job[t].todo \ {Oldest(t)} IN
  Become(t, IF rest # {} THEN [j EXCEPT !.pc = "delete", !.todo = rest]
            ELSE IF j.class = NoCalendar THEN Idle
            ELSE [j EXCEPT !.pc = "finish", !.todo = {}])

\* completeDeletion removes the row by its own id.
CompleteDeletion(t) ==
  /\ job[t].pc = "complete"
  /\ deletions' = {d \in deletions : d.id # Oldest(t).id}
  /\ NextRow(t, job[t])
  /\ UNCHANGED <<rows, events, current, requests, faults>>

CompleteDeletionFails(t) ==
  /\ job[t].pc = "complete"
  /\ Fault("database")
  /\ job' = [job EXCEPT ![t].pc = "fail"]
  /\ UNCHANGED <<rows, deletions, events, current, requests>>

\* failDeletion writes the attempts it has read plus one; that it fails itself is
\* only logged.
FailDeletion(t) ==
  LET d == Oldest(t)
      j == IF job[t].class = NoCalendar THEN job[t]
           ELSE [job[t] EXCEPT !.failed = TRUE] IN
  /\ job[t].pc = "fail"
  /\ \/ /\ deletions' = {IF o.id = d.id
                         THEN [o EXCEPT !.attempts = OneMore(d.attempts)]
                         ELSE o : o \in deletions}
        /\ NoFault
     \/ UNCHANGED deletions /\ Fault("database")
  /\ NextRow(t, j)
  /\ UNCHANGED <<rows, events, current, requests>>

\* Mutation: the outcome is recorded for whatever version the row has.
OutcomeAnyVersion(t, kept) ==
  IF job[t].failed
  THEN [kept EXCEPT !.sync = "failed", !.attempts = OneMore(@)]
  ELSE [kept EXCEPT !.sync = "ok", !.attempts = 0]

\* The outcome is recorded only for the version that was loaded.
Outcome(t, kept) ==
  IF t \notin current THEN kept
  ELSE IF job[t].failed
  THEN [kept EXCEPT !.sync = "failed", !.attempts = OneMore(@)]
  ELSE [kept EXCEPT !.sync = "ok", !.attempts = 0]

\* finish_class_google_sync: the event is kept, or queued if the class has moved
\* on.
Finish(t) ==
  LET c == job[t].class
      row == rows[c]
      made == job[t].event
      keep == /\ made # NoEvent
              /\ row.live /\ row.cal = job[t].row.cal
              /\ row.event \in {NoEvent, made}
      kept == IF keep THEN [row EXCEPT !.event = made] ELSE row IN
  /\ job[t].pc = "finish"
  /\ IF made # NoEvent /\ ~keep THEN Queue(<<job[t].row.cal, c, made>>)
     ELSE UNCHANGED deletions
  /\ rows' = [rows EXCEPT ![c] = Outcome(t, kept)]
  /\ current' = IF t \in current \/ kept # row
                THEN {u \in current : job[u].class # c} ELSE current
  /\ Become(t, Idle)
  /\ UNCHANGED <<events, requests, faults>>

\* finishSync throws: the outcome is logged and forgotten.
FinishFails(t) ==
  /\ job[t].pc = "finish"
  /\ Fault("database")
  /\ Become(t, Idle)
  /\ current' = current \ {t}
  /\ UNCHANGED <<rows, deletions, events, requests>>

\* The process dies: the sync stops where it is.
Crash(t) ==
  /\ job[t] # Idle
  /\ Fault("crash")
  /\ Become(t, Idle)
  /\ current' = current \ {t}
  /\ UNCHANGED <<rows, deletions, events, requests>>

-----------------------------------------------------------------------------
Init ==
  /\ rows = [c \in Classes |-> Unbooked]
  /\ deletions = {}
  /\ events = [e \in {} |-> 0]
  /\ job = [t \in Syncers |-> Idle]
  /\ current = {}
  /\ requests = 0
  /\ faults = 0

Booking(c) ==
  \/ \E cal \in Calendars \cup {NoCalendar} : Book(c, cal) \/ Rebook(c, cal)
  \/ Cancel(c)
  \/ Restore(c)
  \/ SetStatus(c)

\* A sync that has started.
Step(t) ==
  \/ Load(t) \/ LoadFails(t)
  \/ Connect(t) \/ Offline(t)
  \/ Insert(t) \/ InsertDuplicate(t) \/ InsertRetried(t)
  \/ Patch(t) \/ PatchMissing(t) \/ UpsertFails(t)
  \/ LoadQueue(t) \/ LoadQueueFails(t)
  \/ DeleteEvent(t) \/ DeleteEventFails(t)
  \/ CompleteDeletion(t) \/ CompleteDeletionFails(t) \/ FailDeletion(t)
  \/ Finish(t) \/ FinishFails(t)

Next ==
  \/ \E c \in Classes : Booking(c)
  \/ \E t \in ApiSyncers, c \in Classes, only \in BOOLEAN : StartApi(t, c, only)
  \/ \E t \in Workers : (\E c \in Classes : StartWorker(t, c)) \/ StartQueue(t)
  \/ \E t \in Syncers : Step(t) \/ Crash(t)

Spec == Init /\ [][Next]_vars

-----------------------------------------------------------------------------
(* Properties.                                                              *)

TypeOK ==
  /\ \A c \in Classes : rows[c] \in Row \cup {Unbooked}
  /\ \A d \in deletions : d \in Deletion
  /\ \A d, e \in deletions : d.id = e.id \/ d.event = e.event => d = e
  /\ DOMAIN events \subseteq EventId
  /\ \A e \in DOMAIN events : events[e] \in Revisions
  /\ \A t \in current : job[t].class \in Classes /\ Booked(job[t].class)
  /\ requests \in 0 .. MaxRequests
  /\ faults \in 0 .. MaxFaults

OnCalendar(c) == Booked(c) /\ rows[c].live /\ rows[c].cal # NoCalendar

\* A lesson the admin is told is synced (google_sync_status ok) has an event id,
\* whatever syncs and transactions finish_class_google_sync has raced with.
OkHasEvent ==
  \A c \in Classes : OnCalendar(c) /\ rows[c].sync = "ok" => rows[c].event # NoEvent

\* The event of a synced lesson is on its calendar and shows the lesson as it was
\* last booked: a sync of an older revision is never taken for one of this.
OkMeansPublished ==
  \A c \in Classes :
    LET e == ClassEventId(c, rows[c]) IN
    OnCalendar(c) /\ rows[c].sync = "ok" /\ rows[c].event = rows[c].seq =>
      e \in DOMAIN events /\ events[e] = rows[c].revision

\* No event is left on a calendar that nobody will ever remove: it is the one of
\* its class, it is queued for deletion, or a sync that holds it is still to
\* report it.
NothingForgotten ==
  \A e \in DOMAIN events :
    LET c == e[2] IN
    \/ rows[c].live /\ ClassEventId(c, rows[c]) = e
    \/ Queued(e)
    \/ \E t \in Syncers :
         job[t].pc \notin {"idle", "load"} /\ job[t].class = c /\ Target(t) = e

\* The event a lesson is about to get, or has got, under its present
\* google_event_seq is never queued for deletion.
PresentEventNotQueued ==
  \A c \in Classes :
    OnCalendar(c) /\ rows[c].event \in {NoEvent, rows[c].seq} =>
      ~Queued(ClassEventId(c, rows[c]))

(* A synced lesson has an event, and an event that may be a lesson's is not queued  *)
(* for removal.  With the types of the state.                                       *)
EventsAreTracked == TypeOK /\ OkHasEvent /\ PresentEventNotQueued

(* The reconciler keeps its word: an ok lesson's event shows it as it was last       *)
(* booked, and no event is left that nobody will remove.                            *)
LessonsArePublished == EventsAreTracked /\ OkMeansPublished /\ NothingForgotten

\* What the reconciler still has to work on.
Backlog ==
  {c \in Classes : Booked(c) /\ rows[c].sync # "ok" /\ rows[c].attempts < MaxAttempts}
  \cup {d \in deletions : d.attempts < MaxAttempts}

=============================================================================
