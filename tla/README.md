# Verification of ssms-api

ssms-api is the back office of a ski and snowboard school: a NestJS program
that runs as two process groups (`app` serves HTTP, `worker` runs the timers of
the background jobs) over one PostgreSQL database, with Google Calendar,
Shopify, a mail provider and a language model behind it. There is no shared
memory between the two groups and no queue server: whatever must survive is a
row, whatever must be exclusive is a row lock, an advisory lock or a lease in a
row, and every call to the database or to a service is an `await` at which
other requests run. This directory holds TLA+ models of that program, the TLC
runs that check them on small instances and the proofs, checked by TLAPS, of
what they establish for every instance.

Files are named below from the repository's `src/` and from `supabase/migrations/`
(by number alone where that is enough); other paths are from its root.

## Inventory

Each entry says what state the component keeps, what changes it, whom it talks
to, what is hard about it and what would make it correct.

**Booking transactions** (`booking/booking.service.ts`, `276_booking.sql`).
State: `classes` rows (instructor, time range, status, source). Operations:
`create` (one class or a weekly series), `update`, `cancel`, `setStatus`, each
of which reads what it needs and then calls one SQL function (`book_classes`,
`rebook_class`, `set_class_status`). Hard: the functions run READ COMMITTED, so
that the overlap query and the write are two statements; an advisory lock per
instructor and row locks serialize them; the service decides on a row it read
several awaits earlier. Correct: an instructor is never booked twice, a
cancelled class does not move, and no request waits for ever.

**Calendar sync** (`booking/calendar-sync.service.ts`, `calendar-sync.worker.ts`,
`google/google-calendar.client.ts`). State: the outbox columns of `classes`
(`google_sync_status`, `google_event_id`, `google_event_seq`, attempts), the
deletion queue `google_event_deletions`, and the events at Google. Operations:
the sync of one class, started by an API request or by the reconciler's tick,
and the pass over the queue. Hard: several syncs of one class at once, without a
lock; the class changes between the load and the report; an answer is lost after
the call took effect; the process dies between the call and the report.
Correct: a class that says it is synced is, no event is left behind, the
backlog drains.

**Booking availability and settings** (`booking/availability.service.ts`,
`booking-calendars.service.ts`). State: the links of instructors to Google
calendars, two caches with a time to live. Operations: offer times, check a
booking. Hard: the answer of Google is cached while events move, and a class must
not be refused because of its own event. Correct: what is offered is free, what is
booked was clear, by what was known while the request ran.

**Payroll** (`payroll/*`, `275_payroll.sql`, `287_pay_rate_unit.sql`). State: the
anchor date, the periods, their class lines and adjustments. Operations: list
(which creates periods), finalize, reopen, adjustments, move the anchor; the
instructor's view. Hard: finalize computes from half a dozen queries and stores the
result in one later transaction; row lock, table lock and a trigger guard each
other. Correct: a class is paid once, a finalized period stays as it was paid, and
the view shows each lesson once.

**Class import** (`class-import/*`, `273_class_import.sql`). State: import batches,
their rows, the classes they created. Operations: upload, decide per row, map
events, commit, undo. Hard: corrections and rematches write whole rows without a
lock. Correct: a class is imported once, as its row was last reviewed.

**Google connection and tokens** (`google/*`). State: the stored refresh token, the
access token cached in each process, a refresh in flight. Hard: a refresh that
started under the old connection answers under the new one, in another process.

**Instructor sync to Shopify** (`shopify-sync/*`, `255`, `256`, `261`, `302`). State:
a queue row per instructor, written by triggers on everything the storefront shows;
the handle, entry and photo files each has at Shopify; the entries and files.
Operations: claim a batch; per row assess the profile and hide or publish it; admin:
sync one or all. Hard: the profile changes while it is synced; one call of seven
fails or the process dies, and the retry starts from what the state says; readiness also
goes by the date, the season and the legacy roster, which no trigger watches. Correct:
what is not queued is shown as it was when it was last looked at, an instructor has one entry, no entry shows a
deleted image, the queue drains.

**Go-live gate and legacy pairing** (`shopify-sync/go-live*`, `shopify/legacy-pairing/*`).
State: the pairs of old entries and instructors, the dismissed ones, what the backfill
has done. Hard: statements without a transaction beside the worker; a backfill that
plans from what it read at its start.

**Shopify admin client** (`shopify/shopify-admin.client.ts`). State: one token, one
request for it, a budget of cost. Hard: waiters share a failure; answers are lost.

**Customer mirror** (`customers/*`, `shopify-webhooks/*`, `279`, `281`). State: the
customers, a lease, a watermark. Hard: webhooks are duplicated, reordered, lost and
concurrent with two kinds of pull and a reconcile of deletions. Correct: the table
shows versions Shopify has had, hides nobody Shopify has not deleted, and comes to be
as Shopify is.

**Document assignments** (`documents/document-publishing`, `-assignments`, `-onboarding`,
with `admin/admin.service.ts` and `activation/activation.service.ts`). State: a
template's life, audience and season; who holds it. Hard: publishing lists the
instructors while approving lists the templates; an insert of many fails as a whole
when one row exists. Correct: nobody misses a document that is live for all; each
assignment is announced once.

**Document signing and versions** (`documents/document-signing`, `document-templates`,
`template-versions`, `pdf-work-queue`, `277`, `298`, `300`). State: the PDF and fields of
each language, assignments with their evidence, signed copies. Hard: bucket and
database change in two steps; two completions write one object; an edit is allowed by
a check made before it waits. Correct: the stored copy is the recorded one, evidence is
never lost, what is signed is what was laid out.

**Document exports** (`documents/document-export-*`, `multipart-upload.ts`, `299`). State:
an export row with owner and heartbeat, the queue of a process, the multipart upload.
Hard: the process dies; three streams run at once and any of them fails or never answers.

**Certification uploads** (`documents/*certification*`). State: uploads, intents, files,
stamps of the expiry emails. Hard: the client may write the staged file again; confirm,
review and the daily pass run at once.

**Onboarding stages** (`documents/me-documents.service.ts`, `shopify-sync/instructor-stage.ts`,
`go-live.ts`). Three places compute how far an instructor is; they must agree.

**Daily reminders** (`reminders/*`, `documents/document-reminders.service.ts`, `297`). State:
a run per day with a lease, a claim and a stamp per assignment. Hard: two workers, an
endpoint without a lease, a lease that runs out between two emails, a stamp that fails, an
email whose answer is lost.
Correct: two emails about one assignment are an interval apart.

**Admin** (`admin/*`): the change of an address through three places, resumed after a
crash; roles with the sessions they end; names of reference rows with their translation.

**Activation and invites** (`activation/*`, `271`, `304`): invites, tokens, cooldowns, moves;
the roster of a season as a script reads and imports it.

**Instructor profiles, bios, drafts, media** (`instructors/*`, `bio-translation/*`, `media/*`,
`282`): the row a first call makes, whole-row saves, translations that must not overwrite a
person's text, a daily quota of drafts.

**Sessions** (`auth/*`, `280`): a verdict cached per session and process, against a revocation.

**Lesson insurance and seasons** (`insurance/*`, `seasons/*`, `291`, `307`): requests with
idempotency keys, records, season passes and a cap, under advisory locks that admins do not take.

**Public pages, public API** (`public-pages/*`, `public-api/*`): a row and two objects under a
lock per process; keys, a limiter, a list assembled from several reads.

**Mailer and auth hooks** (`auth-hooks/*`, `mailer/*`): a deadline, attempts, and a log that
must say what happened.

Audit, database access, configuration, texts, health and static lists keep no state that
anything reads back; `components` in `PROJECT.json` lists every part with what of it is left out.

How they meet: bookings write the outbox the calendar sync reads; payroll reads the
classes bookings write, by their status and start; imports write classes beside the
bookings; profile edits fill the queues of Shopify and of the translation; assignments
feed signing, reminders and the go-live gate; exports read the signed copies.

The behaviours that are hard to test, each at its line, are the `hazards` of
`PROJECT.json`; the properties below are aimed at them. One has no property, only a
note: the guards of payroll that read without a lock.

## Modules

An `MC` module is a suite of components. Its variable `part` says, from the initial state
on, which component a behaviour is about; the others rest. A suite extends the modules
that theorems are about, whose variables and constants it thereby has under their own
names, so that a run checks the very definition that is proved; other parts are instances
in the slots `v1`, `v2`, .... A behaviour is about one part, so a suite checks each part
as a run of its own would.

| Module | Part of the code | Checked by |
|---|---|---|
| `InstructorSchedule` | `276_booking.sql` (`book_classes`, `rebook_class`, `set_class_status`), the handlers of `BookingService`, the insert of `commit_class_import` | `MCSchedule`; `ScheduleProofs` |
| `CalendarSync` | the outbox in `classes`, `google_event_deletions`, `CalendarSyncService`, its worker, `finish_class_google_sync`, the Google client | `MCCalendar`, `MCWorkers`; `CalendarProofs` |
| `PayrollPeriods` | `PayrollService`, its repository, `275_payroll.sql`, `287_pay_rate_unit.sql` | `MCPayroll`; `PayrollProofs` |
| `InstructorPublishing` | `shopify-sync/*`, the queue and its triggers, Shopify's entries and files | `MCPublishing`, `MCWorkers`; `PublishingProofs` |
| `DocumentAssignments` | publishing, assigning and onboarding of documents, approval and activation | `MCDesk`; `DeskProofs` |
| `DocumentSigning` | `DocumentSigningService`, the PDF and fields of a template, `PdfWorkQueue`, `300_delete_document_template.sql` | `MCOffice`; `SigningProofs` |
| `CustomerMirror`, `CustomerReplica` | `customers/*`, `shopify-webhooks/*`; the abstract replica it implements | `MCWorkers`; `MirrorProofs` |
| `DailyReminders` | `reminders/*`, `document-reminders.service.ts` | `MCSchedule`, `MCWorkers`; `ClaimProofs` |
| `DocumentExports` | the export row, its queue and retention; and the ZIP: reads, packing, multipart upload | `MCWorkers`, `MCOffice`; `MirrorProofs` |
| `BookingOffers` | availability, the calendars' caches, the checks of a booking | `MCCalendar` |
| `GoogleToken` | consent, callback, disconnect, the token of each process | `MCCalendar`; `CalendarProofs` |
| `ClassImports` | `class-import/*`, `273_class_import.sql` | `MCCalendar`; `CalendarProofs` |
| `MyLessons` | `me-lessons.service.ts`, pay rates | `MCPayroll` |
| `LessonInsurance` | `insurance/*`, `seasons/*`, 291 to 293 and 307 | `MCSchedule` |
| `BioDrafts` | the quota of drafts | `MCSchedule`; `ClaimProofs` |
| `LegacyPairing`, `LegacyBackfill` | pairing of old entries, filling profiles from them | `MCPublishing` |
| `ShopifyClient` | `shopify-admin.client.ts` | `MCPublishing` |
| `PublicPages`, `PublicApi` | `public-pages/*`, `public-api/*` | `MCPublishing` |
| `SeasonInvites` | invites, resends, reminders, moves | `MCDesk`; `DeskProofs` |
| `EmailChange` | `admin-instructor-email.service.ts` | `MCDesk` |
| `RosterImport` | `activation/roster/*`: reading a person's certificates, and the import | `MCDesk` |
| `OnboardingStages` | the checklist, the gate and the stage, computed in three places | `MCDesk`; `DeskProofs` |
| `InstructorAccounts` | `instructors.service.ts`, photos of `media.service.ts` | `MCDesk`; `DeskProofs` |
| `AuthEmails` | `auth-hooks/*`, `mailer.service.ts` | `MCDesk`; `DeskProofs` |
| `AdminSessions` | roles, the revocation of sessions, `session-liveness.service.ts` | `MCDesk`; `DeskProofs` |
| `DocumentVersions` | versions of a document in other languages | `MCOffice`; `SigningProofs` |
| `CertificationUploads` | upload, confirmation, review, expiry emails | `MCOffice`; `SigningProofs` |
| `Translations` | the bio queue and its worker; names of reference rows | `MCOffice` |

All follow one scheme. A step is what cannot be interleaved: one SQL statement
inside a transaction (`InstructorSchedule`, `LessonInsurance`, the locking parts of
`PayrollPeriods`), one query or one call of a service between two `await`s (the
rest). What a handler has read and still carries is a record (`txn[s]`,
`job[t]`, `op[s]`) with a program counter, and a later step uses that record, never
the current state, where the code uses its local variable. A row is the record
of its columns that matter. The database has what its constraints and locks
guarantee; a lock is a set of holders, its request a guard. A failed call, where a
model has it, may have taken effect or not, an email that was reported as failed included. Definitions marked *Mutation* are not part of a
specification: each is an operation as a plausible bug would have it, and shows that a
property can fail.

A *history variable* records what no row does, so that a property can say "unless":
`astray` (a class given back under the wrong lock), `raced` (two finalizes at once; an edit
that met a signature), `lost`, `drifted`, `givenBack`, `missed`, `crossed`, `touched`, `mixed`, `stirred`,
`stranded`. Where one appears in a property, what it excuses happens in the
code; the comment at the property says how.

**`InstructorSchedule`.** `classes` are committed rows; `lock` the advisory
locks `classes:<instructor>`; `rowLock` the rows selected for update; `txn` the
sessions. READ COMMITTED is literal: `Conflict(Visible(s), ...)` looks at the
rows committed when the statement runs and at the session's own writes, and
`Commit` publishes the writes. `RequestBook`, `RequestRebook`, `RequestStatus`
are the handlers up to the call of the function, with the row they read then;
`Lost` is a session that ends before its commit. `ImportClass` is the write of
an import, which takes part in no lock.

**`CalendarSync`.** `rows` has the columns of the outbox, `deletions` the queue
(with an id per row, as completing a row deletes by id), `events` Google's
calendars. `StartApi` and `StartWorker` begin a sync of a class, which loads the
class (`Load`), gets a token (`Connect`, `Offline`), inserts, patches or deletes
(`Insert`, `InsertDuplicate` for a 409, `Patch`, `PatchMissing` for a 404), and
reports (`Outcome`, the SQL of `finish_class_google_sync`). `FaultKinds` says
what may go wrong: Google refuses, the reply is lost after the effect, a retried
insert, no token, the database fails, the process dies. Google is modelled as
the repository's test double has it. `NoCalendar` also stands for "no class" in a row of the queue.

**`PayrollPeriods`.** `periods`, `lines`, `anchor` are the tables; a `job` is an
admin's request, query by query: the anchor, the missing periods, the classes of
the period, their rates, who else pays them, and then the transaction, which
takes the row or the table before it writes. `GuardLine` is the trigger on
lines, `Deadlocked` and `DeadlockVictim` the detector of PostgreSQL that ends one
of two transactions. `MyLessons` has the same rows as an instructor's view reads them, with
one lesson type, hours folded into the rate and one finalize at a time.

**`InstructorPublishing`.** `queue`, `state` are tables, `entries` and `files`
what Shopify has, `batch` and `job` the worker's memory. `fresh` says which
claimed rows still have the `enqueued_at` they were claimed with, which is all
`completeQueueRow` asks. One action per call of `hide` and `publish`. A failure
(`Fail`) may come between any two of them, so a call whose answer is lost is a
failure after it; `Crash` also forgets the batch. `EditProfile` is a change of a row with a
trigger, which queues the instructor; `Drift` is a change of readiness that queues nobody: the proof
of a certification expires by its date (`go-live.ts`), a season or a required template changes, or the
roster of old entries holds an instructor back. Nothing looks at such an instructor before a row of it
changes or an admin asks for a sync: the tests of `instructor-sync.service.spec.ts` that hide one
call `sync` themselves. The roster of old entries is a constant
here (`Foreign`); `LegacyPairing` has its changes.

**`DocumentAssignments`.** One template; `held` are its assignments that are not
archived, which the unique index keeps to one per instructor and season. `op[s]`
is a request: `publish`, `changeAudience` and `create` go through `List`,
`FindOpen`, `InsertMany` (and `InsertEach` after a unique violation) and `Mail`;
approval, activation and reactivation go through `LoadPerson` and
`LoadTemplates` and join them at `FindOpen`. `news` counts assignments made less
emails sent; `missed` has the instructors whose document
an admin took away, whose request died, or who were reactivated by a request
that had found them active.

**`DocumentSigning`.** One template, `rows` its assignments with the `proof` of a
completion (the two hashes), `source`, `upload`, `copies` the objects of the
bucket. A PDF is known by its layout of pages; its hash is the PDF itself. `op[s]`
is a request; the queue is the condition `~Working`, in any order, which
includes the order the code has. `locked` is the row lock of
`delete_document_template`. The queue is one of the process: as `fly.toml` asks for
one machine of the group `app` (`min_machines_running`), the model has one; two
would put back the race that `CopyIsAsRecorded` excludes. `DocumentVersions` has the rules
between the languages of a document and leaves the life of one to this module.

**`CustomerMirror`.** Shopify's customers are versions that change; `notices` are webhooks
under way, which may come late, twice or never; a `pull` is the tick, the daily reconcile or
an admin's sync, page by page, under the lease. Like the code, a tick's pull writes what
it read without asking for the newer row, so that a webhook may be overtaken and the
next pull puts it right. `CustomerReplica` says what that amounts to: each customer shows a
version Shopify has had, is hidden only if Shopify has deleted it, and is in the end as Shopify
is. `StampFree` and `Prompt` name the two facts about Shopify's clock the table relies on.

**`DailyReminders`.** `runRow` has the lease of a day; a `job` is a worker's run or a request
of the endpoint, which has no lease; `claimedAt` and `sentAt` are the columns, `lastMail`
the day the last email of a run really went, and `doubled` collects the assignments of which a
run sends another one too early. `Send` has three outcomes, as `sendWithRetry` reports what it has seen:
sent; failed, and nothing went; failed, although the provider took it (`"unsure"`). The provider sends
one email per key (`served`), and the key has the day of the run: the retry of the next day is another
email. `givenBack` has the claims that were released although their email had gone.

**`DocumentExports`.** Two machines. The first is the row of an export with the process that builds it,
where the archive is a few steps: `OpenCopy`, `WriteCopy`, `EndZip`, `ZipFails`, and `Hangs`. A build hangs
when the connection of a copy is cut while it is read, or when a call of the storage is not answered: the
storage's client is given no timeout, and only the death of its process ends that job. The second is the
archive, unit by unit (`Flow`, `FillPart`), with the failures of each call. `getStream` pipes the body of an answer into `byteCap`
and returns the latter, so what the catch of `writeSignedCopiesZip` destroys is not the body: `Dropped` leaves it
unpiped and open. For the same reason a body that fails (`BodyCut`) tells the archive nothing.

**The other parts** follow the code query by query in the same way; the comment at the head of
each module names its files and what it folds together. In the map a helper whose lines lie within
those of the definition that uses it has no row of its own. What an external service does
is a choice among the answers the code handles: a translator's text, a model's reading of a
roster cell, whether the provider of emails took a message whose answer was lost.

The modules meet in tables: `classes` is written by `InstructorSchedule`, and
`CalendarSync`, `PayrollPeriods`, `MyLessons` and `BookingOffers` each have the columns of it
they read, moved by actions that follow the same SQL functions. `DocumentSigning` starts from a
template that `DocumentAssignments` has published and assigned, and gets new
assignments by `Assign`. They are not composed into one
specification: no property relates the outbox to overlaps or pay, and the
product would only make the bounds smaller. What composes is `MCWorkers`, where
the jobs of the worker process share one fairness, and `CustomerMirror` with the replica.

## Runs

Passing runs, and what a property of each says.

**`Schedule`.** Two sessions, two classes, two instructors, two adjacent slots, bookings of one and
series of two, imports, lost sessions. `OverlapOnlyAstray`: two booked lessons of an instructor overlap
only if one was given back astray. `PendingClear`: what a transaction has checked stays true
until it commits. `NoDeadlock`. `CancelledStaysPut`: no step moves a cancelled class.
`InsuranceAddsUp`: two requests at once, or one beside an admin and an edit of the seasons, do not
pass the cap, buy two season passes or use a key twice (a lesson of an hour, three students). `QuotaIsKept`: three requests for one draft a
day day are counted as the quota says, and only useful drafts are. `RemindedApart`: the emails of a worker, an
endpoint and a reminder by hand are an interval apart, less a day, unless one was reported as failed although it
had gone: the claim is then given back, and the next run may mail again. What comes after that one is
an interval apart again.

**`Calendar`.** `EventsAreTracked`: an API request and the worker on one class and two
calendars, two requests, two faults of any kind. `OffersHold`: an offered
time was free and a booking clear by what was known while the request ran (three small
instances: asking, booking, and a cache in between). `ServedWhenConnected`: two
processes, two grants; `ImportedAsReviewed`: two files, two requests.

**`Workers`.** The reconciler alone, the mirror, two reminder workers, two export processes and the
storefront worker, under fairness. `LessonsArePublished`: with one sync at a time no event is
forgotten and `ok` means published. `IsReplica`: the refinement, liveness included.
`ZipsMatch`: a ready export has its ZIP and no other is left, but by a call that failed. `WorkSettles` and
`BacklogDrains`: each backlog is worked off, whatever died or failed. Of the exports `AllEnded` says which
still wait: their process lives and sends heartbeats, and either a query of theirs failed (`stranded`) or a
build that hangs is their own or before them in the queue (`Hung`).

**`Payroll`.** Two admins, one class, periods of two days around two anchors, one edit, reopen,
move of the anchor and adjustment, three changes in all. `LessonsPaidOnce`: a class is paid once
unless two finalizes raced, and an `already_paid` line has a payer. `FinalizedStands`: lines and
anchor of a finalized period stay. `ViewAddsUp`: the instructor sees each lesson once.

**`Publishing`.** Two instructors of one name, a foreign entry, two changes, one admin's run, one
failure or crash. `ShopShowsProfiles`: who is not queued is shown as the profile is, or as it was before its
readiness changed with nothing queued, unless the state was lost; and no image is broken. `EntriesHaveOneOwner`. `PublicIsServedRight`,
`LegacyIsTakenOver`, `ShopifyCallsHold` for pages and the API, pairing and backfill, the client.

**`Desk`.** Two requests at a time, three in all, two instructors, one that dies:
`NobodyMissed`, `AnnouncedOnce`. `InvitesReachOnce`, `CompletedIsTrue`, `RosterIsKept`, `StagesAgree`,
`AccountsHold`, `HookKeepsItsWord`, `DemotedIsOut` for the parts about people.

**`Office`.** Two requests at a time, four in all, two assignments of one instructor and one of
another, three PDFs of two layouts, one that dies: `CopyIsAsRecorded`, `FieldsFitUnlessRaced`,
`EvidenceStays`. `VersionsStandApart`, `CertificationsKept`, `TranslationsFit` for
other parts. `ArchiveHolds`: the object is whole or absent; no more than two bodies are open, the ones a
failure left included; a build that failed reads nothing more, has no part in flight and no upload open unless a call of start or
abort was lost; and no build waits for itself, but for one that waits for a copy whose connection was cut, which is what
`ExportCut` shows.

Violated runs: `ScheduleDouble`, `CalendarOrphan`, `PayrollTwice`, `PublishingHidden`,
`ExportCut`, each with one property (next section). `ExportCut` has archives alone, and fairness: what
an archive has begun goes on, so that one which does not end cannot.

*Why the bounds are enough.* A booking conflict is between two transactions on
two classes of one instructor; a second instructor is needed for a class that
changes hands, and what the run shows for two sessions the proofs show for any
number. The slots `<<0,2>>` and `<<2,3>>` are adjacent, so that a series of both can be booked
and two bookings conflict in one of its lessons; they conflict when they meet in a slot, and
slots that overlap without being equal are left to the proof. A calendar race is between two syncs of one class
(syncs of different classes share only the queue, whose rows are keyed by event);
two requests are a booking and a move or cancel. In payroll a class
has to be seen in two periods, so the days cover two; one edit moves it and one
reopen or anchor change disturbs. In publishing the second instructor competes
for the handle; two changes are a rename or an unready profile and a new photo.
Missing a document takes two requests that cross, one on each side. Signing
needs two completions of one assignment, or one and an edit or a deletion, with an
upload before it; the third PDF has the layout of the first, so
that a replacement with and without loss of the fields both happen. For all of these the
proofs say that the size of the instance did not matter. The other parts have
two of what can race (processes, requests, admins) and one of what cannot (one instructor,
one invite, one key), budgets just large enough for a first operation, one that crosses it
and a retry, and clocks that reach one step beyond the longest lifetime.
Sessions and admins are interchangeable in `Schedule`, `Payroll` and `Desk`, and the sessions that sign in `Office`, where their
permutations are declared as a symmetry: no liveness is checked there. The uploads of
certifications are two parts of `Office` with one set of constants: in `uploads` no pass
runs, and in `expiry` two passes meet two reviews of one recorded upload. The invites are two parts of
`Desk` in the same way: in `overlap` two runs meet a release by hand at one address, and in `resent`
one run at a time meets a request of a new link and a change of the address.
`MaxAttempts` is 2 instead of 10: what counts is whether a
failure budget exhausts it.

*Deadlock.* `Schedule` and `Payroll` are checked for it; there `Stay` steps let the other
parts stop. The other configurations switch it off, because there the budgets of requests
and faults end and a quiet system with an empty queue has nothing to do; that
the work before that point is done is what `WorkSettles` and `BacklogDrains` say.

*Fairness.* Only `Workers` and `ExportCut` assume any. Nothing makes a user or admin act, a webhook arrive or a
fault happen or not. A job that has begun takes its next step (weak fairness): the calls of Google,
Shopify, the mailer and the language model have timeouts, and queries of the database go through
`fetch`, which gives up on a silent server by itself. The client of the storage has neither, so the builds of exports are fair
only until they hang, which `Hangs` may make them do while the budget of faults lasts. The timers fire again and again, leases
run out and days pass, hence weak fairness on what starts a run: in these instances nothing
keeps a free worker's start disabled again and again. For the mirror's tick something does, the
lease and the watermark that other pulls take and set, so `StartTick` and the step that marks the
list are strongly fair: a tick that finds its turn over and over is not for ever the
one that comes second.

## What the runs found

Each is a `finding` of `PROJECT.json`, with the line it contradicts.

- `set_class_status` takes the lock of the instructor it read before it waited. A
  class that is moved and cancelled meanwhile is given back under the wrong lock,
  concurrently with a booking, and the instructor is booked twice
  (`ScheduleDouble`).
- A sync that inserts an event after the deletion of that event has been queued,
  done and is about to be completed cannot queue it again (`on conflict do
  nothing`): the event of a cancelled class stays (`CalendarOrphan`).
- Two finalizes of two periods, with a class moved from one to the other between
  their reads, pay it twice (`PayrollTwice`).
- An instructor whose entry was published by a sync that died before it saved the
  state, and that stops being ready, stays on the storefront (`PublishingHidden`).
- A copy whose connection is cut while it is read does not fail its export, as
  `document-exports.http.spec.ts:684` has it: `getStream` pipes the body into its cap, which is handed no error of it,
  and the archive waits for the rest. The test puts a stream of its own in the place of what `getStream` returns
  (`ExportCut`). What that means for the export and those behind it is `Hangs`.

The passing runs are the other half of each. `OverlapOnlyAstray` and `LessonsPaidOnce` say that
nothing else leads there; `ShopShowsProfiles` that an instructor which is not queued is shown wrongly only
so, or because its readiness changed by itself; `NothingForgotten` holds with one sync at a time
(`LessonsArePublished`); and `WorkSettles` says that an export which does not end has a process that
lives and a failed query or such a build behind it.

The models also have behaviours that no run lists, because no property excludes
them:

- an adjustment can reach a period that has just been finalized
  (`supabase/ci/payroll_checks.sql:74` calls it an error), or go with the periods of
  the old anchor (`payroll.http.spec.ts:208`), and periods of the old anchor can come back
  after it moved (`payroll_checks.sql:123`);
- an insert retried by an older sync can answer 409 for content that is not the newest
  (`booking.http.spec.ts:765`);
- `setApprovalStatus` checks a transition on a row it loaded and writes without a
  condition, so a rejection can take back the approval of an activated invite
  (`ApprovalStays` of `DocumentAssignments` states what does not hold);
- the check that no assignment is completed is made before an upload is normalised and
  stored: somebody who signs in between stamps the fields of the old PDF on the new one,
  for which the code has a warning in the log (hence `raced`);
- a fresh database that has one row by webhook starts its tick from that row and never asks for older
  customers until the daily reconcile (`docs/shopify-webhooks.md` has the tick fetch all);
- an export whose claim or failure mark fails stays under heartbeat until its process restarts
  (`stranded`), and a failed start outside its `try` may leave a multipart upload;
- a failed archive may leave the bodies of two copies open and unread: the one it was writing and the next;
- an instructor whose proof expires stays on the storefront until a row of it changes or an admin asks
  for a sync (`drifted`);
- "a claim whose email may have gone out holds for 7 days" (`document-reminders.service.ts:88`) does not hold of
  an email whose answer was lost: it is reported as failed, its claim is given back and the next day's run, with
  another key, may send it again (`givenBack`);
- a change of address that took over from an unfinished one and died after its claim is refused when it is
  sent again, because the row that closes the older one comes after the claim in the log
  (`unfinishedIn` in `admin-instructor-email.service.ts`; `admin-instructor-email.http.spec.ts` has an identical retry finish
  the change);
- two emails about one assignment may be one day less than the interval apart: claims and stamps
  have the day a run began, and its emails may go out the day after;
- a role change whose revocation failed does not revoke when it is sent again, as the role
  is by then the requested one.

## Proofs

The theorems hold for every value of the constants under the assumptions the modules name:
what the code's checks and constraints give (a slot has a start before its end, statuses are those of
the check constraint), that sessions, admins and syncers are finitely many, and that
"nothing" is none of the things. A few theorems state what else they need, each with the value the code
gives it: `Bounds` (an interval of two days or more; it is seven), `DraftBounds` (a limit of one or more, a
window that lasts), `SessionBounds` (a lifetime of one or more) and `Alone` (one syncer, whose
inserts are not answered twice). Each argument is an inductive invariant; the invariants
were checked by TLC as invariants of a run before they were proved.

**`ScheduleProofs`**: `TypeCorrect`, `ChecksHold` (`PendingClear`), `NoOverlap`
(`OverlapOnlyAstray`), `DeadlockFree` (`NoDeadlock`), `CancelledKeepSlot`
(`CancelledStaysPut`).
The argument is the invariant `ScheduleInv`. `OverlapOnlyAstray` alone is not
inductive: a commit publishes rows that were checked some steps ago. So
`PendingClear` says that what a transaction has checked is still clear of the
solid lessons (those not astray), and that needs to know why no other session
can have changed them: `LocksHeld` (a session past its lock is the only holder,
and the lock is its instructor's), `RowsHeld` (the same of the row it is about to
write), `ClassExists` and `ClaimsFresh` (the rows it writes are there, or are new
and nobody else's), `WritesShape` (what it will write is what it read, changed as
its function does). The central lemma is `CommitRow`, which says what a commit can do to the
lessons of one instructor. `DeadlockFree` needs no induction of its own: by
`WaitsInOrder` a session that holds a row waits for nothing, and one that holds
an advisory lock waits at most for a row.

**`CalendarProofs`**: `TypeCorrect`, `EventsTracked` (`EventsAreTracked`: an `ok` class has its event,
and the present event of a class is not queued for deletion). An event's id contains the class's
`google_event_seq`, so the argument is about numbers: `QueueOK` says that a queued number is past: older than the
present one, or equal to it while the class still has its event under an older one. `JobsOK` says that
the row a sync has loaded is one the present row may have come from, and that a sync which is done without
a failure has an event or needed none; `CurrentOK` that the copy of a row nobody has touched since is the
row. A late report cannot hurt because `finish_class_google_sync` compares
the version it was loaded with. `LessonsPublished` (`LessonsArePublished`) is for one syncer: with two it is
false, as `CalendarOrphan` shows. `Sole` adds that every event is its class's or queued
(`EventsOK`), and what the one job knows: it publishes what is tracked, knows the newest number, reports
what is on the calendar, and what it has deleted nobody publishes again (`Works`).
`CallsServed` (`ServedWhenConnected`) is `Undisturbed` of every call that nothing excuses: the stored
grant is honoured, its process refreshes nothing else, and a token is the cached one or the connection's.
`Reviewed` (`ImportedAsReviewed`): a row fits its line (`RowFits`), a request that has read rows keeps what
was chosen in them (`RequestFits`), so what was chosen is in the row unless an older one was saved
over it (`ChoicesKept`); a commit takes the first ready row of an external id, which gives `ClassesFit`.

**`PayrollProofs`**: `TypeCorrect`, `Stands` (`FinalizedStands`), `PaidAtMostOnce`
(`LessonsPaidOnce`). The transactions of `275_payroll.sql` guard each other by two locks, and the
invariant says what each buys: `LocksOK` (who holds a lock is at the step that needs it, and
alone), `FoundOK` (what it found under the lock is still so), `OpenHasNoLessons` (an open
period stores no class line, so a finalize writes onto nothing). For pay: `OneLineEach`, and for
a finalize in flight either it is `raced` or what it read of other periods still holds
(`NewIsNew`, `OldIsBacked`).

**`PublishingProofs`**: `TypeCorrect`, `OneOwner` (`EntriesHaveOneOwner`), `ProfilesShown`
(`ShopShowsProfiles`). `Typed` ties a job to a claimed row. `Owners`: what a job read of the
state is still the state's (`SnapshotHolds`), the photo it has planned is that of the profile it read (`PlanHolds`), and
no handle is anybody else's (`NamesOK`). `Shows`: `FilesOK`, `EntryWritten`,
`StateTells`, `Brought` follow the content of a profile from the read through the entry to the state; they are
about the profile as it was last read, which differs from the present one only in readiness, and only of an
instructor that has drifted (`AsRead`).
The proof shows that the branch in which a stored handle is refused cannot be reached.

**`DeskProofs`**: `TypeCorrect`, `MissesNobody` (`NobodyMissed`), `Announced`
(`AnnouncedOnce`). `NobodyMissed` is inductive with the types: whoever comes to be approved or
active, or sees the template go live for all, does so in a step after which a request is bound to
look the other side up (`ReachesWhom`); a request that has the document still to
assign keeps it ahead until it is held (`StaysCovered`, `ReachedCovered`). `Announced` counts:
`EmailsOwed` says that the news of an assignment is the number of requests that have
made it and are still to announce it. Of the other parts of the desk:
`DemotedOut` (`DemotedIsOut`) dates requests in flight and remembered sessions by when the request arrived, and
what is older than the deletion is out a lifetime later (`RequestsOlder`, `MemoryOlder`).
`StagesOfAll` (`StagesAgree`) is about one state, for any documents, keys and levels: each key has at most one
current upload, and approving those under review leaves each key the upload it had.
`AccountsKept` (`AccountsHold`): the request that made the profile announces it, alone
(`AnnouncedByOne`), and an answer that no save crossed is the row (`Current`).
`HookKeeps` (`HookKeepsItsWord`): an email says of itself how often the provider may have taken it
(`Accepted`), what is told of it is told once that is settled (`Told`), and two attempts with a pause fit
the five seconds (`InTime`, by the assumption on the timeouts).
`Invited` (`InvitesReachOnce`): a run that has not emailed yet holds the claim of its invite (`ClaimsHeld`),
and so does the email of one that has (`EmailedClaimed`). A link is followed from its issue to its email, over
those that are about to be sent and those that were: it is of one invite (`LinksOfOne`) and of the
invite's address (`LinksFit`), and the newest is always one of them (`NewestUnderway`).

**`SigningProofs`**: `TypeCorrect`, `NothingLost` (`EvidenceStays`), `CopyRecorded`
(`CopyIsAsRecorded`), `FieldsFit` (`FieldsFitUnlessRaced`). The second follows from the types, which
say that an open assignment has no evidence, by the lemma `Evidence`. The third needs
`OneAtATime`: the queue has one job, the assignment of a running job has no evidence, and between
storing the copy and recording it the object is the job's. The last needs `AllFit`: an edit
that has not raced is alone and what it loaded is still so (`EditsApart`, `LoadedStands`), and object, row,
copies and evidence fit (`SourceFits`, `TemplateFits`, `CopiesFit`, `EvidenceFits`).
`VersionsApart` (`VersionsStandApart`) says of everybody at work on a version what they have read of it: a
request that edits it is alone, one that signs it meets only signers (`VersionFits`); everything else is
about another version. `Kept` (`CertificationsKept`): a file is dropped only of an upload recorded under
another file or rejected, which it stays (`RequestFits`); an email about to go out is a later one than the
stamp it replaced was for (`PassFits`), and none went out that is later than what is recorded, or was when
the one under way was claimed (`StampsFit`).

**`ClaimProofs`**: `TypeCorrect`, `Apart` (`RemindedApart`), for every interval of two days or
more. `ClaimHeld` and `ClaimMeans`: who is about to send holds the claim, and a claim means that the
last email is the interval old; `Recorded` says what the two columns tell of the day an email
really went. Of an assignment in `givenBack` all of them say nothing, until the next email is on record (`MayMail`,
`MailsIs`). The proof is by the real day of each email. An attempt that dated them by their
run failed: a claim released after a failure leaves no trace of an earlier email whose stamp
failed, and a run still going from the day before may then send one that is, counted by runs, a day
too early. `QuotaKept` (`QuotaIsKept`): a draft is dated by when its transaction began, so a row may be newer than
the request that counts it; hence each row is counted against every window it is in
(`SpansWithin`), and only a request during which no slot was taken sees none newer than itself (`NoneNewer`).

**`MirrorProofs`**: `Implements`: `MirrorSpec => Abstract!ReplicaSafety`, a step of the mirror
is a step of the replica or a stutter, without any assumption on the constants. The invariant is
that everything under way is true: `ShopTells`, `RowsAreCopies`, `NoticesAreTrue`, `PagesAreTrue`
and `ListsAreTrue` say that the rows, webhooks, pages and id lists carry versions Shopify has had,
and that an id on the list to hide is gone for good. `ZipsMatched` (`ZipsMatch`): a job is its owner's
and knows whether its ZIP is there (`JobFits`), a row that can be downloaded has one and a ZIP is of
such a row, in hand or leaked (`RowFits`), and the retention marks only what it has deleted. A build that
hangs keeps its export in hand (`HangsFits`), and no assumption on the storage's answers is needed.

*Only model-checked*, and why. What needs fairness or `ENABLED`, which the prover cannot treat: `WorkSettles`,
`BacklogDrains` and the replica's "in the end". What rests on induction over data, which needs theorems that
take an operator: sums (`InsuranceAddsUp`, `ViewAddsUp`), sequences read from the front or flattened
(`ArchiveHolds`, `CompletedIsTrue`), folds (`RosterIsKept`). `OffersHold`, whose three instances
differ in what they leave out. And parts nobody has written the invariant for:
`TranslationsFit`, `LegacyIsTakenOver`, `PublicIsServedRight`, `ShopifyCallsHold`.

*What the proofs changed.* Where a property did not follow, the model or the property was wrong
beyond the bounds of the run, and was put right from the code:

- an API call that outlives its connection may be refused by the next one: `Excuse` also covers a
  replaced connection (`ServedWhenConnected` failed with three grants);
- a request that is refused a draft while another takes a slot is told a time that has passed
  by then: `ResetsWhenTold` is about requests no slot was taken under;
- a save of both bios leaves out the one that is as it was read, and another save may have changed it
  since: `StepMeansTogether` of `InstructorAccounts` excepts the bio that has `strayed`, which
  takes four saves to show;
- an administrator that lists the administrators when there are none was stuck;
- the events of a file were those of its first three lines;
- the two slots of `Schedule` overlapped, so that a series of two was never booked.

## Not modelled

`components` in `PROJECT.json` gives the reason for each part. In short: what
only reads or only formats; texts, images, CSV syntax and the wording of emails; daylight
saving and weekly series in the offers; scores of names; the verification of signatures and
tokens, which keeps no state; the log of webhook deliveries and its pruning; the insurance's
counter of numbers; customers and participants of an import. Each of these is data the properties
do not tell apart, or a part that keeps nothing another part reads.

## Plan

What is left, in this order.

1. An abstract calendar of one instructor, in which booking, moving, cancelling and giving back
   are single steps, implemented by `InstructorSchedule` while nothing is astray:
   `CommitRow` is the step of that proof.
2. Invariants for the parts that have none: the names and bios (`TranslationsFit`), the pairing and
   the backfill of old entries (`LegacyIsTakenOver`).
3. `ShopifyCallsHold`: the shared token request first, which needs no arithmetic, then the budget.
4. `InsuranceAddsUp` and `ViewAddsUp`, once a sum can be reasoned about: what locks and keys
   they rest on can be proved without it.
