---------------------------- MODULE CalendarProofs ----------------------------
(***************************************************************************)
(* What is proved of the modules that hang on Google Calendar: the sync of *)
(* booked classes, the token of the connection (GoogleToken) and the       *)
(* import of classes from a calendar's file (ClassImports), in this order. *)
(*                                                                         *)
(* CalendarSync, for any classes, calendars, finitely many syncers, and    *)
(* bounds: every booked lesson that is told to be synced has an event, and *)
(* the event it has or will get is not queued for deletion.  The inductive *)
(* invariant is about the numbers of events: what is queued for a class is *)
(* older than its present number, unless the class has kept an older event *)
(* than that, and a syncer that has loaded the present number holds a copy *)
(* of a lesson that still is on the same calendar.                         *)
(***************************************************************************)
EXTENDS CalendarSync, GoogleToken, ClassImports, TLAPS, FiniteSetTheorems, SequenceTheorems,
        WellFoundedInduction

-----------------------------------------------------------------------------
(* The syncers.                                                             *)

Deleting == {"delete", "complete", "fail"}
Upserting == {"insert", "patch"}
Done == {"queue", "finish"} \cup Deleting

LoadJob == [pc: {"load"}, class: Classes, only: BOOLEAN]
SyncJob == [pc: {"connect"} \cup Upserting \cup Done, class: Classes, row: Row,
            event: Seq0 \cup {NoEvent}, failed: BOOLEAN, todo: SUBSET Deletion]
QueueJob == [pc: Deleting, class: {NoCalendar}, todo: SUBSET Deletion]
Job == {Idle} \cup LoadJob \cup SyncJob \cup QueueJob

OnCalendarRow(row) == row.live /\ row.cal # NoCalendar

\* An event has been made under a number that was given.
Sound(row) == row.event # NoEvent => row.event <= row.seq /\ row.cal # NoCalendar

\* A row after another one: under the same number it stays on its calendar.
Follows(row, next) ==
  /\ row.seq <= next.seq
  /\ row.seq = next.seq /\ OnCalendarRow(row) => OnCalendarRow(next) /\ next.cal = row.cal

\* What has been queued for a class is not what it is about to publish.
Past(n, row) == n <= row.seq /\ (n = row.seq => row.event \notin {NoEvent, row.seq})

\* What a sync holds of its class, and what it has to report.
SyncHolds(j) ==
  /\ Sound(j.row) /\ Follows(j.row, rows[j.class])
  /\ j.pc \in Upserting \/ j.event # NoEvent => OnCalendarRow(j.row)
  /\ j.event # NoEvent => j.event = ClassEventId(j.class, j.row)[3]
  /\ j.pc \in Done => j.failed \/ j.event # NoEvent \/ ~OnCalendarRow(j.row)

JobHolds(j) ==
  /\ j \in LoadJob \cup SyncJob => Booked(j.class)
  /\ j \in SyncJob => SyncHolds(j)
  /\ j.pc \in Deleting => j.todo # {}
  /\ j \in SyncJob \cup QueueJob => IsFiniteSet(j.todo)

RowsOK ==
  /\ rows \in [Classes -> Row \cup {Unbooked}]
  /\ \A c \in Classes : Booked(c) => Sound(rows[c]) /\ rows[c].seq <= requests

QueueOK ==
  /\ IsFiniteSet(deletions)
  /\ \A d \in deletions : Booked(d.event[2]) /\ Past(d.event[3], rows[d.event[2]])

JobsOK == job \in [Syncers -> Job] /\ \A t \in Syncers : JobHolds(job[t])

\* The copy of a row that has not been touched since is the row.
CurrentOK ==
  /\ current \subseteq Syncers
  /\ \A t \in current : job[t] \in SyncJob /\ job[t].row = rows[job[t].class]

Inductive == TypeOK /\ RowsOK /\ QueueOK /\ JobsOK /\ CurrentOK /\ OkHasEvent

-----------------------------------------------------------------------------
(* Numbers of the queue.                                                    *)

LEMMA ImageIsFinite ==
  ASSUME NEW S, IsFiniteSet(S), NEW f
  PROVE  IsFiniteSet({f[x] : x \in S})
<1> DEFINE T == {f[x] : x \in S}
           g == [x \in S |-> f[x]]
<1>1. g \in Surjection(S, T)
  BY DEF Surjection
<1> QED BY <1>1, FS_Surjection

\* A finite set of numbers has its greatest: the one with the fewest above it.
LEMMA MaxIs ==
  ASSUME NEW S \in SUBSET Nat, IsFiniteSet(S), S # {}
  PROVE  Max(S) \in S /\ \A y \in S : y <= Max(S)
<1> DEFINE Above(x) == {y \in S : y > x}
           Counts == {Cardinality(Above(x)) : x \in S}
<1>1. \A x \in S : IsFiniteSet(Above(x)) /\ Cardinality(Above(x)) \in Nat
  BY FS_Subset, FS_CardinalityType
<1>2. Counts \in SUBSET Nat /\ Counts # {}
  BY <1>1
<1>3. PICK n \in Counts : \A m \in Counts : ~(<<m, n>> \in OpToRel(<, Nat))
  <2> HIDE DEF Counts
  <2> QED BY <1>2, WFMin, NatLessThanWellFounded
<1>4. PICK x \in S : n = Cardinality(Above(x))
  BY <1>3
<1>5. ASSUME NEW y \in S, y > x PROVE FALSE
  <2>a. \A z \in S : z \in Nat /\ (z > y => z > x)
    BY <1>5
  <2>1. Above(y) \subseteq Above(x) /\ y \in Above(x) /\ y \notin Above(y)
    <3>1. x \in Nat /\ y \in Nat
      OBVIOUS
    <3>2. Above(y) \subseteq Above(x)
      BY <1>5, <2>a
    <3>3. y \in Above(x)
      BY <1>5
    <3>4. ~(y > y)
      BY <3>1
    <3> QED BY <3>2, <3>3, <3>4
  <2>2. Above(y) \in SUBSET Above(x) /\ Above(y) # Above(x)
    BY <2>1
  <2>3. Cardinality(Above(y)) < Cardinality(Above(x))
    <3> HIDE DEF Above
    <3> QED BY <1>1, <1>5, <1>4, <2>2, FS_Subset
  <2>4. <<Cardinality(Above(y)), n>> \in OpToRel(<, Nat)
    BY <1>1, <1>4, <1>5, <2>3 DEF OpToRel
  <2> QED BY <1>3, <1>5, <2>4
<1>6. \A y \in S : x >= y
  BY <1>5
<1> QED BY <1>6 DEF Max

\* The oldest of the rows that are worked on.
LEMMA OldestIs ==
  ASSUME NEW t \in Syncers, job[t].todo \in SUBSET Deletion, job[t].todo # {}
  PROVE  Oldest(t) \in job[t].todo /\ \A o \in job[t].todo : Oldest(t).id <= o.id
<1> DEFINE todo == job[t].todo
           Ids == {d.id : d \in todo}
<1>1. Ids \in SUBSET Nat /\ Ids # {}
  BY DEF Deletion
<1>2. PICK n \in Ids : \A m \in Ids : ~(<<m, n>> \in OpToRel(<, Nat))
  <2> HIDE DEF Ids
  <2> QED BY <1>1, WFMin, NatLessThanWellFounded
<1>3. PICK d \in todo : n = d.id
  BY <1>2
<1>4. \A o \in todo : d.id <= o.id
  <2> SUFFICES ASSUME NEW o \in todo, o.id < d.id PROVE FALSE
    BY <1>1
  <2>1. <<o.id, n>> \in OpToRel(<, Nat)
    BY <1>1, <1>3 DEF OpToRel
  <2> QED BY <1>2, <2>1
<1> QED BY <1>3, <1>4 DEF Oldest

\* An id that is given is not in use.
LEMMA FreshIdIs ==
  ASSUME Inductive
  PROVE  FreshId \in Nat \ {0} /\ \A d \in deletions : d.id # FreshId
<1> DEFINE Open(t) == IF job[t].pc \in {"delete", "complete", "fail"}
                      THEN {d.id : d \in job[t].todo} ELSE {}
           Opens == {Open(t) : t \in Syncers}
           ids == [d \in Deletion |-> d.id]
           S == UsedIds \cup {0}
<1>1. /\ IsFiniteSet(deletions) /\ deletions \in SUBSET Deletion
      /\ job \in [Syncers -> Job] /\ \A t \in Syncers : JobHolds(job[t])
  BY DEF Inductive, QueueOK, TypeOK, JobsOK
<1>2. ASSUME NEW D \in SUBSET Deletion, IsFiniteSet(D)
      PROVE  IsFiniteSet({d.id : d \in D}) /\ {d.id : d \in D} \in SUBSET Nat
  <2>1. {d.id : d \in D} = {ids[d] : d \in D}
    OBVIOUS
  <2>2. IsFiniteSet({ids[d] : d \in D})
    <3> HIDE DEF ids
    <3> QED BY <1>2, ImageIsFinite
  <2>3. {d.id : d \in D} \in SUBSET Nat
    BY DEF Deletion
  <2> QED BY <2>1, <2>2, <2>3
<1>3. ASSUME NEW t \in Syncers PROVE IsFiniteSet(Open(t)) /\ Open(t) \in SUBSET Nat
  <2>1. CASE job[t].pc \in Deleting
    <3>1. job[t] \in SyncJob \cup QueueJob
      BY <1>1, <2>1 DEF Job, Idle, LoadJob, Deleting
    <3>2. job[t].todo \in SUBSET Deletion /\ IsFiniteSet(job[t].todo)
      BY <1>1, <3>1 DEF JobHolds, SyncJob, QueueJob
    <3> QED BY <1>2, <2>1, <3>2 DEF Deleting
  <2>2. CASE job[t].pc \notin Deleting
    BY <2>2, FS_EmptySet DEF Deleting
  <2> QED BY <2>1, <2>2
<1>4. IsFiniteSet(Opens)
  <2> DEFINE f == [t \in Syncers |-> Open(t)]
  <2>1. Opens = {f[t] : t \in Syncers}
    OBVIOUS
  <2>2. IsFiniteSet(Syncers)
    BY SyncerAssumption DEF Syncers
  <2> HIDE DEF f, Opens
  <2> QED BY <2>1, <2>2, ImageIsFinite
<1>5. IsFiniteSet(UNION Opens) /\ UNION Opens \in SUBSET Nat
  <2>1. \A T \in Opens : IsFiniteSet(T) /\ T \in SUBSET Nat
    BY <1>3
  <2> HIDE DEF Opens
  <2> QED BY <1>4, <2>1, FS_UNION
<1>6. UsedIds = {d.id : d \in deletions} \cup UNION Opens
  BY DEF UsedIds
<1>7. IsFiniteSet(S) /\ S \in SUBSET Nat /\ 0 \in S
  <2>1. IsFiniteSet({d.id : d \in deletions}) /\ {d.id : d \in deletions} \in SUBSET Nat
    BY <1>1, <1>2
  <2>2. IsFiniteSet(UsedIds) /\ UsedIds \in SUBSET Nat
    <3> HIDE DEF Opens
    <3> QED BY <1>5, <1>6, <2>1, FS_Union
  <2> QED BY <2>2, FS_AddElement
<1>8. Max(S) \in Nat /\ \A n \in S : n <= Max(S)
  <2> HIDE DEF S
  <2> QED BY <1>7, MaxIs
<1>9. \A d \in deletions : d.id \in S
  BY DEF UsedIds
<1> HIDE DEF S
<1>10. FreshId = Max(S) + 1
  BY DEF FreshId, S
<1> QED BY <1>1, <1>7, <1>8, <1>9, <1>10

\* What is queued was queued, or is the event that is queued now.
LEMMA QueueIs ==
  ASSUME Inductive, NEW e \in EventId, Queue(e)
  PROVE  /\ IsFiniteSet(deletions') /\ \A d \in deletions' : d \in Deletion
         /\ \A d, o \in deletions' : d.id = o.id \/ d.event = o.event => d = o
         /\ \A d \in deletions' : d \in deletions \/ d.event = e
<1>1. /\ IsFiniteSet(deletions) /\ \A d \in deletions : d \in Deletion
      /\ \A d, o \in deletions : d.id = o.id \/ d.event = o.event => d = o
  BY DEF Inductive, QueueOK, TypeOK
<1>2. CASE Queued(e)
  BY <1>1, <1>2 DEF Queue
<1>3. CASE ~Queued(e)
  <2> DEFINE new == [id |-> FreshId, event |-> e, attempts |-> 0]
  <2>1. deletions' = deletions \cup {new}
    BY <1>3 DEF Queue
  <2>2. FreshId \in Nat \ {0} /\ \A d \in deletions : d.id # FreshId
    BY FreshIdIs
  <2>3. new \in Deletion /\ new.event = e /\ new.id = FreshId
    BY <2>2, BoundAssumption DEF Deletion
  <2>4. \A d \in deletions : d.event # e
    BY <1>3 DEF Queued
  <2> HIDE DEF new
  <2>5. IsFiniteSet(deletions')
    BY <1>1, <2>1, FS_AddElement
  <2> QED BY <1>1, <2>1, <2>2, <2>3, <2>4, <2>5
<1> QED BY <1>2, <1>3
-----------------------------------------------------------------------------
(* The booking transactions.                                                *)

LEMMA InitInductive == Init => Inductive
<1> SUFFICES ASSUME Init PROVE Inductive
  OBVIOUS
<1>1. /\ \A c \in Classes : rows[c] = Unbooked /\ deletions = {} /\ DOMAIN events = {}
      /\ current = {} /\ \A t \in Syncers : job[t] = Idle
  BY DEF Init
<1>2. JobHolds(Idle)
  BY DEF JobHolds, Idle, LoadJob, SyncJob, QueueJob, Deleting, Upserting, Done
<1>3. TypeOK
  BY <1>1, BoundAssumption DEF Init, TypeOK
<1>4. RowsOK /\ JobsOK
  BY <1>1, <1>2 DEF Init, RowsOK, JobsOK, Booked, Job
<1>5. QueueOK /\ CurrentOK /\ OkHasEvent
  BY <1>1, FS_EmptySet DEF Init, QueueOK, CurrentOK, OkHasEvent, OnCalendar, Booked
<1> QED BY <1>3, <1>4, <1>5 DEF Inductive

LEMMA UnbookedIsNoRow == Unbooked \notin Row
<1>1. "cal" \notin DOMAIN Unbooked
  BY DEF Unbooked
<1>2. \A row \in Row : "cal" \in DOMAIN row
  BY DEF Row
<1> QED BY <1>1, <1>2

LEMMA BookedIs ==
  ASSUME Inductive, NEW c \in Classes
  PROVE  Booked(c) <=> rows[c] \in Row
BY UnbookedIsNoRow DEF Inductive, RowsOK, Booked

LEMMA FollowsOn ==
  ASSUME NEW r \in Row, NEW s \in Row, NEW u \in Row, Follows(r, s), Follows(s, u)
  PROVE  Follows(r, u)
<1>1. r.seq \in Nat /\ s.seq \in Nat /\ u.seq \in Nat
  BY DEF Row, Seq0
<1> QED BY <1>1 DEF Follows

\* A transaction writes one row, gives it at most one more number, and makes every
\* copy of it stale.
LEMMA RowMoves ==
  ASSUME Inductive, NEW c \in Classes, NEW new \in Row,
         rows' = [rows EXCEPT ![c] = new],
         Sound(new), Booked(c) => Follows(rows[c], new),
         OnCalendarRow(new) /\ new.sync = "ok" => new.event # NoEvent,
         requests' = requests + 1, requests < MaxRequests, new.seq <= requests',
         UNCHANGED <<events, job, faults>>,
         current' \subseteq current, \A t \in current' : job[t].class # c,
         IsFiniteSet(deletions'), \A d \in deletions' : d \in Deletion,
         \A d, o \in deletions' : d.id = o.id \/ d.event = o.event => d = o,
         \A d \in deletions' : d \in deletions \/ d.event[2] = c,
         \A d \in deletions' : d.event[2] = c => Past(d.event[3], new)
  PROVE  Inductive'
<1>1. /\ rows'[c] = new /\ \A b \in Classes \ {c} : rows'[b] = rows[b]
      /\ rows \in [Classes -> Row \cup {Unbooked}]
      /\ rows' \in [Classes -> Row \cup {Unbooked}]
  BY DEF Inductive, RowsOK
<1>2. requests' \in 0 .. MaxRequests /\ requests \in Nat
  BY BoundAssumption DEF Inductive, TypeOK
<1>3. new # Unbooked /\ (\A b \in Classes : Booked(b) => Booked(b)')
  BY <1>1, UnbookedIsNoRow DEF Booked
<1>4. RowsOK'
  <2>1. \A b \in Classes \ {c} : Booked(b) => rows[b].seq \in Nat
    BY BookedIs DEF Row, Seq0
  <2>2. \A b \in Classes \ {c} : Booked(b)' => Sound(rows[b]) /\ rows[b].seq <= requests'
    BY <1>1, <1>2, <2>1 DEF Inductive, RowsOK, Booked
  <2> QED BY <1>1, <2>2 DEF RowsOK
<1>5. QueueOK'
  <2>1. ASSUME NEW d \in deletions' PROVE Booked(d.event[2])' /\ Past(d.event[3], rows[d.event[2]])'
    <3>1. d.event[2] \in Classes
      BY <2>1 DEF Deletion, EventId
    <3>2. CASE d.event[2] = c
      BY <2>1, <3>2, <1>1, <1>3 DEF Booked
    <3>3. CASE d.event[2] # c
      BY <2>1, <3>1, <3>3, <1>1 DEF Inductive, QueueOK, Booked
    <3> QED BY <3>2, <3>3
  <2> QED BY <2>1 DEF QueueOK
<1>6. ASSUME NEW t \in Syncers PROVE JobHolds(job[t])'
  <2> DEFINE j == job[t]
  <2>1. j \in Job /\ JobHolds(j)
    BY DEF Inductive, JobsOK
  <2>2. j \in LoadJob \cup SyncJob => j.class \in Classes
    BY DEF LoadJob, SyncJob
  <2>3. j \in SyncJob => Follows(j.row, rows'[j.class])
    <3> SUFFICES ASSUME j \in SyncJob PROVE Follows(j.row, rows'[j.class])
      OBVIOUS
    <3>1. j.row \in Row /\ j.class \in Classes /\ Booked(j.class) /\ Follows(j.row, rows[j.class])
      BY <2>1 DEF SyncJob, JobHolds, SyncHolds
    <3>2. rows[j.class] \in Row
      BY <3>1, BookedIs
    <3>3. CASE j.class = c
      <4>1. Follows(rows[c], new)
        BY <3>1, <3>3
      <4> QED BY <3>1, <3>2, <3>3, <4>1, <1>1, FollowsOn
    <3>4. CASE j.class # c
      BY <3>1, <3>4, <1>1
    <3> QED BY <3>3, <3>4
  <2>4. j \in LoadJob \cup SyncJob => Booked(j.class)'
    BY <2>1, <2>2, <1>3 DEF JobHolds
  <2>5. j \in SyncJob => SyncHolds(j)'
    BY <2>1, <2>3 DEF JobHolds, SyncHolds
  <2>6. job'[t] = j
    OBVIOUS
  <2> QED BY <2>1, <2>4, <2>5, <2>6 DEF JobHolds
<1>7. JobsOK'
  BY <1>6 DEF Inductive, JobsOK
<1>8. CurrentOK'
  <2>1. \A t \in current : job[t] \in SyncJob /\ job[t].row = rows[job[t].class] /\ t \in Syncers
    BY DEF Inductive, CurrentOK
  <2>2. \A t \in current' : job[t].class \in Classes \ {c}
    BY <2>1 DEF SyncJob
  <2> QED BY <1>1, <2>1, <2>2 DEF CurrentOK
<1>9. OkHasEvent'
  BY <1>1 DEF Inductive, OkHasEvent, OnCalendar, OnCalendarRow, Booked
<1>10. TypeOK'
  <2>1. \A t \in current' : job[t].class \in Classes /\ Booked(job[t].class)'
    BY <1>3 DEF Inductive, TypeOK
  <2> QED BY <1>1, <1>2, <2>1 DEF Inductive, TypeOK
<1> QED BY <1>4, <1>5, <1>7, <1>8, <1>9, <1>10 DEF Inductive

\* The number a class's event has or gets.
LEMMA NumberIs ==
  ASSUME NEW row \in Row, NEW c, Sound(row)
  PROVE  /\ ClassEventId(c, row)[3] \in Seq0 /\ ClassEventId(c, row)[3] <= row.seq
         /\ ClassEventId(c, row)[1] = row.cal /\ ClassEventId(c, row)[2] = c
         /\ ClassEventId(c, row) = <<row.cal, c, ClassEventId(c, row)[3]>>
         /\ ClassEventId(c, row)[3] = IF row.event # NoEvent THEN row.event ELSE row.seq
         /\ row.seq \in Nat /\ row.event \in Nat /\ NoEvent \notin Seq0
BY BoundAssumption DEF ClassEventId, Sound, Row, Seq0, NoEvent
\* An event that is dropped is queued under a number that is over.
LEMMA EventDropped ==
  ASSUME Inductive, NEW c \in Classes, NEW new \in Row,
         Booked(c), rows[c].cal # NoCalendar, Queue(ClassEventId(c, rows[c])),
         new.seq = rows[c].seq + 1
  PROVE  /\ IsFiniteSet(deletions') /\ \A d \in deletions' : d \in Deletion
         /\ \A d, o \in deletions' : d.id = o.id \/ d.event = o.event => d = o
         /\ \A d \in deletions' : d \in deletions \/ d.event[2] = c
         /\ \A d \in deletions' : d.event[2] = c => Past(d.event[3], new)
<1> DEFINE row == rows[c]
           e == ClassEventId(c, row)
<1>1. row \in Row /\ Sound(row)
  BY BookedIs DEF Inductive, RowsOK
<1>2. /\ e[3] \in Seq0 /\ e[3] <= row.seq /\ e[1] = row.cal /\ e[2] = c
      /\ e = <<row.cal, c, e[3]>> /\ row.seq \in Nat
  BY <1>1, NumberIs
<1>3. row.cal \in Calendars
  BY <1>1 DEF Row
<1> HIDE DEF e
<1>4. e \in EventId
  BY <1>2, <1>3 DEF EventId
<1>5. /\ IsFiniteSet(deletions') /\ \A d \in deletions' : d \in Deletion
      /\ \A d, o \in deletions' : d.id = o.id \/ d.event = o.event => d = o
      /\ \A d \in deletions' : d \in deletions \/ d.event = e
  BY <1>4, QueueIs DEF e
<1>6. \A d \in deletions : d.event[2] = c => Past(d.event[3], row)
  BY DEF Inductive, QueueOK
<1>7. ASSUME NEW d \in deletions', d.event[2] = c PROVE Past(d.event[3], new)
  <2>1. d.event[3] \in Nat /\ d.event[3] <= row.seq
    BY <1>2, <1>5, <1>6, <1>7 DEF Past, Deletion, EventId, Seq0
  <2> QED BY <1>2, <2>1 DEF Past
<1> QED BY <1>2, <1>5, <1>7

LEMMA Undropped ==
  ASSUME Inductive, NEW c \in Classes, NEW new \in Row, deletions' = deletions,
         Booked(c) => new.seq = rows[c].seq /\ new.event = rows[c].event
  PROVE  /\ IsFiniteSet(deletions') /\ \A d \in deletions' : d \in Deletion
         /\ \A d, o \in deletions' : d.id = o.id \/ d.event = o.event => d = o
         /\ \A d \in deletions' : d \in deletions \/ d.event[2] = c
         /\ \A d \in deletions' : d.event[2] = c => Past(d.event[3], new)
BY DEF Inductive, QueueOK, TypeOK, Past

LEMMA RequestIs ==
  ASSUME Inductive, Request
  PROVE  /\ requests' = requests + 1 /\ requests < MaxRequests
         /\ requests \in Nat /\ requests' \in Revisions /\ requests' # 0
         /\ UNCHANGED <<events, job, faults>>
BY BoundAssumption DEF Inductive, TypeOK, Request, Revisions

LEMMA BookMoves ==
  ASSUME Inductive, NEW c \in Classes, NEW cal \in Calendars \cup {NoCalendar}, Book(c, cal)
  PROVE  Inductive'
<1> DEFINE new == [live |-> TRUE, cal |-> cal, event |-> NoEvent, seq |-> 0,
                   sync |-> IF cal = NoCalendar THEN "ok" ELSE "pending",
                   attempts |-> 0, revision |-> requests']
<1>1. Request /\ ~Booked(c) /\ rows' = [rows EXCEPT ![c] = new] /\ UNCHANGED <<deletions, current>>
  BY DEF Book
<1>2. /\ requests' = requests + 1 /\ requests < MaxRequests /\ requests \in Nat
      /\ requests' \in Revisions /\ UNCHANGED <<events, job, faults>>
  BY <1>1, RequestIs
<1>3. new \in Row
  BY <1>2, BoundAssumption DEF Row, Seq0
<1>4. /\ Sound(new) /\ new.seq <= requests'
      /\ OnCalendarRow(new) /\ new.sync = "ok" => new.event # NoEvent
  BY <1>2 DEF Sound, OnCalendarRow
<1> HIDE DEF new
<1>5. \A t \in current' : job[t].class # c
  BY <1>1 DEF Inductive, TypeOK
<1>6. /\ IsFiniteSet(deletions') /\ \A d \in deletions' : d \in Deletion
      /\ \A d, o \in deletions' : d.id = o.id \/ d.event = o.event => d = o
      /\ \A d \in deletions' : d \in deletions \/ d.event[2] = c
      /\ \A d \in deletions' : d.event[2] = c => Past(d.event[3], new)
  BY <1>1, <1>3, Undropped
<1> QED BY <1>1, <1>2, <1>3, <1>4, <1>5, <1>6, RowMoves

LEMMA RebookMoves ==
  ASSUME Inductive, NEW c \in Classes, NEW cal \in Calendars \cup {NoCalendar}, Rebook(c, cal)
  PROVE  Inductive'
<1> DEFINE row == rows[c]
           drop == row.cal # NoCalendar /\ row.cal # cal
           same == [row EXCEPT !.revision = requests']
           new == IF cal = NoCalendar THEN same
                  ELSE [same EXCEPT !.cal = cal,
                                    !.event = IF drop THEN NoEvent ELSE @,
                                    !.seq = IF drop THEN @ + 1 ELSE @,
                                    !.sync = "pending",
                                    !.attempts = 0]
<1>1. /\ Request /\ Booked(c) /\ row.live /\ (row.cal = NoCalendar <=> cal = NoCalendar)
      /\ IF drop THEN Queue(ClassEventId(c, row)) ELSE UNCHANGED deletions
      /\ rows' = [rows EXCEPT ![c] = new] /\ Touch(c)
  BY DEF Rebook
<1>2. /\ requests' = requests + 1 /\ requests < MaxRequests /\ requests \in Nat
      /\ requests' \in Revisions /\ UNCHANGED <<events, job, faults>>
  BY <1>1, RequestIs
<1>3. row \in Row /\ Sound(row) /\ row.seq <= requests
  BY <1>1, BookedIs DEF Inductive, RowsOK
<1>4. row.seq \in Nat /\ row.seq + 1 \in Seq0 /\ NoEvent \notin Seq0
  BY <1>2, <1>3, BoundAssumption DEF Row, Seq0, NoEvent
<1>5. same \in Row /\ same.seq = row.seq /\ same.event = row.event /\ same.cal = row.cal
      /\ same.live = row.live /\ same.sync = row.sync
  BY <1>2, <1>3 DEF Row
<1> HIDE DEF same
<1>6. /\ new \in Row /\ new.live
      /\ new.cal = cal
      /\ new.seq = IF drop THEN row.seq + 1 ELSE row.seq
      /\ new.event = IF drop THEN NoEvent ELSE row.event
      /\ cal # NoCalendar => new.sync = "pending"
  <2>1. CASE cal = NoCalendar
    BY <1>1, <1>5, <2>1
  <2>2. CASE cal # NoCalendar
    <3>1. new = [live |-> same.live, cal |-> cal, event |-> IF drop THEN NoEvent ELSE same.event,
                 seq |-> IF drop THEN same.seq + 1 ELSE same.seq, sync |-> "pending",
                 attempts |-> 0, revision |-> same.revision]
      BY <1>5, <2>2 DEF Row
    <3>2. (IF drop THEN same.seq + 1 ELSE same.seq) \in Seq0 /\ 0 \in 0 .. MaxAttempts
      BY <1>3, <1>4, <1>5, BoundAssumption DEF Row
    <3> QED BY <1>1, <1>5, <2>2, <3>1, <3>2 DEF Row
  <2> QED BY <2>1, <2>2
<1> HIDE DEF new
<1>7. /\ Sound(new) /\ Follows(row, new) /\ new.seq <= requests'
      /\ OnCalendarRow(new) /\ new.sync = "ok" => new.event # NoEvent
  BY <1>1, <1>2, <1>3, <1>4, <1>6 DEF Sound, Follows, OnCalendarRow
<1>8. /\ IsFiniteSet(deletions') /\ \A d \in deletions' : d \in Deletion
      /\ \A d, o \in deletions' : d.id = o.id \/ d.event = o.event => d = o
      /\ \A d \in deletions' : d \in deletions \/ d.event[2] = c
      /\ \A d \in deletions' : d.event[2] = c => Past(d.event[3], new)
  <2>1. CASE drop
    BY <1>1, <1>6, <2>1, EventDropped
  <2>2. CASE ~drop
    BY <1>1, <1>6, <2>2, Undropped
  <2> QED BY <2>1, <2>2
<1>9. current' \subseteq current /\ \A t \in current' : job[t].class # c
  BY <1>1 DEF Touch
<1> QED BY <1>1, <1>2, <1>6, <1>7, <1>8, <1>9, RowMoves

LEMMA CancelMoves ==
  ASSUME Inductive, NEW c \in Classes, Cancel(c)
  PROVE  Inductive'
<1> DEFINE row == rows[c]
           drop == row.cal # NoCalendar
           new == [row EXCEPT !.live = FALSE,
                              !.event = NoEvent,
                              !.seq = IF drop THEN @ + 1 ELSE @,
                              !.sync = IF drop THEN "pending" ELSE "ok",
                              !.attempts = 0]
<1>1. /\ Request /\ Booked(c) /\ row.live
      /\ IF drop THEN Queue(ClassEventId(c, row)) ELSE UNCHANGED deletions
      /\ rows' = [rows EXCEPT ![c] = new] /\ Touch(c)
  BY DEF Cancel
<1>2. /\ requests' = requests + 1 /\ requests < MaxRequests /\ requests \in Nat
      /\ UNCHANGED <<events, job, faults>>
  BY <1>1, RequestIs
<1>3. row \in Row /\ Sound(row) /\ row.seq <= requests
  BY <1>1, BookedIs DEF Inductive, RowsOK
<1>4. row.seq \in Nat /\ row.seq + 1 \in Seq0 /\ NoEvent \notin Seq0
  BY <1>2, <1>3, BoundAssumption DEF Row, Seq0, NoEvent
<1>5. /\ new \in Row /\ ~new.live
      /\ new.cal = row.cal
      /\ new.seq = IF drop THEN row.seq + 1 ELSE row.seq
      /\ new.event = NoEvent
  <2>1. new = [live |-> FALSE, cal |-> row.cal, event |-> NoEvent,
               seq |-> IF drop THEN row.seq + 1 ELSE row.seq,
               sync |-> IF drop THEN "pending" ELSE "ok",
               attempts |-> 0, revision |-> row.revision]
    <3> DEFINE seq == IF drop THEN row.seq + 1 ELSE row.seq
               sync == IF drop THEN "pending" ELSE "ok"
    <3>1. new = [row EXCEPT !.live = FALSE, !.event = NoEvent, !.seq = seq, !.sync = sync,
                            !.attempts = 0]
      OBVIOUS
    <3> HIDE DEF seq, sync, row, new
    <3>2. new = [live |-> FALSE, cal |-> row.cal, event |-> NoEvent, seq |-> seq, sync |-> sync,
                 attempts |-> 0, revision |-> row.revision]
      BY <1>3, <3>1 DEF Row
    <3> QED BY <3>2 DEF seq, sync
  <2>2. (IF drop THEN row.seq + 1 ELSE row.seq) \in Seq0 /\ 0 \in 0 .. MaxAttempts
    BY <1>3, <1>4, BoundAssumption DEF Row
  <2> QED BY <1>3, <2>1, <2>2 DEF Row
<1> HIDE DEF new
<1>6. ~drop => row.event = NoEvent
  BY <1>3 DEF Sound
<1>7. /\ Sound(new) /\ Follows(row, new) /\ new.seq <= requests'
      /\ OnCalendarRow(new) /\ new.sync = "ok" => new.event # NoEvent
  BY <1>1, <1>2, <1>3, <1>4, <1>5 DEF Sound, Follows, OnCalendarRow
<1>8. /\ IsFiniteSet(deletions') /\ \A d \in deletions' : d \in Deletion
      /\ \A d, o \in deletions' : d.id = o.id \/ d.event = o.event => d = o
      /\ \A d \in deletions' : d \in deletions \/ d.event[2] = c
      /\ \A d \in deletions' : d.event[2] = c => Past(d.event[3], new)
  <2>1. CASE drop
    BY <1>1, <1>5, <2>1, EventDropped
  <2>2. CASE ~drop
    BY <1>1, <1>5, <1>6, <2>2, Undropped
  <2> QED BY <2>1, <2>2
<1>9. current' \subseteq current /\ \A t \in current' : job[t].class # c
  BY <1>1 DEF Touch
<1> QED BY <1>1, <1>2, <1>5, <1>7, <1>8, <1>9, RowMoves

LEMMA RestoreMoves ==
  ASSUME Inductive, NEW c \in Classes, Restore(c)
  PROVE  Inductive'
<1> DEFINE row == rows[c]
           new == [row EXCEPT !.live = TRUE,
                              !.sync = IF row.cal = NoCalendar THEN "ok" ELSE "pending",
                              !.attempts = 0]
<1>1. /\ Request /\ Booked(c) /\ ~row.live /\ UNCHANGED deletions
      /\ rows' = [rows EXCEPT ![c] = new] /\ Touch(c)
  BY DEF Restore
<1>2. /\ requests' = requests + 1 /\ requests < MaxRequests /\ requests \in Nat
      /\ UNCHANGED <<events, job, faults>>
  BY <1>1, RequestIs
<1>3. row \in Row /\ Sound(row) /\ row.seq <= requests /\ row.seq \in Nat
  BY <1>1, BookedIs DEF Inductive, RowsOK, Row, Seq0
<1>4. /\ new \in Row /\ new.cal = row.cal /\ new.seq = row.seq /\ new.event = row.event
      /\ new.sync = IF row.cal = NoCalendar THEN "ok" ELSE "pending"
  <2>1. new = [live |-> TRUE, cal |-> row.cal, event |-> row.event, seq |-> row.seq,
               sync |-> IF row.cal = NoCalendar THEN "ok" ELSE "pending",
               attempts |-> 0, revision |-> row.revision]
    <3> DEFINE sync == IF row.cal = NoCalendar THEN "ok" ELSE "pending"
    <3>1. new = [row EXCEPT !.live = TRUE, !.sync = sync, !.attempts = 0]
      OBVIOUS
    <3> HIDE DEF sync, row, new
    <3>2. new = [live |-> TRUE, cal |-> row.cal, event |-> row.event, seq |-> row.seq,
                 sync |-> sync, attempts |-> 0, revision |-> row.revision]
      BY <1>3, <3>1 DEF Row
    <3> QED BY <3>2 DEF sync
  <2>2. 0 \in 0 .. MaxAttempts
    BY BoundAssumption
  <2> QED BY <1>3, <2>1, <2>2 DEF Row
<1> HIDE DEF new
<1>5. /\ Sound(new) /\ Follows(row, new) /\ new.seq <= requests'
      /\ OnCalendarRow(new) /\ new.sync = "ok" => new.event # NoEvent
  BY <1>1, <1>2, <1>3, <1>4 DEF Sound, Follows, OnCalendarRow
<1>6. /\ IsFiniteSet(deletions') /\ \A d \in deletions' : d \in Deletion
      /\ \A d, o \in deletions' : d.id = o.id \/ d.event = o.event => d = o
      /\ \A d \in deletions' : d \in deletions \/ d.event[2] = c
      /\ \A d \in deletions' : d.event[2] = c => Past(d.event[3], new)
  BY <1>1, <1>4, Undropped
<1>7. current' \subseteq current /\ \A t \in current' : job[t].class # c
  BY <1>1 DEF Touch
<1> QED BY <1>1, <1>2, <1>4, <1>5, <1>6, <1>7, RowMoves

LEMMA SetStatusMoves ==
  ASSUME Inductive, NEW c \in Classes, SetStatus(c)
  PROVE  Inductive'
<1> DEFINE row == rows[c]
<1>1. Request /\ Booked(c) /\ UNCHANGED <<rows, deletions>> /\ Touch(c)
  BY DEF SetStatus
<1>2. /\ requests' = requests + 1 /\ requests < MaxRequests /\ requests \in Nat
      /\ UNCHANGED <<events, job, faults>>
  BY <1>1, RequestIs
<1>3. /\ row \in Row /\ Sound(row) /\ row.seq <= requests' /\ Follows(row, row)
      /\ OnCalendarRow(row) /\ row.sync = "ok" => row.event # NoEvent
  <2>1. row \in Row /\ Sound(row) /\ row.seq <= requests /\ row.seq \in Nat
    BY <1>1, BookedIs DEF Inductive, RowsOK, Row, Seq0
  <2> QED BY <1>1, <1>2, <2>1 DEF Inductive, OkHasEvent, OnCalendar, OnCalendarRow, Follows
<1>4. rows' = [rows EXCEPT ![c] = row]
  BY <1>1 DEF Inductive, RowsOK
<1>5. /\ IsFiniteSet(deletions') /\ \A d \in deletions' : d \in Deletion
      /\ \A d, o \in deletions' : d.id = o.id \/ d.event = o.event => d = o
      /\ \A d \in deletions' : d \in deletions \/ d.event[2] = c
      /\ \A d \in deletions' : d.event[2] = c => Past(d.event[3], row)
  BY <1>1, <1>3, Undropped
<1>6. current' \subseteq current /\ \A t \in current' : job[t].class # c
  BY <1>1 DEF Touch
<1> QED BY <1>1, <1>2, <1>3, <1>4, <1>5, <1>6, RowMoves
-----------------------------------------------------------------------------
(* The syncs.                                                               *)

LEMMA Shape ==
  ASSUME Inductive, NEW t \in Syncers
  PROVE  /\ job[t] \in Job /\ JobHolds(job[t])
         /\ job[t].pc = "load" => job[t] \in LoadJob
         /\ job[t].pc \in {"connect", "queue", "finish"} \cup Upserting => job[t] \in SyncJob
         /\ job[t].pc \in Deleting => job[t] \in SyncJob \cup QueueJob
         /\ job[t] \in SyncJob => job[t].class # NoCalendar
<1>1. job[t] \in Job /\ JobHolds(job[t])
  BY DEF Inductive, JobsOK
<1>2. job[t] \in SyncJob => job[t].class # NoCalendar
  BY CalendarAssumption DEF SyncJob
<1> QED BY <1>1, <1>2 DEF Job, Idle, LoadJob, SyncJob, QueueJob, Deleting, Upserting, Done

LEMMA FaultIs ==
  ASSUME Inductive, NoFault \/ \E kind \in FaultKinds : Fault(kind)
  PROVE  faults' \in 0 .. MaxFaults
BY BoundAssumption DEF Inductive, TypeOK, NoFault, Fault

\* A step of a sync leaves the rows and the copies of the others alone.
LEMMA JobMoves ==
  ASSUME Inductive, NEW t \in Syncers, NEW j \in Job, JobHolds(j),
         job' = [job EXCEPT ![t] = j],
         UNCHANGED <<rows, requests>>, faults' \in 0 .. MaxFaults,
         DOMAIN events' \subseteq EventId, \A e \in DOMAIN events' : events'[e] \in Revisions,
         IsFiniteSet(deletions'), \A d \in deletions' : d \in Deletion,
         \A d, o \in deletions' : d.id = o.id \/ d.event = o.event => d = o,
         \A d \in deletions' : \E o \in deletions : d.event = o.event,
         current' \subseteq current \cup {t},
         t \in current' => j \in SyncJob /\ j.row = rows[j.class]
  PROVE  Inductive'
<1>1. /\ job'[t] = j /\ \A u \in Syncers \ {t} : job'[u] = job[u]
      /\ job' \in [Syncers -> Job]
  BY DEF Inductive, JobsOK
<1>2. RowsOK' /\ OkHasEvent'
  BY DEF Inductive, RowsOK, OkHasEvent, OnCalendar, Booked
<1>3. QueueOK'
  BY DEF Inductive, QueueOK, Booked
<1>4. JobsOK'
  <2>1. \A u \in Syncers : JobHolds(job'[u])
    BY <1>1 DEF Inductive, JobsOK
  <2>2. \A u \in Syncers : JobHolds(job[u])'
    BY <1>1, <2>1 DEF JobHolds, SyncHolds, Booked
  <2> QED BY <1>1, <2>2 DEF JobsOK
<1>5. CurrentOK'
  BY <1>1 DEF Inductive, CurrentOK
<1>6. TypeOK'
  <2>1. \A u \in current' : job'[u].class \in Classes /\ Booked(job'[u].class)
    <3> SUFFICES ASSUME NEW u \in current' PROVE job'[u].class \in Classes /\ Booked(job'[u].class)
      OBVIOUS
    <3>1. CASE u = t
      BY <3>1, <1>1 DEF JobHolds, SyncJob
    <3>2. CASE u # t
      BY <3>2, <1>1 DEF Inductive, TypeOK, CurrentOK
    <3> QED BY <3>1, <3>2
  <2> QED BY <2>1 DEF Inductive, TypeOK, Booked
<1> QED BY <1>2, <1>3, <1>4, <1>5, <1>6 DEF Inductive

\* One that leaves the queue alone as well.
LEMMA CalmMoves ==
  ASSUME Inductive, NEW t \in Syncers, NEW j \in Job, JobHolds(j),
         job' = [job EXCEPT ![t] = j],
         UNCHANGED <<rows, deletions, requests>>, faults' \in 0 .. MaxFaults,
         DOMAIN events' \subseteq EventId, \A e \in DOMAIN events' : events'[e] \in Revisions,
         current' \subseteq current \cup {t},
         t \in current' => j \in SyncJob /\ j.row = rows[j.class]
  PROVE  Inductive'
<1>1. /\ IsFiniteSet(deletions') /\ \A d \in deletions' : d \in Deletion
      /\ \A d, o \in deletions' : d.id = o.id \/ d.event = o.event => d = o
      /\ \A d \in deletions' : \E o \in deletions : d.event = o.event
  BY DEF Inductive, QueueOK, TypeOK
<1> QED BY <1>1, JobMoves

LEMMA EventsTyped ==
  ASSUME Inductive
  PROVE  DOMAIN events \subseteq EventId /\ \A e \in DOMAIN events : events[e] \in Revisions
BY DEF Inductive, TypeOK

LEMMA IdleHolds == Idle \in Job /\ JobHolds(Idle) /\ Idle \notin SyncJob \cup LoadJob \cup QueueJob
BY DEF Job, JobHolds, Idle, LoadJob, SyncJob, QueueJob, Deleting, Upserting, Done

\* A syncer that does nothing, loads, or empties the queue holds no current copy.
LEMMA NotCurrent ==
  ASSUME Inductive, NEW t \in Syncers, job[t] \notin SyncJob
  PROVE  t \notin current
BY DEF Inductive, CurrentOK

LEMMA StartMoves ==
  ASSUME Inductive, NEW t \in Syncers, NEW c \in Classes,
         StartWorker(t, c) \/ \E only \in BOOLEAN : StartApi(t, c, only)
  PROVE  Inductive'
<1>1. PICK only \in BOOLEAN : Become(t, [pc |-> "load", class |-> c, only |-> only])
  BY DEF StartApi, StartWorker
<1>2. /\ job[t] = Idle /\ Booked(c)
      /\ UNCHANGED <<rows, deletions, events, current, requests, faults>>
  BY DEF StartApi, StartWorker
<1> DEFINE j == [pc |-> "load", class |-> c, only |-> only]
<1>3. j \in LoadJob /\ j \in Job
  BY DEF LoadJob, Job
<1>4. JobHolds(j)
  BY <1>2, <1>3 DEF JobHolds, SyncJob, QueueJob, Deleting, Upserting, Done
<1>5. t \notin current
  BY <1>2, IdleHolds, NotCurrent
<1>6. job' = [job EXCEPT ![t] = j]
  BY <1>1 DEF Become
<1> HIDE DEF j
<1> QED BY <1>2, <1>3, <1>4, <1>5, <1>6, EventsTyped, CalmMoves DEF Inductive, TypeOK

LEMMA StartQueueMoves ==
  ASSUME Inductive, NEW t \in Syncers, StartQueue(t)
  PROVE  Inductive'
<1>1. PICK due \in SUBSET deletions :
        due # {} /\ Become(t, [pc |-> "delete", class |-> NoCalendar, todo |-> due])
  BY DEF StartQueue
<1>2. job[t] = Idle /\ UNCHANGED <<rows, deletions, events, current, requests, faults>>
  BY DEF StartQueue
<1> DEFINE j == [pc |-> "delete", class |-> NoCalendar, todo |-> due]
<1>3. due \in SUBSET Deletion /\ IsFiniteSet(due)
  BY FS_Subset DEF Inductive, QueueOK, TypeOK
<1>4. j \in QueueJob /\ j \in Job /\ j.todo # {} /\ IsFiniteSet(j.todo)
  BY <1>1, <1>3 DEF QueueJob, Job, Deleting
<1>5. j \notin SyncJob \cup LoadJob
  BY CalendarAssumption DEF SyncJob, LoadJob
<1>6. JobHolds(j)
  BY <1>4, <1>5 DEF JobHolds
<1>7. t \notin current
  BY <1>2, IdleHolds, NotCurrent
<1>8. job' = [job EXCEPT ![t] = j]
  BY <1>1 DEF Become
<1> HIDE DEF j
<1> QED BY <1>2, <1>4, <1>6, <1>7, <1>8, EventsTyped, CalmMoves DEF Inductive, TypeOK

\* The copy of a row is the row.
LEMMA LoadMoves ==
  ASSUME Inductive, NEW t \in Syncers, Load(t) \/ LoadFails(t)
  PROVE  Inductive'
<1> DEFINE c == job[t].class
           row == rows[c]
           full == [pc |-> "connect", class |-> c, row |-> row,
                    event |-> NoEvent, failed |-> FALSE, todo |-> {}]
<1>1. /\ job[t].pc = "load" /\ job[t] \in LoadJob /\ t \notin current
      /\ UNCHANGED <<rows, deletions, events, requests>>
  <2>1. job[t].pc = "load" /\ job[t] \in LoadJob
    BY Shape DEF Load, LoadFails
  <2>2. job[t] \notin SyncJob
    BY <2>1 DEF SyncJob, Upserting, Done, Deleting
  <2> QED BY <2>1, <2>2, NotCurrent DEF Load, LoadFails
<1>2. faults' \in 0 .. MaxFaults
  BY FaultIs DEF Load, LoadFails, NoFault, Fault
<1>3. c \in Classes /\ Booked(c)
  BY <1>1, Shape DEF LoadJob, JobHolds
<1>4. row \in Row /\ Sound(row)
  BY <1>3, BookedIs DEF Inductive, RowsOK
<1>5. \/ job' = [job EXCEPT ![t] = Idle] /\ current' = current
      \/ job' = [job EXCEPT ![t] = full] /\ current' = current \cup {t}
  BY DEF Load, LoadFails, Become
<1>6. CASE job' = [job EXCEPT ![t] = Idle] /\ current' = current
  BY <1>1, <1>2, <1>6, IdleHolds, EventsTyped, CalmMoves
<1>7. CASE job' = [job EXCEPT ![t] = full] /\ current' = current \cup {t}
  <2>1. full \in SyncJob
    BY <1>3, <1>4 DEF SyncJob
  <2>2. Follows(row, row)
    BY <1>4 DEF Follows, Row, Seq0
  <2>3. SyncHolds(full)
    BY <1>4, <2>2 DEF SyncHolds, Upserting, Done, Deleting
  <2>4. JobHolds(full)
    BY <1>3, <2>1, <2>3, FS_EmptySet DEF JobHolds, Deleting
  <2>5. full \in Job /\ full.row = rows[full.class]
    BY <2>1 DEF Job
  <2> HIDE DEF full
  <2> QED BY <1>1, <1>2, <1>7, <2>1, <2>4, <2>5, EventsTyped, CalmMoves
<1> QED BY <1>5, <1>6, <1>7

\* A sync that goes on keeps its class and its copy of the row.
LEMMA SyncMoves ==
  ASSUME Inductive, NEW t \in Syncers, job[t] \in SyncJob,
         NEW j \in SyncJob, j.class = job[t].class, j.row = job[t].row,
         j.pc \in Upserting \/ j.event # NoEvent => OnCalendarRow(j.row),
         j.event # NoEvent => j.event = Target(t)[3],
         j.pc \in Done => j.failed \/ j.event # NoEvent \/ ~OnCalendarRow(j.row),
         j.pc \in Deleting => j.todo # {}, IsFiniteSet(j.todo),
         job' = [job EXCEPT ![t] = j],
         UNCHANGED <<rows, deletions, requests, current>>, faults' \in 0 .. MaxFaults,
         DOMAIN events' \subseteq EventId, \A e \in DOMAIN events' : events'[e] \in Revisions
  PROVE  Inductive'
<1>1. JobHolds(j)
  BY Shape DEF JobHolds, SyncHolds, Target
<1>2. t \in current => j.row = rows[j.class]
  BY DEF Inductive, CurrentOK
<1>3. j \in Job
  BY DEF Job
<1> QED BY <1>1, <1>2, <1>3, CalmMoves
LEMMA SyncIs ==
  ASSUME Inductive, NEW t \in Syncers, job[t] \in SyncJob
  PROVE  /\ job \in [Syncers -> Job] /\ SyncHolds(job[t]) /\ IsFiniteSet(job[t].todo)
         /\ job[t].row \in Row /\ job[t].class \in Classes /\ job[t].failed \in BOOLEAN
         /\ job[t].event \in Seq0 \cup {NoEvent} /\ job[t].todo \in SUBSET Deletion
         /\ (job[t].pc \in Deleting => job[t].todo # {})
BY Shape DEF Inductive, JobsOK, JobHolds, SyncJob

LEMMA ConnectMoves ==
  ASSUME Inductive, NEW t \in Syncers, Connect(t) \/ Offline(t)
  PROVE  Inductive'
<1> DEFINE row == job[t].row
           next == IF ~row.live \/ row.cal = NoCalendar THEN "queue"
                   ELSE IF row.event # NoEvent THEN "patch" ELSE "insert"
<1>1. /\ job[t].pc = "connect" /\ job[t] \in SyncJob
      /\ UNCHANGED <<rows, deletions, events, current, requests>>
  BY Shape DEF Connect, Offline
<1>2. faults' \in 0 .. MaxFaults
  BY FaultIs DEF Connect, Offline, NoFault, Fault
<1>3. CASE Connect(t)
  <2> DEFINE j == [job[t] EXCEPT !.pc = next]
  <2>1. job' = [job EXCEPT ![t].pc = next]
    BY <1>3 DEF Connect
  <2>2. job' = [job EXCEPT ![t] = j]
    <3> HIDE DEF next
    <3> QED BY <1>1, <2>1, SyncIs
  <2>3. next \in Upserting \cup {"queue"} /\ (next = "queue" <=> ~OnCalendarRow(row))
    BY DEF Upserting, OnCalendarRow
  <2> HIDE DEF next
  <2>4. /\ j \in SyncJob /\ j.class = job[t].class /\ j.row = row /\ j.event = job[t].event
        /\ j.pc = next /\ j.todo = job[t].todo
    BY <1>1, <2>3 DEF SyncJob, Done
  <2> HIDE DEF j
  <2>5. j.pc \notin Deleting
    BY <2>3, <2>4 DEF Upserting, Deleting
  <2>6. SyncHolds(job[t]) /\ IsFiniteSet(j.todo)
    BY <1>1, <2>4, SyncIs
  <2>7. j.pc \in Upserting \/ j.event # NoEvent => OnCalendarRow(j.row)
    BY <2>3, <2>4, <2>6 DEF SyncHolds, Upserting
  <2>8. j.pc \in Done => ~OnCalendarRow(j.row)
    BY <2>3, <2>4 DEF Upserting, Done, Deleting
  <2>9. j.event # NoEvent => j.event = Target(t)[3]
    BY <2>4, <2>6 DEF SyncHolds, Target
  <2> QED BY <1>1, <1>2, <2>2, <2>4, <2>5, <2>6, <2>7, <2>8, <2>9, EventsTyped, SyncMoves
<1>4. CASE Offline(t)
  <2> DEFINE j == [job[t] EXCEPT !.pc = "finish", !.failed = TRUE]
  <2>1. job' = [job EXCEPT ![t] = j]
    BY <1>1, <1>4, SyncIs DEF Offline
  <2>2. /\ j \in SyncJob /\ j.class = job[t].class /\ j.row = row /\ j.event = job[t].event
        /\ j.pc = "finish" /\ j.todo = job[t].todo /\ j.failed
    BY <1>1 DEF SyncJob, Done
  <2> HIDE DEF j
  <2>3. j.pc \notin Deleting \cup Upserting
    BY <2>2 DEF Upserting, Deleting
  <2>4. /\ j.event # NoEvent => OnCalendarRow(j.row)
        /\ j.event # NoEvent => j.event = Target(t)[3]
        /\ IsFiniteSet(j.todo)
    BY <1>1, <2>2, SyncIs DEF SyncHolds, Target
  <2> QED BY <1>1, <1>2, <2>1, <2>2, <2>3, <2>4, EventsTyped, SyncMoves
<1> QED BY <1>3, <1>4

\* What is published is an event of the class, of the revision that was loaded.
LEMMA PublishedIs ==
  ASSUME Inductive, NEW t \in Syncers, job[t] \in SyncJob, job[t].pc \in Upserting,
         events' = Published(t)
  PROVE  DOMAIN events' \subseteq EventId /\ \A e \in DOMAIN events' : events'[e] \in Revisions
<1>1. /\ job[t].row \in Row /\ job[t].class \in Classes /\ OnCalendarRow(job[t].row)
      /\ Sound(job[t].row)
  BY SyncIs DEF SyncHolds
<1>2. Target(t) \in EventId
  <2>1. /\ Target(t) = <<job[t].row.cal, job[t].class, Target(t)[3]>> /\ Target(t)[3] \in Seq0
    BY <1>1, NumberIs DEF Target
  <2>2. job[t].row.cal \in Calendars
    BY <1>1 DEF Row, OnCalendarRow
  <2> HIDE DEF Target
  <2> QED BY <1>1, <2>1, <2>2 DEF EventId
<1>3. job[t].row.revision \in Revisions
  BY <1>1 DEF Row
<1> QED BY <1>2, <1>3, EventsTyped DEF Published

LEMMA UpsertMoves ==
  ASSUME Inductive, NEW t \in Syncers,
         \/ Insert(t) \/ InsertDuplicate(t) \/ InsertRetried(t)
         \/ Patch(t) \/ PatchMissing(t) \/ UpsertFails(t)
  PROVE  Inductive'
<1> DEFINE row == job[t].row
<1>1. /\ job[t].pc \in Upserting /\ job[t] \in SyncJob
      /\ UNCHANGED <<rows, deletions, current, requests>>
  BY Shape DEF Insert, InsertDuplicate, InsertRetried, Patch, PatchMissing, UpsertFails, Upserting
<1>2. faults' \in 0 .. MaxFaults
  BY FaultIs DEF Insert, InsertDuplicate, InsertRetried, Patch, PatchMissing, UpsertFails,
    NoFault, Fault
<1>3. DOMAIN events' \subseteq EventId /\ \A e \in DOMAIN events' : events'[e] \in Revisions
  <2>1. events' = events \/ events' = Published(t)
    BY DEF Insert, InsertDuplicate, InsertRetried, Patch, PatchMissing, UpsertFails
  <2> QED BY <1>1, <2>1, PublishedIs, EventsTyped
<1>4. OnCalendarRow(row) /\ IsFiniteSet(job[t].todo)
  BY <1>1, SyncIs DEF SyncHolds
<1>5. Target(t)[3] \in Seq0 /\ NoEvent \notin Seq0
  BY <1>1, SyncIs, NumberIs DEF Target, SyncHolds
<1>6. \/ job' = [job EXCEPT ![t].pc = "patch"]
      \/ Upserted(t) \/ Unsure(t)
  BY DEF Insert, InsertDuplicate, InsertRetried, Patch, PatchMissing, UpsertFails
<1>7. CASE job' = [job EXCEPT ![t].pc = "patch"]
  <2> DEFINE j == [job[t] EXCEPT !.pc = "patch"]
  <2>1. job' = [job EXCEPT ![t] = j]
    BY <1>1, <1>7, SyncIs
  <2>2. /\ j \in SyncJob /\ j.class = job[t].class /\ j.row = row /\ j.event = job[t].event
        /\ j.pc = "patch" /\ j.todo = job[t].todo
    BY <1>1 DEF SyncJob, Upserting
  <2> HIDE DEF j
  <2>3. j.pc \notin Deleting \cup Done
    BY <2>2 DEF Done, Deleting
  <2>4. j.event # NoEvent => j.event = Target(t)[3]
    BY <1>1, <2>2, SyncIs DEF SyncHolds, Target
  <2> QED BY <1>1, <1>2, <1>3, <1>4, <2>1, <2>2, <2>3, <2>4, SyncMoves
<1>8. CASE Upserted(t)
  <2> DEFINE n == Target(t)[3]
             j == [job[t] EXCEPT !.pc = "queue", !.event = n]
  <2>1. job' = [job EXCEPT ![t] = j]
    <3> HIDE DEF n
    <3>1. job' = [job EXCEPT ![t].pc = "queue", ![t].event = n]
      BY <1>8 DEF Upserted, n
    <3> QED BY <1>1, <3>1, SyncIs
  <2> HIDE DEF n
  <2>2. n \in Seq0 /\ n # NoEvent
    BY <1>5 DEF n
  <2>3. /\ j \in SyncJob /\ j.class = job[t].class /\ j.row = row /\ j.event = n
        /\ j.pc = "queue" /\ j.todo = job[t].todo
    BY <1>1, <2>2 DEF SyncJob, Done
  <2> HIDE DEF j
  <2>4. j.pc \notin Deleting \cup Upserting
    BY <2>3 DEF Deleting, Upserting
  <2>5. j.event = Target(t)[3]
    BY <2>3 DEF n
  <2> QED BY <1>1, <1>2, <1>3, <1>4, <2>1, <2>2, <2>3, <2>4, <2>5, SyncMoves
<1>9. CASE Unsure(t)
  <2> DEFINE j == [job[t] EXCEPT !.pc = "queue", !.failed = TRUE]
  <2>1. job' = [job EXCEPT ![t] = j]
    BY <1>1, <1>9, SyncIs DEF Unsure
  <2>2. /\ j \in SyncJob /\ j.class = job[t].class /\ j.row = row /\ j.event = job[t].event
        /\ j.pc = "queue" /\ j.todo = job[t].todo /\ j.failed
    BY <1>1 DEF SyncJob, Done
  <2> HIDE DEF j
  <2>3. j.pc \notin Deleting \cup Upserting
    BY <2>2 DEF Deleting, Upserting
  <2>4. j.event # NoEvent => j.event = Target(t)[3]
    BY <1>1, <2>2, SyncIs DEF SyncHolds, Target
  <2> QED BY <1>1, <1>2, <1>3, <1>4, <2>1, <2>2, <2>3, <2>4, SyncMoves
<1> QED BY <1>6, <1>7, <1>8, <1>9
LEMMA LoadQueueMoves ==
  ASSUME Inductive, NEW t \in Syncers, LoadQueue(t) \/ LoadQueueFails(t)
  PROVE  Inductive'
<1> DEFINE todo == {d \in deletions : d.event[2] = job[t].class}
           end == [job[t] EXCEPT !.pc = "finish", !.todo = {}]
<1>1. /\ job[t].pc = "queue" /\ job[t] \in SyncJob /\ job[t].class # NoCalendar
      /\ UNCHANGED <<rows, deletions, events, current, requests>>
  BY Shape DEF LoadQueue, LoadQueueFails
<1>2. faults' \in 0 .. MaxFaults
  BY FaultIs DEF LoadQueue, LoadQueueFails, NoFault, Fault
<1>3. todo \in SUBSET Deletion /\ IsFiniteSet(todo)
  BY FS_Subset DEF Inductive, QueueOK, TypeOK
<1>4. AfterQueue(t) = end
  BY <1>1 DEF AfterQueue
<1> DEFINE k == IF todo = {} THEN end ELSE [job[t] EXCEPT !.pc = "delete", !.todo = todo]
           l == [end EXCEPT !.failed = TRUE]
<1>5. PICK j \in {k, l} : job' = [job EXCEPT ![t] = j]
  BY <1>4 DEF LoadQueue, LoadQueueFails, Become
<1> HIDE DEF todo
<1>6. /\ j \in SyncJob /\ j.class = job[t].class /\ j.row = job[t].row /\ j.event = job[t].event
      /\ j.pc \in {"finish", "delete"} /\ (job[t].failed => j.failed)
      /\ j.todo \in {{}, todo} /\ (j.pc = "delete" => j.todo # {})
  <2>1. end \in SyncJob /\ end.failed = job[t].failed
    BY <1>1 DEF SyncJob, Done
  <2>2. CASE j = end
    BY <1>1, <2>1, <2>2 DEF SyncJob
  <2>3. CASE todo # {} /\ j = [job[t] EXCEPT !.pc = "delete", !.todo = todo]
    BY <1>1, <1>3, <2>3 DEF SyncJob, Done, Deleting
  <2>4. CASE j = l
    BY <1>1, <2>4 DEF SyncJob, Done
  <2> QED BY <1>5, <2>2, <2>3, <2>4
<1> HIDE DEF k, l, end
<1>7. j.pc \notin Upserting /\ (j.pc \in Deleting => j.todo # {})
  BY <1>6 DEF Upserting, Deleting
<1>8. IsFiniteSet(j.todo)
  BY <1>3, <1>6, FS_EmptySet
<1>9. SyncHolds(job[t]) /\ job[t].pc \in Done
  BY <1>1, SyncIs DEF Done
<1>10. /\ j.event # NoEvent => OnCalendarRow(j.row)
       /\ j.event # NoEvent => j.event = Target(t)[3]
       /\ j.failed \/ j.event # NoEvent \/ ~OnCalendarRow(j.row)
  BY <1>6, <1>9 DEF SyncHolds, Target
<1> QED BY <1>1, <1>2, <1>5, <1>6, <1>7, <1>8, <1>10, EventsTyped, SyncMoves

\* A pass over the queue, of a sync or of the reconciler, goes on or ends.
Continues(t, j) ==
  \/ job[t] \in QueueJob /\ j = Idle
  \/ /\ job[t] \in QueueJob /\ j \in QueueJob
     /\ j.todo # {} /\ j.todo \subseteq job[t].todo
  \/ /\ job[t] \in SyncJob /\ j \in SyncJob
     /\ j.class = job[t].class /\ j.row = job[t].row /\ j.event = job[t].event
     /\ j.pc \in {"finish"} \cup Deleting /\ (job[t].failed => j.failed)
     /\ j.todo \subseteq job[t].todo /\ (j.pc \in Deleting => j.todo # {})

LEMMA ContinueMoves ==
  ASSUME Inductive, NEW t \in Syncers, job[t].pc \in Deleting, NEW j, Continues(t, j),
         job' = [job EXCEPT ![t] = j],
         UNCHANGED <<rows, requests, current>>, faults' \in 0 .. MaxFaults,
         DOMAIN events' \subseteq EventId, \A e \in DOMAIN events' : events'[e] \in Revisions,
         IsFiniteSet(deletions'), \A d \in deletions' : d \in Deletion,
         \A d, o \in deletions' : d.id = o.id \/ d.event = o.event => d = o,
         \A d \in deletions' : \E o \in deletions : d.event = o.event
  PROVE  Inductive'
<1>1. job[t] \in SyncJob \cup QueueJob /\ IsFiniteSet(job[t].todo)
  BY Shape DEF JobHolds
<1>2. CASE job[t] \in QueueJob
  <2>1. job[t] \notin SyncJob
    BY <1>2, CalendarAssumption DEF QueueJob, SyncJob
  <2>2. j = Idle \/ (j \in QueueJob /\ j.todo # {} /\ j.todo \subseteq job[t].todo)
    BY <2>1 DEF Continues
  <2>3. j \in QueueJob => j \notin SyncJob \cup LoadJob
    BY CalendarAssumption DEF QueueJob, SyncJob, LoadJob
  <2>4. JobHolds(j) /\ j \in Job
    BY <1>1, <2>2, <2>3, IdleHolds, FS_Subset DEF JobHolds, Job
  <2>5. t \notin current
    BY <2>1, NotCurrent
  <2> QED BY <2>4, <2>5, JobMoves
<1>3. CASE job[t] \in SyncJob
  <2>1. job[t] \notin QueueJob
    BY <1>3, CalendarAssumption DEF QueueJob, SyncJob
  <2>2. /\ j \in SyncJob
        /\ j.class = job[t].class /\ j.row = job[t].row /\ j.event = job[t].event
        /\ j.pc \in {"finish"} \cup Deleting /\ (job[t].failed => j.failed)
        /\ j.todo \subseteq job[t].todo /\ (j.pc \in Deleting => j.todo # {})
    BY <2>1 DEF Continues
  <2>3. SyncHolds(job[t]) /\ job[t].pc \in Done /\ JobHolds(job[t])
    BY <1>3, SyncIs, Shape DEF Done
  <2>4. j.pc \notin Upserting
    BY <2>2 DEF Upserting, Deleting
  <2>5. SyncHolds(j)
    BY <2>2, <2>3, <2>4 DEF SyncHolds
  <2>6. IsFiniteSet(j.todo)
    BY <1>1, <2>2, FS_Subset
  <2>7. JobHolds(j) /\ j \in Job
    BY <1>3, <2>2, <2>3, <2>5, <2>6 DEF JobHolds, Job
  <2>8. t \in current => j.row = rows[j.class]
    BY <2>2 DEF Inductive, CurrentOK
  <2> QED BY <2>2, <2>7, <2>8, JobMoves
<1> QED BY <1>1, <1>2, <1>3

\* The queue without some rows, or with other attempts.
LEMMA QueueKept ==
  ASSUME Inductive, deletions' \subseteq deletions
  PROVE  /\ IsFiniteSet(deletions') /\ \A d \in deletions' : d \in Deletion
         /\ \A d, o \in deletions' : d.id = o.id \/ d.event = o.event => d = o
         /\ \A d \in deletions' : \E o \in deletions : d.event = o.event
BY FS_Subset DEF Inductive, QueueOK, TypeOK

LEMMA QueueMarked ==
  ASSUME Inductive, NEW id, NEW attempts \in 0 .. MaxAttempts,
         deletions' = {IF o.id = id THEN [o EXCEPT !.attempts = attempts] ELSE o : o \in deletions}
  PROVE  /\ IsFiniteSet(deletions') /\ \A d \in deletions' : d \in Deletion
         /\ \A d, o \in deletions' : d.id = o.id \/ d.event = o.event => d = o
         /\ \A d \in deletions' : \E o \in deletions : d.event = o.event
<1> DEFINE mark(o) == IF o.id = id THEN [o EXCEPT !.attempts = attempts] ELSE o
           f == [o \in deletions |-> mark(o)]
<1>1. \A o \in deletions : o \in Deletion
  BY DEF Inductive, TypeOK
<1>2. \A o \in deletions : mark(o) \in Deletion /\ mark(o).event = o.event /\ mark(o).id = o.id
  BY <1>1 DEF Deletion
<1>3. IsFiniteSet(deletions')
  <2>1. deletions' = {f[o] : o \in deletions}
    OBVIOUS
  <2>2. IsFiniteSet(deletions)
    BY DEF Inductive, QueueOK
  <2> HIDE DEF f
  <2> QED BY <2>1, <2>2, ImageIsFinite
<1>4. \A d \in deletions' : \E o \in deletions : d = mark(o)
  OBVIOUS
<1>5. \A o, p \in deletions : o.id = p.id \/ o.event = p.event => o = p
  BY DEF Inductive, TypeOK
<1> HIDE DEF mark
<1> QED BY <1>2, <1>3, <1>4, <1>5

LEMMA NextRowIs ==
  ASSUME Inductive, NEW t \in Syncers, job[t].pc \in Deleting,
         NEW k, NextRow(t, k),
         \/ k = job[t]
         \/ job[t] \in SyncJob /\ k = [job[t] EXCEPT !.failed = TRUE]
  PROVE  \E j : /\ Continues(t, j) /\ job' = [job EXCEPT ![t] = j]
                /\ j.pc \notin {"complete", "fail"}
                /\ j.pc \in Deleting => j.todo = job[t].todo \ {Oldest(t)}
<1> DEFINE rest == job[t].todo \ {Oldest(t)}
           j == IF rest # {} THEN [k EXCEPT !.pc = "delete", !.todo = rest]
                ELSE IF k.class = NoCalendar THEN Idle
                ELSE [k EXCEPT !.pc = "finish", !.todo = {}]
<1>1. job' = [job EXCEPT ![t] = j]
  BY DEF NextRow, Become
<1>2. job[t] \in SyncJob \cup QueueJob
  BY Shape
<1>3. /\ Continues(t, j) /\ j.pc \notin {"complete", "fail"}
      /\ j.pc \in Deleting => j.todo = rest
  <2>1. CASE job[t] \in QueueJob
    <3>1. k = job[t] /\ k.class = NoCalendar
      BY <2>1, CalendarAssumption DEF QueueJob, SyncJob
    <3> HIDE DEF rest
    <3>2. rest \subseteq job[t].todo
      BY DEF rest
    <3> QED BY <2>1, <3>1, <3>2 DEF Continues, QueueJob, Deleting, Idle
  <2>2. CASE job[t] \in SyncJob
    <3>1. /\ k \in SyncJob /\ k.class = job[t].class /\ k.row = job[t].row
          /\ k.event = job[t].event /\ (job[t].failed => k.failed)
      BY <2>2 DEF SyncJob
    <3>2. k.class # NoCalendar /\ rest \subseteq job[t].todo /\ job[t].todo \in SUBSET Deletion
      BY <2>2, <3>1, Shape, SyncIs
    <3> HIDE DEF rest
    <3>3. CASE rest # {}
      BY <2>2, <3>1, <3>2, <3>3 DEF Continues, SyncJob, Deleting, Done
    <3>4. CASE rest = {}
      BY <2>2, <3>1, <3>2, <3>4 DEF Continues, SyncJob, Deleting, Done
    <3> QED BY <3>3, <3>4
  <2> QED BY <1>2, <2>1, <2>2
<1> HIDE DEF j
<1> QED BY <1>1, <1>3

\* The next step of the row at hand.
LEMMA StageIs ==
  ASSUME Inductive, NEW t \in Syncers, job[t].pc \in Deleting, NEW pc \in Deleting,
         job' = [job EXCEPT ![t].pc = pc]
  PROVE  \E j : /\ Continues(t, j) /\ job' = [job EXCEPT ![t] = j]
                /\ j.pc = pc /\ j.todo = job[t].todo
<1> DEFINE j == [job[t] EXCEPT !.pc = pc]
<1>1. job[t] \in SyncJob \cup QueueJob /\ job[t].todo # {} /\ job \in [Syncers -> Job]
  BY Shape DEF JobHolds, Inductive, JobsOK
<1>2. job' = [job EXCEPT ![t] = j]
  BY <1>1
<1>3. Continues(t, j) /\ j.pc = pc /\ j.todo = job[t].todo
  <2>1. CASE job[t] \in SyncJob
    BY <1>1, <2>1 DEF Continues, SyncJob, Done
  <2>2. CASE job[t] \in QueueJob
    BY <1>1, <2>2 DEF Continues, QueueJob
  <2> QED BY <1>1, <2>1, <2>2
<1> HIDE DEF j
<1> QED BY <1>2, <1>3

LEMMA DeletingMoves ==
  ASSUME Inductive, NEW t \in Syncers,
         \/ DeleteEvent(t) \/ DeleteEventFails(t)
         \/ CompleteDeletion(t) \/ CompleteDeletionFails(t) \/ FailDeletion(t)
  PROVE  Inductive'
<1>1. job[t].pc \in Deleting /\ UNCHANGED <<rows, requests, current>>
  BY DEF DeleteEvent, DeleteEventFails, CompleteDeletion, CompleteDeletionFails, FailDeletion,
    Deleting
<1>2. faults' \in 0 .. MaxFaults
  BY FaultIs DEF DeleteEvent, DeleteEventFails, CompleteDeletion, CompleteDeletionFails,
    FailDeletion, NoFault, Fault
<1>3. DOMAIN events' \subseteq EventId /\ \A e \in DOMAIN events' : events'[e] \in Revisions
  BY EventsTyped DEF DeleteEvent, DeleteEventFails, CompleteDeletion, CompleteDeletionFails,
    FailDeletion
<1>4. job[t] \in SyncJob \cup QueueJob /\ JobHolds(job[t])
  BY <1>1, Shape
<1>5. \E j : Continues(t, j) /\ job' = [job EXCEPT ![t] = j]
  <2>1. CASE DeleteEvent(t) \/ DeleteEventFails(t) \/ CompleteDeletionFails(t)
    <3>1. \E pc \in Deleting : job' = [job EXCEPT ![t].pc = pc]
      BY <2>1 DEF DeleteEvent, DeleteEventFails, CompleteDeletionFails, Deleting
    <3> QED BY <1>1, <3>1, StageIs
  <2>2. CASE CompleteDeletion(t)
    BY <1>1, <2>2, NextRowIs DEF CompleteDeletion
  <2>3. CASE FailDeletion(t)
    <3>1. job[t].class # NoCalendar => job[t] \in SyncJob
      BY <1>4 DEF QueueJob
    <3>2. \/ NextRow(t, job[t])
          \/ job[t] \in SyncJob /\ NextRow(t, [job[t] EXCEPT !.failed = TRUE])
      BY <2>3, <3>1 DEF FailDeletion
    <3> QED BY <1>1, <3>2, NextRowIs
  <2> QED BY <2>1, <2>2, <2>3
<1>6. /\ IsFiniteSet(deletions') /\ \A d \in deletions' : d \in Deletion
      /\ \A d, o \in deletions' : d.id = o.id \/ d.event = o.event => d = o
      /\ \A d \in deletions' : \E o \in deletions : d.event = o.event
  <2>1. CASE deletions' \subseteq deletions
    BY <2>1, QueueKept
  <2>2. CASE FailDeletion(t) /\ deletions' # deletions
    <3> DEFINE d == Oldest(t)
    <3>1. deletions' = {IF o.id = d.id THEN [o EXCEPT !.attempts = OneMore(d.attempts)]
                        ELSE o : o \in deletions}
      BY <2>2 DEF FailDeletion
    <3>2. job[t].todo \in SUBSET Deletion /\ job[t].todo # {}
      BY <1>1, <1>4 DEF SyncJob, QueueJob, JobHolds
    <3>3. d \in Deletion
      BY <3>2, OldestIs
    <3>4. OneMore(d.attempts) \in 0 .. MaxAttempts
      BY <3>3, BoundAssumption DEF OneMore, Deletion
    <3> HIDE DEF d
    <3> QED BY <3>1, <3>4, QueueMarked
  <2> QED BY <2>1, <2>2 DEF DeleteEvent, DeleteEventFails, CompleteDeletion, CompleteDeletionFails
<1> QED BY <1>1, <1>2, <1>3, <1>5, <1>6, ContinueMoves

\* A sync that stops reports nothing.
LEMMA StopMoves ==
  ASSUME Inductive, NEW t \in Syncers, FinishFails(t) \/ Crash(t)
  PROVE  Inductive'
<1>1. /\ job' = [job EXCEPT ![t] = Idle] /\ current' = current \ {t}
      /\ UNCHANGED <<rows, deletions, events, requests>>
  BY DEF FinishFails, Crash, Become
<1>2. faults' \in 0 .. MaxFaults
  BY FaultIs DEF FinishFails, Crash, Fault
<1> QED BY <1>1, <1>2, IdleHolds, EventsTyped, CalmMoves

\* A report leaves the lesson as it is, and its copies if nothing is written.
LEMMA ReportMoves ==
  ASSUME Inductive, NEW t \in Syncers, NEW c \in Classes, Booked(c), NEW new \in Row,
         rows' = [rows EXCEPT ![c] = new],
         new.live = rows[c].live, new.cal = rows[c].cal, new.seq = rows[c].seq,
         Sound(new), OnCalendarRow(new) /\ new.sync = "ok" => new.event # NoEvent,
         job' = [job EXCEPT ![t] = Idle], UNCHANGED <<events, requests, faults>>,
         current' \subseteq current, t \notin current',
         new # rows[c] => \A u \in current' : job[u].class # c,
         IsFiniteSet(deletions'), \A d \in deletions' : d \in Deletion,
         \A d, o \in deletions' : d.id = o.id \/ d.event = o.event => d = o,
         \A d \in deletions' : d \in deletions \/ d.event[2] = c,
         \A d \in deletions' : d.event[2] = c => Past(d.event[3], new)
  PROVE  Inductive'
<1>1. /\ rows'[c] = new /\ \A b \in Classes \ {c} : rows'[b] = rows[b]
      /\ rows \in [Classes -> Row \cup {Unbooked}]
      /\ rows' \in [Classes -> Row \cup {Unbooked}]
  BY DEF Inductive, RowsOK
<1>2. new # Unbooked /\ (\A b \in Classes : Booked(b) => Booked(b)')
  BY <1>1, UnbookedIsNoRow DEF Booked
<1>3. /\ job'[t] = Idle /\ \A u \in Syncers \ {t} : job'[u] = job[u]
      /\ job' \in [Syncers -> Job]
  BY IdleHolds DEF Inductive, JobsOK
<1>4. RowsOK'
  BY <1>1 DEF Inductive, RowsOK, Booked
<1>5. QueueOK'
  <2>1. ASSUME NEW d \in deletions' PROVE Booked(d.event[2])' /\ Past(d.event[3], rows[d.event[2]])'
    <3>1. d.event[2] \in Classes
      BY <2>1 DEF Deletion, EventId
    <3>2. CASE d.event[2] = c
      BY <2>1, <3>2, <1>1, <1>2 DEF Booked
    <3>3. CASE d.event[2] # c
      BY <2>1, <3>1, <3>3, <1>1 DEF Inductive, QueueOK, Booked
    <3> QED BY <3>2, <3>3
  <2> QED BY <2>1 DEF QueueOK
<1>6. ASSUME NEW u \in Syncers \ {t} PROVE JobHolds(job[u])'
  <2> DEFINE j == job[u]
  <2>1. j \in Job /\ JobHolds(j)
    BY DEF Inductive, JobsOK
  <2>2. j \in LoadJob \cup SyncJob => j.class \in Classes
    BY DEF LoadJob, SyncJob
  <2>3. j \in SyncJob => Follows(j.row, rows'[j.class])
    <3> SUFFICES ASSUME j \in SyncJob PROVE Follows(j.row, rows'[j.class])
      OBVIOUS
    <3>1. j.class \in Classes /\ Follows(j.row, rows[j.class])
      BY <2>1, <2>2 DEF JobHolds, SyncHolds
    <3>2. CASE j.class = c
      BY <3>1, <3>2, <1>1 DEF Follows, OnCalendarRow
    <3>3. CASE j.class # c
      BY <3>1, <3>3, <1>1
    <3> QED BY <3>2, <3>3
  <2>4. j \in LoadJob \cup SyncJob => Booked(j.class)'
    BY <2>1, <2>2, <1>2 DEF JobHolds
  <2>5. j \in SyncJob => SyncHolds(j)'
    BY <2>1, <2>3 DEF JobHolds, SyncHolds
  <2>6. job'[u] = j
    BY <1>3
  <2> QED BY <2>1, <2>4, <2>5, <2>6 DEF JobHolds
<1>7. JobsOK'
  <2>1. JobHolds(job[t])'
    BY <1>3, IdleHolds DEF JobHolds, Idle, Deleting
  <2> QED BY <1>3, <1>6, <2>1 DEF JobsOK
<1>8. CurrentOK'
  <2>1. ASSUME NEW u \in current'
        PROVE  u \in Syncers /\ job'[u] \in SyncJob /\ job'[u].row = rows'[job'[u].class]
    <3>1. u \in Syncers \ {t} /\ job[u] \in SyncJob /\ job[u].row = rows[job[u].class]
      BY DEF Inductive, CurrentOK
    <3>2. job[u].class \in Classes
      BY <3>1 DEF SyncJob
    <3>3. rows'[job[u].class] = rows[job[u].class]
      BY <1>1, <3>2
    <3> QED BY <1>3, <3>1, <3>3
  <2> QED BY <2>1 DEF CurrentOK
<1>9. OkHasEvent'
  BY <1>1 DEF Inductive, OkHasEvent, OnCalendar, OnCalendarRow, Booked
<1>10. TypeOK'
  <2>1. \A u \in current' : job'[u] = job[u] /\ u \in current
    BY <1>3 DEF Inductive, CurrentOK
  <2>2. \A u \in current' : job'[u].class \in Classes /\ rows'[job'[u].class] # Unbooked
    BY <1>2, <2>1 DEF Inductive, TypeOK, Booked
  <2> QED BY <1>1, <2>2 DEF Inductive, TypeOK, Booked
<1> QED BY <1>4, <1>5, <1>7, <1>8, <1>9, <1>10 DEF Inductive

\* The event that was made is kept if the class has not moved on.
KeepsMade(t) ==
  LET row == rows[job[t].class]
      made == job[t].event IN
  /\ made # NoEvent
  /\ row.live /\ row.cal = job[t].row.cal
  /\ row.event \in {NoEvent, made}

\* What a report writes into the row.
FinishedRow(t, new) ==
  LET row == rows[job[t].class]
      made == job[t].event IN
  /\ new \in Row /\ rows' = [rows EXCEPT ![job[t].class] = new]
  /\ new.live = row.live /\ new.cal = row.cal /\ new.seq = row.seq /\ new.revision = row.revision
  /\ new.event = IF KeepsMade(t) THEN made ELSE row.event
  /\ new.sync = IF t \notin current THEN row.sync ELSE IF job[t].failed THEN "failed" ELSE "ok"
  /\ new # row => \A u \in current' : job[u].class # job[t].class

LEMMA FinishWrites ==
  ASSUME Inductive, NEW t \in Syncers, Finish(t)
  PROVE  \E new : FinishedRow(t, new)
<1> DEFINE c == job[t].class
           row == rows[c]
           made == job[t].event
           keep == KeepsMade(t)
           kept == IF keep THEN [row EXCEPT !.event = made] ELSE row
           new == Outcome(t, kept)
<1>1. /\ job[t].pc = "finish" /\ job[t] \in SyncJob
      /\ rows' = [rows EXCEPT ![c] = new]
      /\ current' = IF t \in current \/ kept # row
                    THEN {u \in current : job[u].class # c} ELSE current
  BY Shape DEF Finish, KeepsMade
<1>2. JobHolds(job[t]) /\ c \in Classes /\ made \in Seq0 \cup {NoEvent} /\ job[t].failed \in BOOLEAN
  BY <1>1, SyncIs, Shape
<1>3. Booked(c) /\ row \in Row
  BY <1>1, <1>2, BookedIs DEF JobHolds
<1> HIDE DEF made, row, keep
<1>4. /\ kept \in Row /\ kept.live = row.live /\ kept.cal = row.cal /\ kept.seq = row.seq
      /\ kept.sync = row.sync /\ kept.attempts = row.attempts /\ kept.revision = row.revision
      /\ kept.event = IF keep THEN made ELSE row.event
  BY <1>2, <1>3 DEF Row
<1> HIDE DEF kept
<1>5. /\ new \in Row /\ new.live = row.live /\ new.cal = row.cal /\ new.seq = row.seq
      /\ new.revision = row.revision
      /\ new.event = IF keep THEN made ELSE row.event
      /\ new.sync = IF t \notin current THEN row.sync ELSE IF job[t].failed THEN "failed" ELSE "ok"
      /\ t \notin current => new = kept
  <2>1. OneMore(kept.attempts) \in 0 .. MaxAttempts /\ 0 \in 0 .. MaxAttempts
    BY <1>4, BoundAssumption DEF OneMore, Row
  <2>2. CASE t \notin current
    BY <1>4, <2>2 DEF Outcome
  <2>3. CASE t \in current /\ job[t].failed
    <3>1. new = [kept EXCEPT !.sync = "failed", !.attempts = OneMore(kept.attempts)]
      BY <2>3 DEF Outcome
    <3> HIDE DEF new
    <3> QED BY <1>4, <2>1, <2>3, <3>1 DEF Row
  <2>4. CASE t \in current /\ ~job[t].failed
    <3>1. new = [kept EXCEPT !.sync = "ok", !.attempts = 0]
      BY <2>4 DEF Outcome
    <3> HIDE DEF new
    <3> QED BY <1>4, <2>1, <2>4, <3>1 DEF Row
  <2> QED BY <2>2, <2>3, <2>4
<1> HIDE DEF new
<1>6. new # row => \A u \in current' : job[u].class # c
  <2>1. new # row => t \in current \/ kept # row
    BY <1>5
  <2> QED BY <1>1, <2>1
<1> QED BY <1>1, <1>5, <1>6 DEF FinishedRow, row, made, keep

\* What is known of a report, of the row it is about and of the copy of the row.
LEMMA FinishIs ==
  ASSUME Inductive, NEW t \in Syncers, Finish(t)
  PROVE  LET j == job[t]
             row == rows[j.class]
             made == j.event
             e == <<j.row.cal, j.class, made>> IN
         /\ j.pc = "finish" /\ j \in SyncJob /\ SyncHolds(j)
         /\ IF made # NoEvent /\ ~KeepsMade(t) THEN Queue(e) ELSE UNCHANGED deletions
         /\ current' \subseteq current /\ t \notin current'
         /\ job' = [job EXCEPT ![t] = Idle] /\ UNCHANGED <<events, requests, faults>>
         /\ j.class \in Classes /\ j.row \in Row /\ made \in Seq0 \cup {NoEvent} /\ j.failed \in BOOLEAN
         /\ Booked(j.class) /\ row \in Row /\ Sound(row)
         /\ Sound(j.row) /\ Follows(j.row, row)
         /\ row.seq \in Nat /\ j.row.seq \in Nat /\ row.event \in Nat
         /\ made # NoEvent =>
              /\ OnCalendarRow(j.row) /\ made \in Seq0 /\ made <= j.row.seq /\ made <= row.seq
              /\ made = IF j.row.event # NoEvent THEN j.row.event ELSE j.row.seq
         /\ t \in current => j.row = row
         /\ j.failed \/ made # NoEvent \/ ~OnCalendarRow(j.row)
         /\ OnCalendarRow(row) /\ row.sync = "ok" => row.event # NoEvent
<1> DEFINE j == job[t]
           c == job[t].class
           row == rows[c]
           made == job[t].event
           e == <<job[t].row.cal, c, made>>
<1>1. /\ j.pc = "finish" /\ j \in SyncJob
      /\ IF made # NoEvent /\ ~KeepsMade(t) THEN Queue(e) ELSE UNCHANGED deletions
      /\ job' = [job EXCEPT ![t] = Idle]
      /\ UNCHANGED <<events, requests, faults>>
  BY Shape DEF Finish, Become, KeepsMade
<1>2. current' \subseteq current /\ t \notin current'
  BY DEF Finish
<1>3. /\ SyncHolds(j) /\ JobHolds(j) /\ c \in Classes /\ j.row \in Row
      /\ made \in Seq0 \cup {NoEvent} /\ j.failed \in BOOLEAN
  BY <1>1, SyncIs, Shape
<1>4. Booked(c) /\ row \in Row /\ Sound(row)
  BY <1>1, <1>3, BookedIs DEF JobHolds, Inductive, RowsOK
<1>5. Sound(j.row) /\ Follows(j.row, row)
  BY <1>3 DEF SyncHolds
<1>6. row.seq \in Nat /\ j.row.seq \in Nat /\ row.event \in Nat /\ \A n \in Seq0 : n \in Nat
  BY <1>3, <1>4, <1>5, NumberIs DEF Seq0
<1>7. made # NoEvent =>
        /\ OnCalendarRow(j.row) /\ made \in Seq0 /\ made <= j.row.seq /\ made <= row.seq
        /\ made = IF j.row.event # NoEvent THEN j.row.event ELSE j.row.seq
  <2> SUFFICES ASSUME made # NoEvent
               PROVE  /\ OnCalendarRow(j.row) /\ made \in Seq0 /\ made <= j.row.seq /\ made <= row.seq
                      /\ made = IF j.row.event # NoEvent THEN j.row.event ELSE j.row.seq
    OBVIOUS
  <2>1. OnCalendarRow(j.row) /\ made = ClassEventId(c, j.row)[3]
    BY <1>3 DEF SyncHolds
  <2>2. /\ made <= j.row.seq /\ made \in Seq0
        /\ made = IF j.row.event # NoEvent THEN j.row.event ELSE j.row.seq
    BY <1>3, <1>5, <2>1, NumberIs
  <2>3. j.row.seq <= row.seq
    BY <1>5 DEF Follows
  <2> QED BY <1>6, <2>1, <2>2, <2>3
<1>8. t \in current => j.row = row
  BY DEF Inductive, CurrentOK
<1>9. j.failed \/ made # NoEvent \/ ~OnCalendarRow(j.row)
  BY <1>1, <1>3 DEF SyncHolds, Done
<1>10. OnCalendarRow(row) /\ row.sync = "ok" => row.event # NoEvent
  BY <1>3, <1>4 DEF Inductive, OkHasEvent, OnCalendar, OnCalendarRow
<1> HIDE DEF j, row, made, e, c
<1>11. QED
  BY <1>1, <1>2, <1>3, <1>4, <1>5, <1>6, <1>7, <1>8, <1>9, <1>10 DEF j, row, made, e, c

\* The event that was made is kept, or queued because its number is over.
LEMMA FinishMoves ==
  ASSUME Inductive, NEW t \in Syncers, Finish(t)
  PROVE  Inductive'
<1> DEFINE j == job[t]
           c == job[t].class
           row == rows[c]
           made == job[t].event
           keep == KeepsMade(t)
           e == <<job[t].row.cal, c, made>>
<1>1. /\ IF made # NoEvent /\ ~keep THEN Queue(e) ELSE UNCHANGED deletions
      /\ current' \subseteq current /\ t \notin current'
      /\ job' = [job EXCEPT ![t] = Idle] /\ UNCHANGED <<events, requests, faults>>
  BY FinishIs
<1>2. /\ c \in Classes /\ j.row \in Row /\ made \in Seq0 \cup {NoEvent}
      /\ Booked(c) /\ row \in Row /\ Sound(row) /\ Follows(j.row, row)
      /\ row.seq \in Nat /\ j.row.seq \in Nat
  BY FinishIs
<1>3. /\ made # NoEvent =>
            /\ OnCalendarRow(j.row) /\ made \in Seq0 /\ made <= j.row.seq /\ made <= row.seq
            /\ made = IF j.row.event # NoEvent THEN j.row.event ELSE j.row.seq
      /\ t \in current => j.row = row
      /\ j.failed \/ made # NoEvent \/ ~OnCalendarRow(j.row)
      /\ OnCalendarRow(row) /\ row.sync = "ok" => row.event # NoEvent
  BY FinishIs
<1>4. PICK new : FinishedRow(t, new)
  BY FinishWrites
<1>5. /\ new \in Row /\ rows' = [rows EXCEPT ![c] = new]
      /\ new.live = row.live /\ new.cal = row.cal /\ new.seq = row.seq
      /\ new.event = IF keep THEN made ELSE row.event
      /\ new.sync = IF t \notin current THEN row.sync ELSE IF j.failed THEN "failed" ELSE "ok"
      /\ new # row => \A u \in current' : job[u].class # c
  BY <1>4 DEF FinishedRow
<1>6. keep <=> made # NoEvent /\ row.live /\ row.cal = j.row.cal /\ row.event \in {NoEvent, made}
  BY DEF KeepsMade
<1> HIDE DEF j, row, made, keep
<1>7. Sound(new)
  <2>1. CASE keep
    BY <1>2, <1>3, <1>5, <1>6, <2>1 DEF Sound, OnCalendarRow
  <2>2. CASE ~keep
    BY <1>2, <1>5, <2>2 DEF Sound
  <2> QED BY <2>1, <2>2
<1>8. OnCalendarRow(new) /\ new.sync = "ok" => new.event # NoEvent
  <2> SUFFICES ASSUME OnCalendarRow(new), new.sync = "ok" PROVE new.event # NoEvent
    OBVIOUS
  <2>1. CASE keep
    BY <1>5, <1>6, <2>1
  <2>2. CASE ~keep /\ t \notin current
    BY <1>3, <1>5, <2>2 DEF OnCalendarRow
  <2>3. CASE ~keep /\ t \in current
    <3>1. ~j.failed /\ j.row = row /\ OnCalendarRow(row)
      BY <1>3, <1>5, <2>3 DEF OnCalendarRow
    <3>2. made # NoEvent
      BY <1>3, <3>1
    <3>3. row.event \in {NoEvent, made}
      BY <1>3, <3>1, <3>2
    <3> QED BY <1>6, <2>3, <3>1, <3>2, <3>3 DEF OnCalendarRow
  <2> QED BY <2>1, <2>2, <2>3
<1>9. \A d \in deletions : d.event[2] = c => Past(d.event[3], new)
  <2>1. ASSUME NEW d \in deletions, d.event[2] = c PROVE Past(d.event[3], new)
    <3>1. Past(d.event[3], row)
      BY <2>1 DEF Inductive, QueueOK, row
    <3> QED BY <1>5, <1>6, <3>1 DEF Past
  <2> QED BY <2>1
<1>10. /\ IsFiniteSet(deletions') /\ \A d \in deletions' : d \in Deletion
       /\ \A d, o \in deletions' : d.id = o.id \/ d.event = o.event => d = o
       /\ \A d \in deletions' : d \in deletions \/ d.event[2] = c
       /\ \A d \in deletions' : d.event[2] = c => Past(d.event[3], new)
  <2>1. CASE made # NoEvent /\ ~keep
    <3>1. j.row.cal \in Calendars
      BY <1>2, <1>3, <2>1 DEF Row, OnCalendarRow
    <3>2. e \in EventId /\ e[2] = c /\ e[3] = made
      BY <1>2, <1>3, <2>1, <3>1 DEF EventId, j
    <3>3. Past(made, new)
      <4>1. ASSUME made = row.seq PROVE row.event \notin {NoEvent, made}
        <5>1. j.row.seq = row.seq /\ OnCalendarRow(j.row)
          BY <1>2, <1>3, <2>1, <4>1 DEF Follows
        <5>2. OnCalendarRow(row) /\ row.cal = j.row.cal
          BY <1>2, <5>1 DEF Follows
        <5> QED BY <1>6, <2>1, <5>2 DEF OnCalendarRow
      <4> QED BY <1>3, <1>5, <1>6, <2>1, <4>1 DEF Past
    <3> HIDE DEF e
    <3>4. Queue(e)
      BY <1>1, <2>1
    <3>5. /\ IsFiniteSet(deletions') /\ \A d \in deletions' : d \in Deletion
          /\ \A d, o \in deletions' : d.id = o.id \/ d.event = o.event => d = o
          /\ \A d \in deletions' : d \in deletions \/ d.event = e
      BY <3>2, <3>4, QueueIs
    <3> QED BY <1>9, <3>2, <3>3, <3>5
  <2>2. CASE ~(made # NoEvent /\ ~keep)
    <3>1. deletions' = deletions
      BY <1>1, <2>2
    <3> QED BY <1>9, <3>1 DEF Inductive, QueueOK, TypeOK
  <2> QED BY <2>1, <2>2
<1>11. /\ new.live = rows[c].live /\ new.cal = rows[c].cal /\ new.seq = rows[c].seq
       /\ new # rows[c] => \A u \in current' : job[u].class # c
  BY <1>5 DEF row
<1> HIDE DEF c
<1> QED BY <1>1, <1>2, <1>5, <1>7, <1>8, <1>10, <1>11, ReportMoves

-----------------------------------------------------------------------------
(* Every step.                                                              *)

LEMMA StepMoves ==
  ASSUME Inductive, NEW t \in Syncers, Step(t) \/ Crash(t)
  PROVE  Inductive'
<1>1. CASE Load(t) \/ LoadFails(t)
  BY <1>1, LoadMoves
<1>2. CASE Connect(t) \/ Offline(t)
  BY <1>2, ConnectMoves
<1>3. CASE Insert(t) \/ InsertDuplicate(t) \/ InsertRetried(t)
           \/ Patch(t) \/ PatchMissing(t) \/ UpsertFails(t)
  BY <1>3, UpsertMoves
<1>4. CASE LoadQueue(t) \/ LoadQueueFails(t)
  BY <1>4, LoadQueueMoves
<1>5. CASE DeleteEvent(t) \/ DeleteEventFails(t)
           \/ CompleteDeletion(t) \/ CompleteDeletionFails(t) \/ FailDeletion(t)
  BY <1>5, DeletingMoves
<1>6. CASE Finish(t)
  BY <1>6, FinishMoves
<1>7. CASE FinishFails(t) \/ Crash(t)
  BY <1>7, StopMoves
<1> QED BY <1>1, <1>2, <1>3, <1>4, <1>5, <1>6, <1>7 DEF Step

LEMMA BookingMoves ==
  ASSUME Inductive, NEW c \in Classes, Booking(c)
  PROVE  Inductive'
BY BookMoves, RebookMoves, CancelMoves, RestoreMoves, SetStatusMoves DEF Booking

LEMMA StandingStill ==
  ASSUME Inductive, UNCHANGED vars
  PROVE  Inductive'
<1>1. TypeOK' /\ RowsOK' /\ QueueOK' /\ CurrentOK' /\ OkHasEvent'
  BY DEF vars, Inductive, TypeOK, RowsOK, QueueOK, CurrentOK, OkHasEvent, OnCalendar, Booked
<1>2. JobsOK'
  BY DEF vars, Inductive, JobsOK, JobHolds, SyncHolds, Booked
<1> QED BY <1>1, <1>2 DEF Inductive

LEMMA Steps == Inductive /\ [Next]_vars => Inductive'
<1> SUFFICES ASSUME Inductive, [Next]_vars PROVE Inductive'
  OBVIOUS
<1>1. ASSUME NEW c \in Classes, Booking(c) PROVE Inductive'
  BY <1>1, BookingMoves
<1>2. ASSUME NEW t \in ApiSyncers, NEW c \in Classes, NEW only \in BOOLEAN, StartApi(t, c, only)
      PROVE  Inductive'
  BY <1>2, StartMoves DEF Syncers
<1>3. ASSUME NEW t \in Workers, (\E c \in Classes : StartWorker(t, c)) \/ StartQueue(t)
      PROVE  Inductive'
  BY <1>3, StartMoves, StartQueueMoves DEF Syncers
<1>4. ASSUME NEW t \in Syncers, Step(t) \/ Crash(t) PROVE Inductive'
  BY <1>4, StepMoves
<1>5. CASE UNCHANGED vars
  BY <1>5, StandingStill
<1> QED BY <1>1, <1>2, <1>3, <1>4, <1>5 DEF Next

\* The number a lesson's event has or will get is not that of a queued event.
LEMMA NoPresentEventQueued == Inductive => PresentEventNotQueued
<1> SUFFICES ASSUME Inductive, NEW c \in Classes,
                    OnCalendar(c), rows[c].event \in {NoEvent, rows[c].seq},
                    NEW d \in deletions, d.event = ClassEventId(c, rows[c])
             PROVE  FALSE
  BY DEF PresentEventNotQueued, Queued
<1>1. rows[c] \in Row /\ Sound(rows[c])
  BY BookedIs DEF OnCalendar, Inductive, RowsOK
<1>2. d.event[2] = c /\ d.event[3] = rows[c].seq
  BY <1>1, NumberIs
<1>3. Past(d.event[3], rows[c])
  BY <1>2 DEF Inductive, QueueOK
<1> QED BY <1>2, <1>3 DEF Past

\* Every state is of its types: rows, queue, events, syncers and counters.
THEOREM TypeCorrect == Spec => []TypeOK
<1>1. Inductive => TypeOK
  BY DEF Inductive
<1> QED BY <1>1, InitInductive, Steps, PTL DEF Spec

\* A lesson that is told to be synced has an event, and the event it is about to get
\* or has got under its present number is not queued for deletion, whatever syncs,
\* faults and crashes come between (finish_class_google_sync, drop_class_event).
THEOREM EventsTracked == Spec => []EventsAreTracked
<1>1. Inductive => EventsAreTracked
  BY NoPresentEventQueued DEF Inductive, EventsAreTracked
<1> QED BY <1>1, InitInductive, Steps, PTL DEF Spec

(***************************************************************************)
(* The connection to Google (GoogleToken), for any processes and admins,   *)
(* finitely many calls, and bounds: a call fails only when it is excused.  *)
(* The inductive invariant follows a running call that nothing excuses:    *)
(* what its process has cached is the token the call was refused with,     *)
(* until the refusal drops it, and from then on the connection's.          *)
(***************************************************************************)

RefreshState == [pc : {"none", "load"}, grant : {NoGrant}]
                \cup [pc : {"ask", "record", "clear"}, grant : Grants]
CallState == [pc : {"idle", "token", "wait", "send", "failed"},
              at : Processes \cup {"none"}, token : Tokens,
              retried : BOOLEAN, excused : BOOLEAN]
AdminState == [pc : {"idle", "consent", "lookup", "check", "revoke", "delete"},
               grant : Grants \cup {NoGrant, NoRow}, at : Processes \cup {"none"}]

GoogleTypes ==
  /\ granted \subseteq Grants /\ grants \in Grants
  /\ connection \in Grants \cup {NoGrant, NoRow}
  /\ token \in [Processes -> Tokens]
  /\ refresh \in [Processes -> RefreshState]
  /\ call \in [GoogleCalls -> CallState]
  /\ calls \in 0 .. MaxCalls
  /\ admin \in [Admins -> AdminState]
  /\ \A r \in GoogleCalls : call[r].pc # "idle" => call[r].at \in Processes
  /\ \A a \in Admins : admin[a].pc \in {"lookup", "check"} => admin[a].grant \in Grants

\* A running call c that nothing excuses, by the honoured grants, the stored one, the
\* refresh of its process and the token cached there: the stored grant is honoured, and
\* nothing is refreshed but it; before the retry the cached token is the one the call
\* was sent with or the connection's, and at the retry it is the connection's.
Present(tok, stored) == tok = NoToken \/ tok.of = stored

Undisturbed(c, honoured, stored, ref, tok) ==
  /\ c.pc # "failed"
  /\ stored \in honoured
  /\ ref.grant \in {NoGrant, stored}
  /\ c.retried /\ c.pc = "send" => c.token.of = stored
  /\ c.retried /\ c.pc \in {"token", "wait"} => Present(tok, stored)
  /\ ~c.retried /\ c.pc = "send" => tok = c.token \/ Present(tok, stored)

Free(c) == c.pc # "idle" /\ ~c.excused
Served ==
  \A r \in GoogleCalls :
    Free(call[r]) =>
      Undisturbed(call[r], granted, connection, refresh[call[r].at], token[call[r].at])

GoogleInv == GoogleTypes /\ Served

-----------------------------------------------------------------------------
(* One syncer, whose inserts are answered truthfully. Then every event is  *)
(* the one of its class or is queued, before the queue is emptied as well  *)
(* as after: what a sync is about to publish is so already, and what it    *)
(* has deleted nobody publishes again.                                     *)

Alone == (\A s, u \in Syncers : s = u) /\ "retried" \notin FaultKinds

\* The event a class has or gets, or one that is to go.
Tracked(e) == \/ rows[e[2]].live /\ ClassEventId(e[2], rows[e[2]]) = e
              \/ Queued(e)

EventsOK ==
  \A e \in DOMAIN events : Booked(e[2]) /\ e[3] <= rows[e[2]].seq /\ Tracked(e)

\* What a sync is about to publish.
AnnouncesTracked(t) ==
  /\ job[t] \in SyncJob /\ job[t].pc \in {"connect"} \cup Upserting
  /\ OnCalendarRow(job[t].row)
  => Tracked(Target(t))

\* No event is newer than the copy of the one syncer.
KnowsNumbers(t) ==
  job[t] \in SyncJob =>
    \A e \in DOMAIN events : e[2] = job[t].class => e[3] <= job[t].row.seq

\* The event of the copy is the class's, or the class has a new number.
KnowsEvent(t) ==
  job[t] \in SyncJob /\ job[t].row.event \notin {NoEvent, rows[job[t].class].event} =>
    job[t].row.seq < rows[job[t].class].seq

\* A lesson that shows as synced has not been booked again since it was loaded.
KnowsRevision(t) ==
  job[t] \in SyncJob =>
    (OnCalendar(job[t].class) /\ rows[job[t].class].sync = "ok" =>
       job[t].row.revision = rows[job[t].class].revision)

\* What is about to be reported is on the calendar.
ReportsTrue(t) ==
  /\ t \in current /\ job[t].pc \in Done /\ ~job[t].failed /\ OnCalendarRow(job[t].row)
  /\ Target(t)[3] = job[t].row.seq
  => Target(t) \in DOMAIN events /\ events[Target(t)] = job[t].row.revision

\* What is worked on is queued, and what has been deleted is gone.
WorksQueue(t) ==
  job[t].pc \in Deleting =>
    /\ \A d \in job[t].todo : \E o \in deletions : o.id = d.id /\ o.event = d.event
    /\ \A d, o \in job[t].todo : d.id = o.id => d = o
    /\ job[t].pc = "complete" =>
         \A d \in job[t].todo :
           (\A o \in job[t].todo : d.id <= o.id) => d.event \notin DOMAIN events

Works(t) ==
  /\ AnnouncesTracked(t) /\ KnowsNumbers(t) /\ KnowsEvent(t) /\ KnowsRevision(t)
  /\ ReportsTrue(t) /\ WorksQueue(t)

Sole == EventsOK /\ OkMeansPublished /\ \A t \in Syncers : Works(t)

-----------------------------------------------------------------------------
LEMMA InitSole == Init => Sole
<1> SUFFICES ASSUME Init PROVE Sole
  OBVIOUS
<1>1. /\ \A c \in Classes : rows[c] = Unbooked
      /\ DOMAIN events = {} /\ current = {} /\ \A t \in Syncers : job[t] = Idle
  BY DEF Init
<1>2. EventsOK /\ OkMeansPublished
  BY <1>1 DEF EventsOK, OkMeansPublished, OnCalendar, Booked
<1>3. ASSUME NEW t \in Syncers PROVE Works(t)
  BY <1>1, IdleHolds DEF Works, AnnouncesTracked, KnowsNumbers, KnowsEvent, KnowsRevision, ReportsTrue,
    WorksQueue, Idle, Deleting
<1> QED BY <1>2, <1>3 DEF Sole

\* An event that can be on a calendar is a class's.
LEMMA EventIs ==
  ASSUME Inductive, NEW e \in EventId
  PROVE  /\ e[1] \in Calendars /\ e[1] # NoCalendar /\ e[2] \in Classes /\ e[3] \in Nat
         /\ e = <<e[1], e[2], e[3]>>
BY CalendarAssumption DEF EventId, Seq0

\* The event a sync is about.
LEMMA TargetIs ==
  ASSUME Inductive, NEW t \in Syncers, job[t] \in SyncJob, OnCalendarRow(job[t].row)
  PROVE  /\ Target(t) \in EventId /\ Target(t)[1] = job[t].row.cal /\ Target(t)[2] = job[t].class
         /\ Target(t)[3] \in Nat /\ Target(t)[3] <= job[t].row.seq
         /\ Target(t) = <<job[t].row.cal, job[t].class, Target(t)[3]>>
         /\ Target(t)[3] = IF job[t].row.event # NoEvent THEN job[t].row.event ELSE job[t].row.seq
         /\ job[t].row.seq \in Nat
<1>1. job[t].row \in Row /\ Sound(job[t].row) /\ job[t].class \in Classes
  BY SyncIs DEF SyncHolds
<1>2. job[t].row.cal \in Calendars
  BY <1>1 DEF Row, OnCalendarRow
<1>3. /\ Target(t)[3] \in Seq0 /\ Target(t)[3] <= job[t].row.seq
      /\ Target(t)[1] = job[t].row.cal /\ Target(t)[2] = job[t].class
      /\ Target(t) = <<job[t].row.cal, job[t].class, Target(t)[3]>>
      /\ Target(t)[3] = IF job[t].row.event # NoEvent THEN job[t].row.event ELSE job[t].row.seq
      /\ job[t].row.seq \in Nat
  BY <1>1, NumberIs DEF Target
<1> HIDE DEF Target
<1>4. Target(t) \in EventId
  BY <1>1, <1>2, <1>3 DEF EventId
<1>5. Target(t)[3] \in Nat
  BY <1>3 DEF Seq0
<1> QED BY <1>3, <1>4, <1>5

\* A transaction leaves no event behind.
LEMMA TrackedStays ==
  ASSUME Inductive, NEW c \in Classes, Booked(c), NEW new \in Row,
         rows' = [rows EXCEPT ![c] = new], deletions \subseteq deletions',
         \/ \E d \in deletions' : d.event = ClassEventId(c, rows[c])
         \/ /\ new.seq = rows[c].seq /\ new.event = rows[c].event
            /\ OnCalendarRow(rows[c]) => OnCalendarRow(new) /\ new.cal = rows[c].cal,
         NEW e \in EventId, Tracked(e)
  PROVE  Tracked(e)'
<1>1. /\ rows'[c] = new /\ \A b \in Classes \ {c} : rows'[b] = rows[b]
  BY DEF Inductive, RowsOK
<1>2. e[1] # NoCalendar /\ e[2] \in Classes
  BY EventIs
<1>3. CASE Queued(e)
  BY <1>3 DEF Tracked, Queued
<1>4. CASE e[2] # c /\ ~Queued(e)
  BY <1>1, <1>2, <1>4 DEF Tracked
<1>5. CASE e[2] = c /\ ~Queued(e)
  <2>1. rows[c].live /\ ClassEventId(c, rows[c]) = e
    BY <1>5 DEF Tracked
  <2>2. rows[c].cal = e[1]
    BY <2>1 DEF ClassEventId
  <2>3. CASE \E d \in deletions' : d.event = ClassEventId(c, rows[c])
    <3>1. Queued(e)'
      BY <2>1, <2>3 DEF Queued
    <3> QED BY <3>1 DEF Tracked
  <2>4. CASE /\ new.seq = rows[c].seq /\ new.event = rows[c].event
             /\ OnCalendarRow(new) /\ new.cal = rows[c].cal
    <3>1. new.live /\ ClassEventId(c, new) = e
      BY <2>1, <2>4 DEF ClassEventId, OnCalendarRow
    <3> QED BY <1>1, <1>5, <3>1 DEF Tracked, ClassEventId
  <2> QED BY <1>2, <2>1, <2>2, <2>3, <2>4 DEF OnCalendarRow
<1> QED BY <1>3, <1>4, <1>5

\* What a transaction does to what the syncer knows: it gives a new number with the
\* event it drops, and a lesson on a calendar is not ok any more.
LEMMA TransactionSole ==
  ASSUME Inductive, Inductive', Alone, Sole, NEW c \in Classes, NEW new \in Row,
         rows' = [rows EXCEPT ![c] = new], deletions \subseteq deletions',
         UNCHANGED <<events, job>>, current' \subseteq current,
         \A t \in current' : job[t].class # c,
         OnCalendarRow(new) /\ new.sync = "ok" => new = rows[c],
         Booked(c) =>
           \/ /\ \E d \in deletions' : d.event = ClassEventId(c, rows[c])
              /\ rows[c].seq < new.seq
           \/ /\ new.seq = rows[c].seq /\ new.event = rows[c].event
              /\ OnCalendarRow(rows[c]) => OnCalendarRow(new) /\ new.cal = rows[c].cal
  PROVE  Sole'
<1>1. /\ rows'[c] = new /\ \A b \in Classes \ {c} : rows'[b] = rows[b]
      /\ new # Unbooked
  BY UnbookedIsNoRow DEF Inductive, RowsOK
<1>2. Booked(c) => rows[c] \in Row /\ rows[c].seq \in Nat /\ new.seq \in Nat
  BY BookedIs DEF Row, Seq0
<1>3. \A e \in DOMAIN events : e \in EventId
  BY EventsTyped
<1>4. EventsOK'
  <2> SUFFICES ASSUME NEW e \in DOMAIN events
               PROVE  Booked(e[2])' /\ e[3] <= rows'[e[2]].seq /\ Tracked(e)'
    BY DEF EventsOK
  <2>1. Booked(e[2]) /\ e[3] <= rows[e[2]].seq /\ Tracked(e)
    BY DEF Sole, EventsOK
  <2>2. e \in EventId /\ e[2] \in Classes /\ e[3] \in Nat
    BY <1>3, EventIs
  <2>3. CASE e[2] = c
    <3>1. Tracked(e)'
      BY <2>1, <2>2, <2>3, TrackedStays
    <3>2. e[3] <= new.seq
      BY <1>2, <2>1, <2>2, <2>3
    <3> QED BY <1>1, <2>3, <3>1, <3>2 DEF Booked
  <2>4. CASE e[2] # c
    BY <1>1, <2>1, <2>2, <2>4 DEF Booked, Tracked, Queued
  <2> QED BY <2>3, <2>4
<1>5. OkMeansPublished'
  <2> SUFFICES ASSUME NEW b \in Classes, OnCalendar(b)', rows'[b].sync = "ok",
                      rows'[b].event = rows'[b].seq
               PROVE  /\ ClassEventId(b, rows'[b]) \in DOMAIN events
                      /\ events[ClassEventId(b, rows'[b])] = rows'[b].revision
    BY DEF OkMeansPublished, ClassEventId
  <2>1. rows'[b] = rows[b]
    BY <1>1 DEF OnCalendar, OnCalendarRow
  <2> QED BY <2>1 DEF Sole, OkMeansPublished, OnCalendar, Booked
<1>6. ASSUME NEW t \in Syncers PROVE Works(t)'
  <2>0. Works(t)
    BY DEF Sole
  <2>1. job[t] \in SyncJob => job[t].class \in Classes /\ Booked(job[t].class)
    BY SyncIs, Shape DEF JobHolds
  <2>2. AnnouncesTracked(t)'
    <3> SUFFICES ASSUME job[t] \in SyncJob, job[t].pc \in {"connect"} \cup Upserting,
                        OnCalendarRow(job[t].row)
                 PROVE  Tracked(Target(t))'
      BY DEF AnnouncesTracked, Target, ClassEventId
    <3>1. Tracked(Target(t))
      BY <2>0 DEF Works, AnnouncesTracked
    <3>2. Target(t) \in EventId /\ Target(t)[2] = job[t].class
      BY TargetIs
    <3>3. Target(t)' = Target(t)
      BY DEF Target, ClassEventId
    <3>4. CASE job[t].class = c
      <4> DEFINE e == Target(t)
      <4> HIDE DEF e
      <4>1. Tracked(e) /\ e \in EventId
        BY <3>1, <3>2 DEF e
      <4>2. PICK o \in EventId : o = Target(t)
        BY <3>2
      <4>3. Tracked(o)
        BY <3>1, <4>2
      <4>4. Tracked(o)'
        BY <2>1, <3>4, <4>3, TrackedStays
      <4> QED BY <3>3, <4>2, <4>4 DEF Tracked, Queued
    <3>5. CASE job[t].class # c
      BY <1>1, <2>1, <3>1, <3>2, <3>3, <3>5 DEF Tracked, Queued
    <3> QED BY <3>4, <3>5
  <2>3. KnowsNumbers(t)'
    BY <2>0 DEF Works, KnowsNumbers
  <2>4. KnowsEvent(t)'
    <3> SUFFICES ASSUME job[t] \in SyncJob,
                        job[t].row.event \notin {NoEvent, rows'[job[t].class].event}
                 PROVE  job[t].row.seq < rows'[job[t].class].seq
      BY DEF KnowsEvent, NoEvent
    <3>1. /\ job[t].row.seq <= rows[job[t].class].seq /\ job[t].row.seq \in Nat
          /\ job[t].class \in Classes /\ Booked(job[t].class)
      BY <2>1, SyncIs DEF SyncHolds, Follows, Row, Seq0
    <3>2. job[t].row.event # rows[job[t].class].event =>
            job[t].row.seq < rows[job[t].class].seq
      BY <2>0 DEF Works, KnowsEvent
    <3>3. CASE job[t].class = c
      BY <1>1, <1>2, <3>1, <3>2, <3>3
    <3>4. CASE job[t].class # c
      BY <1>1, <3>1, <3>2, <3>4
    <3> QED BY <3>3, <3>4
  <2>5. KnowsRevision(t)'
    <3> SUFFICES ASSUME job[t] \in SyncJob, OnCalendar(job[t].class)',
                        rows'[job[t].class].sync = "ok"
                 PROVE  job[t].row.revision = rows'[job[t].class].revision
      BY DEF KnowsRevision
    <3>1. rows'[job[t].class] = rows[job[t].class]
      BY <1>1, <2>1 DEF OnCalendar, OnCalendarRow
    <3> QED BY <2>0, <3>1 DEF Works, KnowsRevision, OnCalendar, Booked
  <2>6. ReportsTrue(t)'
    BY <2>0 DEF Works, ReportsTrue, Target, ClassEventId, NoEvent
  <2>7. WorksQueue(t)'
    BY <2>0 DEF Works, WorksQueue
  <2> QED BY <2>2, <2>3, <2>4, <2>5, <2>6, <2>7 DEF Works
<1> QED BY <1>4, <1>5, <1>6 DEF Sole

\* The row a transaction writes.
LEMMA WrittenIs ==
  ASSUME Inductive, Inductive', NEW c \in Classes, NEW new,
         rows' = [rows EXCEPT ![c] = new], new # Unbooked
  PROVE  new \in Row /\ rows'[c] = new
BY DEF Inductive, RowsOK

LEMMA QueueGrows ==
  ASSUME NEW e, Queue(e)
  PROVE  deletions \subseteq deletions' /\ \E d \in deletions' : d.event = e
<1>1. CASE Queued(e)
  BY <1>1 DEF Queue, Queued
<1>2. CASE ~Queued(e)
  <2> DEFINE new == [id |-> FreshId, event |-> e, attempts |-> 0]
  <2>1. deletions' = deletions \cup {new}
    BY <1>2 DEF Queue
  <2>2. new.event = e
    OBVIOUS
  <2> HIDE DEF new
  <2> QED BY <2>1, <2>2
<1> QED BY <1>1, <1>2

LEMMA BookingSole ==
  ASSUME Inductive, Inductive', Alone, Sole, NEW c \in Classes, Booking(c)
  PROVE  Sole'
<1> DEFINE row == rows[c]
           drop == row.cal # NoCalendar
<1>1. /\ UNCHANGED <<events, job>>
      /\ Booked(c) => row \in Row /\ row.seq \in Nat /\ Sound(row)
      /\ rows \in [Classes -> Row \cup {Unbooked}]
  <2>1. UNCHANGED <<events, job>>
    BY DEF Booking, Book, Rebook, Cancel, Restore, SetStatus, Request
  <2>2. Booked(c) => row \in Row /\ Sound(row)
    BY BookedIs DEF Inductive, RowsOK
  <2> QED BY <2>1, <2>2 DEF Inductive, RowsOK, Row, Seq0
<1>2. ASSUME NEW cal \in Calendars \cup {NoCalendar}, Book(c, cal) PROVE Sole'
  <2> DEFINE new == [live |-> TRUE, cal |-> cal, event |-> NoEvent, seq |-> 0,
                     sync |-> IF cal = NoCalendar THEN "ok" ELSE "pending",
                     attempts |-> 0, revision |-> requests']
  <2>1. ~Booked(c) /\ rows' = [rows EXCEPT ![c] = new] /\ UNCHANGED <<deletions, current>>
    BY <1>2 DEF Book
  <2>2. new # Unbooked
    BY DEF Unbooked
  <2>3. ~(OnCalendarRow(new) /\ new.sync = "ok")
    BY DEF OnCalendarRow
  <2> HIDE DEF new
  <2>4. new \in Row
    BY <2>1, <2>2, WrittenIs
  <2>5. \A t \in current' : job[t].class # c
    BY <2>1 DEF Inductive, TypeOK
  <2> QED BY <1>1, <2>1, <2>3, <2>4, <2>5, TransactionSole
<1>3. ASSUME NEW cal \in Calendars \cup {NoCalendar}, Rebook(c, cal) PROVE Sole'
  <2> DEFINE moves == row.cal # NoCalendar /\ row.cal # cal
             same == [row EXCEPT !.revision = requests']
             new == IF cal = NoCalendar THEN same
                    ELSE [same EXCEPT !.cal = cal,
                                      !.event = IF moves THEN NoEvent ELSE @,
                                      !.seq = IF moves THEN @ + 1 ELSE @,
                                      !.sync = "pending",
                                      !.attempts = 0]
  <2>1. /\ Booked(c) /\ row.live /\ (row.cal = NoCalendar <=> cal = NoCalendar)
        /\ IF moves THEN Queue(ClassEventId(c, row)) ELSE UNCHANGED deletions
        /\ rows' = [rows EXCEPT ![c] = new] /\ Touch(c)
    BY <1>3 DEF Rebook
  <2>2. /\ same.live = row.live /\ same.cal = row.cal /\ same.seq = row.seq
        /\ same.event = row.event /\ same.sync = row.sync /\ DOMAIN same = DOMAIN row
    BY <1>1, <2>1 DEF Row
  <2>3. DOMAIN row = {"live", "cal", "event", "seq", "sync", "attempts", "revision"}
    BY <1>1, <2>1 DEF Row
  <2> HIDE DEF same
  <2>4. /\ new.live /\ new.cal = cal
        /\ new.seq = (IF moves THEN row.seq + 1 ELSE row.seq)
        /\ ~moves => new.event = row.event
        /\ cal # NoCalendar => new.sync = "pending"
        /\ DOMAIN new = DOMAIN row
    BY <2>1, <2>2, <2>3
  <2>5. new # Unbooked
    BY <2>3, <2>4 DEF Unbooked
  <2> HIDE DEF new
  <2>6. new \in Row
    BY <2>1, <2>5, WrittenIs
  <2>7. deletions \subseteq deletions' /\ (moves => \E d \in deletions' : d.event = ClassEventId(c, row))
    BY <2>1, QueueGrows
  <2>8. current' \subseteq current /\ \A t \in current' : job[t].class # c
    BY <2>1 DEF Touch
  <2>9. OnCalendarRow(new) /\ new.sync = "ok" => new = rows[c]
    BY <2>4 DEF OnCalendarRow
  <2>10. \/ /\ \E d \in deletions' : d.event = ClassEventId(c, rows[c])
            /\ rows[c].seq < new.seq
         \/ /\ new.seq = rows[c].seq /\ new.event = rows[c].event
            /\ OnCalendarRow(rows[c]) => OnCalendarRow(new) /\ new.cal = rows[c].cal
    <3>1. CASE moves
      BY <1>1, <2>1, <2>4, <2>7, <3>1
    <3>2. CASE ~moves
      BY <2>1, <2>4, <3>2 DEF OnCalendarRow
    <3> QED BY <3>1, <3>2
  <2> QED BY <1>1, <2>1, <2>6, <2>7, <2>8, <2>9, <2>10, TransactionSole
<1>4. ASSUME Cancel(c) PROVE Sole'
  <2> DEFINE new == [row EXCEPT !.live = FALSE,
                                !.event = NoEvent,
                                !.seq = IF drop THEN @ + 1 ELSE @,
                                !.sync = IF drop THEN "pending" ELSE "ok",
                                !.attempts = 0]
  <2>1. /\ Booked(c) /\ row.live
        /\ IF drop THEN Queue(ClassEventId(c, row)) ELSE UNCHANGED deletions
        /\ rows' = [rows EXCEPT ![c] = new] /\ Touch(c)
    BY <1>4 DEF Cancel
  <2>2. DOMAIN row = {"live", "cal", "event", "seq", "sync", "attempts", "revision"}
    BY <1>1, <2>1 DEF Row
  <2>3. /\ ~new.live /\ new.event = NoEvent
        /\ new.seq = (IF drop THEN row.seq + 1 ELSE row.seq)
        /\ DOMAIN new = DOMAIN row
    BY <2>2
  <2>4. new # Unbooked
    BY <2>2, <2>3 DEF Unbooked
  <2> HIDE DEF new
  <2>5. new \in Row
    BY <2>1, <2>4, WrittenIs
  <2>6. deletions \subseteq deletions' /\ (drop => \E d \in deletions' : d.event = ClassEventId(c, row))
    BY <2>1, QueueGrows
  <2>7. current' \subseteq current /\ \A t \in current' : job[t].class # c
    BY <2>1 DEF Touch
  <2>8. ~drop => row.event = NoEvent
    BY <1>1, <2>1 DEF Sound
  <2>9. ~(OnCalendarRow(new) /\ new.sync = "ok")
    BY <2>3 DEF OnCalendarRow
  <2>10. \/ /\ \E d \in deletions' : d.event = ClassEventId(c, rows[c])
            /\ rows[c].seq < new.seq
         \/ /\ new.seq = rows[c].seq /\ new.event = rows[c].event
            /\ OnCalendarRow(rows[c]) => OnCalendarRow(new) /\ new.cal = rows[c].cal
    <3>1. CASE drop
      BY <1>1, <2>1, <2>3, <2>6, <3>1
    <3>2. CASE ~drop
      BY <2>3, <2>8, <3>2 DEF OnCalendarRow
    <3> QED BY <3>1, <3>2
  <2> QED BY <1>1, <2>1, <2>5, <2>6, <2>7, <2>9, <2>10, TransactionSole
<1>5. ASSUME Restore(c) PROVE Sole'
  <2> DEFINE new == [row EXCEPT !.live = TRUE,
                                !.sync = IF row.cal = NoCalendar THEN "ok" ELSE "pending",
                                !.attempts = 0]
  <2>1. /\ Booked(c) /\ ~row.live /\ UNCHANGED deletions
        /\ rows' = [rows EXCEPT ![c] = new] /\ Touch(c)
    BY <1>5 DEF Restore
  <2>2. DOMAIN row = {"live", "cal", "event", "seq", "sync", "attempts", "revision"}
    BY <1>1, <2>1 DEF Row
  <2>3. /\ new.cal = row.cal /\ new.event = row.event /\ new.seq = row.seq
        /\ new.sync = (IF drop THEN "pending" ELSE "ok")
        /\ DOMAIN new = DOMAIN row
    BY <2>2
  <2>4. new # Unbooked
    BY <2>2, <2>3 DEF Unbooked
  <2> HIDE DEF new
  <2>5. new \in Row
    BY <2>1, <2>4, WrittenIs
  <2>7. current' \subseteq current /\ \A t \in current' : job[t].class # c
    BY <2>1 DEF Touch
  <2>9. ~(OnCalendarRow(new) /\ new.sync = "ok")
    BY <2>3 DEF OnCalendarRow
  <2>10. /\ new.seq = rows[c].seq /\ new.event = rows[c].event
         /\ ~OnCalendarRow(rows[c])
    BY <2>1, <2>3 DEF OnCalendarRow
  <2> QED BY <1>1, <2>1, <2>5, <2>7, <2>9, <2>10, TransactionSole
<1>6. ASSUME SetStatus(c) PROVE Sole'
  <2>1. Booked(c) /\ UNCHANGED <<rows, deletions>> /\ Touch(c)
    BY <1>6 DEF SetStatus
  <2>2. rows' = [rows EXCEPT ![c] = row] /\ row \in Row
    BY <1>1, <2>1
  <2>3. current' \subseteq current /\ \A t \in current' : job[t].class # c
    BY <2>1 DEF Touch
  <2> QED BY <1>1, <2>1, <2>2, <2>3, TransactionSole
<1> QED BY <1>2, <1>3, <1>4, <1>5, <1>6 DEF Booking

\* A step of the one syncer that publishes and removes nothing leaves the events as
\* they are.
LEMMA CalmSole ==
  ASSUME Inductive, Inductive', Alone, Sole, NEW t \in Syncers, NEW j,
         job' = [job EXCEPT ![t] = j],
         UNCHANGED <<rows, events>>, \A e : Queued(e) /\ e \in DOMAIN events => Queued(e)',
         j \in SyncJob =>
           /\ job[t] \in SyncJob /\ j.class = job[t].class /\ j.row = job[t].row
           /\ j.pc \in {"connect"} \cup Upserting =>
                job[t].pc \in {"connect"} \cup Upserting /\ deletions' = deletions,
         ReportsTrue(t)', WorksQueue(t)'
  PROVE  Sole'
<1>1. job'[t] = j /\ \A u \in Syncers : u = t
  BY DEF Inductive, JobsOK, Alone
<1>2. EventsOK' /\ OkMeansPublished'
  BY DEF Sole, EventsOK, OkMeansPublished, OnCalendar, Booked, Tracked
<1>3. Works(t)
  BY DEF Sole
<1>4. AnnouncesTracked(t)'
  <2> SUFFICES ASSUME j \in SyncJob, j.pc \in {"connect"} \cup Upserting, OnCalendarRow(j.row)
               PROVE  Tracked(Target(t))'
    BY <1>1 DEF AnnouncesTracked, Target, ClassEventId
  <2>1. Tracked(Target(t)) /\ deletions' = deletions
    BY <1>3 DEF Works, AnnouncesTracked
  <2>2. Target(t)' = Target(t)
    BY <1>1 DEF Target, ClassEventId, NoEvent
  <2> QED BY <2>1, <2>2 DEF Tracked, Queued
<1>5. KnowsNumbers(t)' /\ KnowsEvent(t)' /\ KnowsRevision(t)'
  BY <1>1, <1>3 DEF Works, KnowsNumbers, KnowsEvent, KnowsRevision, NoEvent, OnCalendar, Booked
<1>6. \A u \in Syncers : Works(u)'
  BY <1>1, <1>4, <1>5 DEF Works
<1> QED BY <1>2, <1>6 DEF Sole

\* A syncer that starts, stops or loads nothing.
LEMMA RestsSole ==
  ASSUME Inductive, Inductive', Alone, Sole, NEW t \in Syncers,
         \/ \E c \in Classes : StartWorker(t, c)
         \/ \E c \in Classes, only \in BOOLEAN : StartApi(t, c, only)
         \/ LoadFails(t) \/ FinishFails(t) \/ Crash(t)
  PROVE  Sole'
<1>1. PICK j \in {Idle} \cup LoadJob : job' = [job EXCEPT ![t] = j]
  BY DEF StartWorker, StartApi, LoadFails, FinishFails, Crash, Become, LoadJob
<1>2. UNCHANGED <<rows, events, deletions>>
  BY DEF StartWorker, StartApi, LoadFails, FinishFails, Crash
<1>3. j \notin SyncJob /\ j.pc \notin Done \cup Deleting
  BY IdleHolds DEF LoadJob, SyncJob, Upserting, Done, Deleting, Idle
<1>4. job'[t] = j
  BY <1>1 DEF Inductive, JobsOK
<1>5. ReportsTrue(t)' /\ WorksQueue(t)'
  BY <1>3, <1>4 DEF ReportsTrue, WorksQueue
<1> QED BY <1>1, <1>2, <1>3, <1>5, CalmSole DEF Queued

LEMMA StartQueueSole ==
  ASSUME Inductive, Inductive', Alone, Sole, NEW t \in Syncers, StartQueue(t)
  PROVE  Sole'
<1>1. PICK due \in SUBSET deletions :
        due # {} /\ Become(t, [pc |-> "delete", class |-> NoCalendar, todo |-> due])
  BY DEF StartQueue
<1> DEFINE j == [pc |-> "delete", class |-> NoCalendar, todo |-> due]
<1>2. job[t] = Idle /\ UNCHANGED <<rows, deletions, events, current, requests, faults>>
  BY DEF StartQueue
<1>3. job' = [job EXCEPT ![t] = j] /\ job'[t] = j
  BY <1>1 DEF Become, Inductive, JobsOK
<1>4. j \notin SyncJob /\ t \notin current
  BY <1>2, CalendarAssumption, IdleHolds, NotCurrent DEF SyncJob
<1>5. WorksQueue(t)'
  BY <1>2, <1>3 DEF WorksQueue, Inductive, TypeOK
<1>6. ReportsTrue(t)'
  BY <1>2, <1>4 DEF ReportsTrue
<1> HIDE DEF j
<1> QED BY <1>2, <1>3, <1>4, <1>5, <1>6, CalmSole DEF Queued

\* A copy of the row knows what the row knows.
LEMMA LoadSole ==
  ASSUME Inductive, Inductive', Alone, Sole, NEW t \in Syncers, Load(t)
  PROVE  Sole'
<1> DEFINE c == job[t].class
           full == [pc |-> "connect", class |-> c, row |-> rows[c],
                    event |-> NoEvent, failed |-> FALSE, todo |-> {}]
<1>1. job[t] \in LoadJob /\ UNCHANGED <<rows, deletions, events>>
  BY Shape DEF Load
<1>2. CASE job' = [job EXCEPT ![t] = Idle]
  <2>1. job'[t] = Idle
    BY <1>2 DEF Inductive, JobsOK
  <2>2. ReportsTrue(t)' /\ WorksQueue(t)'
    BY <2>1 DEF ReportsTrue, WorksQueue, Idle, Done, Deleting
  <2> QED BY <1>1, <1>2, <2>2, IdleHolds, CalmSole DEF Queued
<1>3. CASE job' = [job EXCEPT ![t] = full]
  <2>1. job'[t] = full /\ \A u \in Syncers : u = t
    BY <1>3 DEF Inductive, JobsOK, Alone
  <2>2. c \in Classes /\ Booked(c)
    BY <1>1, Shape DEF LoadJob, JobHolds
  <2>3. EventsOK' /\ OkMeansPublished'
    BY <1>1 DEF Sole, EventsOK, OkMeansPublished, OnCalendar, Booked, Tracked, Queued
  <2>4. AnnouncesTracked(t)'
    <3>1. Target(t)' = ClassEventId(c, rows[c]) /\ Target(t)'[2] = c
      BY <1>1, <2>1 DEF Target, ClassEventId
    <3> QED BY <1>1, <2>1, <3>1 DEF AnnouncesTracked, Tracked, OnCalendarRow, ClassEventId
  <2>5. KnowsNumbers(t)' /\ KnowsEvent(t)' /\ KnowsRevision(t)'
    BY <1>1, <2>1 DEF KnowsNumbers, KnowsEvent, KnowsRevision, Sole, EventsOK
  <2>6. ReportsTrue(t)' /\ WorksQueue(t)'
    BY <2>1 DEF ReportsTrue, WorksQueue, Done, Deleting
  <2> QED BY <2>1, <2>3, <2>4, <2>5, <2>6 DEF Sole, Works
<1> QED BY <1>2, <1>3 DEF Load, Become

LEMMA ConnectSole ==
  ASSUME Inductive, Inductive', Alone, Sole, NEW t \in Syncers, Connect(t) \/ Offline(t)
  PROVE  Sole'
<1> DEFINE row == job[t].row
           next == IF ~row.live \/ row.cal = NoCalendar THEN "queue"
                   ELSE IF row.event # NoEvent THEN "patch" ELSE "insert"
<1>1. /\ job[t].pc = "connect" /\ job[t] \in SyncJob /\ job \in [Syncers -> Job]
      /\ UNCHANGED <<rows, deletions, events, current>>
  BY Shape DEF Connect, Offline, Inductive, JobsOK
<1>2. next \in Upserting \cup {"queue"} /\ (next = "queue" => ~OnCalendarRow(row))
  BY DEF Upserting, OnCalendarRow
<1>3. CASE Connect(t)
  <2> DEFINE j == [job[t] EXCEPT !.pc = next]
  <2> HIDE DEF next
  <2>1. job' = [job EXCEPT ![t].pc = next]
    BY <1>3 DEF Connect, next
  <2>2. job' = [job EXCEPT ![t] = j] /\ job'[t] = j
    BY <1>1, <2>1
  <2>3. j.pc = next /\ j.class = job[t].class /\ j.row = row
    BY <1>1 DEF SyncJob
  <2> HIDE DEF j
  <2>4. ReportsTrue(t)' /\ WorksQueue(t)'
    BY <1>2, <2>2, <2>3 DEF ReportsTrue, WorksQueue, Upserting, Done, Deleting
  <2> QED BY <1>1, <2>2, <2>3, <2>4, CalmSole DEF Queued
<1>4. CASE Offline(t)
  <2> DEFINE j == [job[t] EXCEPT !.pc = "finish", !.failed = TRUE]
  <2>1. job' = [job EXCEPT ![t] = j] /\ job'[t] = j
    BY <1>1, <1>4 DEF Offline
  <2>2. j.pc = "finish" /\ j.failed /\ j.class = job[t].class /\ j.row = row
    BY <1>1 DEF SyncJob
  <2> HIDE DEF j
  <2>3. ReportsTrue(t)' /\ WorksQueue(t)'
    BY <2>1, <2>2 DEF ReportsTrue, WorksQueue, Deleting
  <2> QED BY <1>1, <2>1, <2>2, <2>3, CalmSole DEF Queued
<1> QED BY <1>3, <1>4

\* An event is published under a number that the class has, or that is queued.
LEMMA PublishSole ==
  ASSUME Inductive, Inductive', Alone, Sole, NEW t \in Syncers, job[t] \in SyncJob,
         job[t].pc \in Upserting, events' = Published(t), UNCHANGED <<rows, deletions>>,
         NEW j, job' = [job EXCEPT ![t] = j], j \in SyncJob,
         j.pc = "queue", j.row = job[t].row, j.class = job[t].class
  PROVE  Sole'
<1> DEFINE e == Target(t)
           row == job[t].row
           c == job[t].class
<1>1. /\ OnCalendarRow(row) /\ c \in Classes /\ Booked(c) /\ rows[c] \in Row
      /\ row \in Row /\ Follows(row, rows[c])
  BY SyncIs, Shape, BookedIs DEF SyncHolds, JobHolds
<1>2. /\ e \in EventId /\ e[2] = c /\ e[3] \in Nat /\ e[3] <= row.seq /\ row.seq \in Nat
  BY <1>1, TargetIs
<1>3. Works(t) /\ Tracked(e)
  BY <1>1 DEF Sole, Works, AnnouncesTracked
<1>4. /\ job'[t] = j /\ \A u \in Syncers : u = t
  BY DEF Inductive, JobsOK, Alone
<1>5. Target(t)' = e
  BY <1>4 DEF Target, ClassEventId, NoEvent
<1>t. Target(t) = e
  OBVIOUS
<1> HIDE DEF e
<1>6. /\ DOMAIN events' = DOMAIN events \cup {e} /\ events'[e] = row.revision
      /\ \A o \in DOMAIN events : o # e => events'[o] = events[o]
  BY <1>t DEF Published
<1>7. EventsOK'
  <2>1. Booked(e[2]) /\ e[3] <= rows[e[2]].seq
    BY <1>1, <1>2 DEF Follows, Row, Seq0
  <2>2. \A o : Tracked(o) => Tracked(o)'
    BY DEF Tracked, Queued
  <2> QED BY <1>3, <1>6, <2>1, <2>2 DEF Sole, EventsOK, Booked
<1>8. OkMeansPublished'
  <2> SUFFICES ASSUME NEW b \in Classes, OnCalendar(b), rows[b].sync = "ok",
                      rows[b].event = rows[b].seq, NEW o, o = ClassEventId(b, rows[b])
               PROVE  o \in DOMAIN events' /\ events'[o] = rows[b].revision
    BY DEF OkMeansPublished, OnCalendar, Booked, ClassEventId, NoEvent
  <2>1. o \in DOMAIN events /\ events[o] = rows[b].revision
    BY DEF Sole, OkMeansPublished
  <2>2. CASE o = e
    <3>1. b = c
      BY <1>2, <2>2 DEF ClassEventId
    <3> QED BY <1>3, <1>6, <2>2, <3>1 DEF Works, KnowsRevision
  <2>3. CASE o # e
    BY <1>6, <2>1, <2>3
  <2> QED BY <2>2, <2>3
<1>9. AnnouncesTracked(t)'
  BY <1>4 DEF AnnouncesTracked, Upserting
<1>10. KnowsNumbers(t)'
  BY <1>2, <1>3, <1>4, <1>6 DEF Works, KnowsNumbers
<1>11. KnowsEvent(t)' /\ KnowsRevision(t)'
  BY <1>3, <1>4 DEF Works, KnowsEvent, KnowsRevision, NoEvent, OnCalendar, Booked
<1>12. ReportsTrue(t)' /\ WorksQueue(t)'
  BY <1>4, <1>5, <1>6 DEF ReportsTrue, WorksQueue, Deleting
<1> QED BY <1>4, <1>7, <1>8, <1>9, <1>10, <1>11, <1>12 DEF Sole, Works

LEMMA UpsertSole ==
  ASSUME Inductive, Inductive', Alone, Sole, NEW t \in Syncers,
         \/ Insert(t) \/ InsertDuplicate(t) \/ InsertRetried(t)
         \/ Patch(t) \/ PatchMissing(t) \/ UpsertFails(t)
  PROVE  Sole'
<1>1. /\ job[t].pc \in Upserting /\ job[t] \in SyncJob /\ UNCHANGED <<rows, deletions, current>>
      /\ job \in [Syncers -> Job] /\ job' \in [Syncers -> Job]
  BY Shape DEF Insert, InsertDuplicate, InsertRetried, Patch, PatchMissing, UpsertFails, Upserting,
    Inductive, JobsOK
<1>2. ~InsertRetried(t)
  BY DEF InsertRetried, Fault, Alone
<1>3. CASE InsertDuplicate(t) \/ PatchMissing(t) \/ UpsertFails(t)
  <2> DEFINE j == job'[t]
  <2>1. /\ events' = events
        /\ \/ job' = [job EXCEPT ![t].pc = "patch"]
           \/ job' = [job EXCEPT ![t].pc = "queue", ![t].failed = TRUE]
    BY <1>3 DEF InsertDuplicate, PatchMissing, UpsertFails, Unsure
  <2>2. /\ job' = [job EXCEPT ![t] = j] /\ j.class = job[t].class /\ j.row = job[t].row
        /\ j.pc = "patch" \/ (j.pc = "queue" /\ j.failed)
    BY <1>1, <2>1 DEF SyncJob
  <2>3. ReportsTrue(t)' /\ WorksQueue(t)'
    BY <2>2 DEF ReportsTrue, WorksQueue, Done, Deleting
  <2>4. job[t].pc \in {"connect"} \cup Upserting
    BY <1>1
  <2> HIDE DEF j
  <2> QED BY <1>1, <2>1, <2>2, <2>3, <2>4, CalmSole DEF Queued
<1>4. CASE Insert(t) \/ Patch(t)
  <2> DEFINE j == job'[t]
             n == Target(t)[3]
  <2>1. /\ events' = Published(t)
        /\ \/ job' = [job EXCEPT ![t].pc = "queue", ![t].event = n]
           \/ job' = [job EXCEPT ![t].pc = "queue", ![t].failed = TRUE]
    BY <1>4 DEF Insert, Patch, Upserted, Unsure
  <2> HIDE DEF n
  <2>2. /\ job' = [job EXCEPT ![t] = j] /\ j.class = job[t].class /\ j.row = job[t].row
        /\ j.pc = "queue"
    BY <1>1, <2>1 DEF SyncJob
  <2>3. j \in SyncJob
    BY <1>1, <2>2 DEF Job, Idle, LoadJob, QueueJob, Deleting
  <2> HIDE DEF j
  <2> QED BY <1>1, <2>1, <2>2, <2>3, PublishSole
<1> QED BY <1>2, <1>3, <1>4

LEMMA LoadQueueSole ==
  ASSUME Inductive, Inductive', Alone, Sole, NEW t \in Syncers, LoadQueue(t) \/ LoadQueueFails(t)
  PROVE  Sole'
<1> DEFINE todo == {d \in deletions : d.event[2] = job[t].class}
           k == [job[t] EXCEPT !.pc = "finish", !.todo = {}]
           l == [job[t] EXCEPT !.pc = "delete", !.todo = todo]
           m == [k EXCEPT !.failed = TRUE]
<1>1. /\ job[t].pc = "queue" /\ job[t] \in SyncJob /\ job[t].class # NoCalendar
      /\ UNCHANGED <<rows, deletions, events, current>>
      /\ job \in [Syncers -> Job]
  BY Shape DEF LoadQueue, LoadQueueFails, Inductive, JobsOK
<1>2. PICK j \in {k, l, m} : job' = [job EXCEPT ![t] = j]
  BY <1>1 DEF LoadQueue, LoadQueueFails, Become, AfterQueue
<1>3. /\ job'[t] = j /\ j.class = job[t].class /\ j.row = job[t].row
      /\ job[t].failed => j.failed
      /\ j.pc = "finish" \/ (j.pc = "delete" /\ j.todo = todo)
  <2> HIDE DEF todo
  <2>1. k.class = job[t].class /\ k.row = job[t].row /\ k.failed = job[t].failed /\ k.pc = "finish"
    BY <1>1 DEF SyncJob
  <2>2. /\ l.class = job[t].class /\ l.row = job[t].row /\ l.failed = job[t].failed
        /\ l.pc = "delete" /\ l.todo = todo
    BY <1>1 DEF SyncJob
  <2>3. m.class = job[t].class /\ m.row = job[t].row /\ m.failed /\ m.pc = "finish"
    BY <1>1 DEF SyncJob
  <2> HIDE DEF k, l, m
  <2> QED BY <1>1, <1>2, <2>1, <2>2, <2>3
<1> HIDE DEF todo, k, l, m
<1>4. ReportsTrue(t)'
  <2>1. ReportsTrue(t) /\ job[t].pc \in Done
    BY <1>1 DEF Sole, Works, Done
  <2>2. Target(t)' = Target(t)
    BY <1>3 DEF Target, ClassEventId, NoEvent
  <2> QED BY <1>1, <1>3, <2>1, <2>2 DEF ReportsTrue
<1>5. WorksQueue(t)'
  <2>1. \A d, o \in deletions : d.id = o.id => d = o
    BY DEF Inductive, TypeOK
  <2> QED BY <1>1, <1>3, <2>1 DEF WorksQueue, Deleting, todo
<1> QED BY <1>1, <1>2, <1>3, <1>4, <1>5, CalmSole DEF Queued, Upserting

\* A sync that works on the queue and publishes nothing: what it has to report stays
\* true while the event it is about is not deleted.
LEMMA QueueWorkSole ==
  ASSUME Inductive, Inductive', Alone, Sole, NEW t \in Syncers, job[t].pc \in Deleting,
         NEW j, Continues(t, j), job' = [job EXCEPT ![t] = j], UNCHANGED <<rows, current>>,
         UNCHANGED events, \A e : Queued(e) /\ e \in DOMAIN events => Queued(e)',
         WorksQueue(t)'
  PROVE  Sole'
<1>1. job'[t] = j
  BY DEF Inductive, JobsOK
<1>2. j \in SyncJob =>
        /\ job[t] \in SyncJob /\ j.class = job[t].class /\ j.row = job[t].row
        /\ j.pc \notin {"connect"} \cup Upserting /\ (job[t].failed => j.failed)
  <2>1. \A k \in QueueJob : k \notin SyncJob
    BY CalendarAssumption DEF QueueJob, SyncJob
  <2> QED BY <2>1, IdleHolds DEF Continues, Upserting, Deleting
<1>3. ReportsTrue(t)'
  <2> SUFFICES ASSUME t \in current', j.pc \in Done, ~j.failed, OnCalendarRow(j.row),
                      Target(t)'[3] = j.row.seq
               PROVE  Target(t)' \in DOMAIN events /\ events[Target(t)'] = j.row.revision
    BY <1>1 DEF ReportsTrue
  <2>1. j \in SyncJob
    BY <1>1 DEF Inductive, CurrentOK
  <2>2. Target(t)' = Target(t)
    BY <1>1, <1>2, <2>1 DEF Target, ClassEventId, NoEvent
  <2>3. ReportsTrue(t) /\ job[t].pc \in Done
    BY DEF Sole, Works, Done
  <2> QED BY <1>2, <2>1, <2>2, <2>3 DEF ReportsTrue
<1> QED BY <1>2, <1>3, CalmSole

LEMMA OldestWorked ==
  ASSUME Inductive, Sole, NEW t \in Syncers, job[t].pc \in Deleting
  PROVE  /\ Oldest(t) \in job[t].todo /\ \A o \in job[t].todo : Oldest(t).id <= o.id
         /\ job[t].todo \in SUBSET Deletion
         /\ \A d \in job[t].todo : d.id \in Nat /\ \E o \in deletions : o.id = d.id /\ o.event = d.event
         /\ \A d, o \in job[t].todo : d.id = o.id => d = o
         /\ job[t].pc = "complete" => Oldest(t).event \notin DOMAIN events
<1>1. job[t].todo \in SUBSET Deletion /\ job[t].todo # {}
  BY Shape DEF SyncJob, QueueJob, JobHolds
<1>2. Oldest(t) \in job[t].todo /\ \A o \in job[t].todo : Oldest(t).id <= o.id
  BY <1>1, OldestIs
<1>3. WorksQueue(t)
  BY DEF Sole, Works
<1>4. \A d \in job[t].todo : d.id \in Nat
  BY <1>1 DEF Deletion
<1> QED BY <1>1, <1>2, <1>3, <1>4 DEF WorksQueue

LEMMA FailsSole ==
  ASSUME Inductive, Inductive', Alone, Sole, NEW t \in Syncers,
         DeleteEventFails(t) \/ CompleteDeletionFails(t)
  PROVE  Sole'
<1>1. /\ job[t].pc \in Deleting /\ UNCHANGED <<rows, current, events, deletions>>
      /\ job' = [job EXCEPT ![t].pc = "fail"] /\ "fail" \in Deleting
  BY DEF DeleteEventFails, CompleteDeletionFails, Deleting
<1>2. PICK j : /\ Continues(t, j) /\ job' = [job EXCEPT ![t] = j]
               /\ j.pc = "fail" /\ j.todo = job[t].todo
  BY <1>1, StageIs
<1>3. job'[t] = j
  BY <1>2 DEF Inductive, JobsOK
<1>4. WorksQueue(t)'
  BY <1>1, <1>2, <1>3, OldestWorked DEF WorksQueue
<1> QED BY <1>1, <1>2, <1>4, QueueWorkSole DEF Queued

LEMMA FailDeletionSole ==
  ASSUME Inductive, Inductive', Alone, Sole, NEW t \in Syncers, FailDeletion(t)
  PROVE  Sole'
<1> DEFINE h == Oldest(t)
           mark(o) == IF o.id = h.id THEN [o EXCEPT !.attempts = OneMore(h.attempts)] ELSE o
<1>1. /\ job[t].pc \in Deleting /\ UNCHANGED <<rows, current, events>>
      /\ deletions' = {mark(o) : o \in deletions} \/ deletions' = deletions
  BY DEF FailDeletion, Deleting
<1>2. PICK j : /\ Continues(t, j) /\ job' = [job EXCEPT ![t] = j]
               /\ j.pc \notin {"complete", "fail"}
               /\ j.pc \in Deleting => j.todo = job[t].todo \ {Oldest(t)}
  <2>1. job[t] \in SyncJob \cup QueueJob
    BY <1>1, Shape
  <2>2. job[t].class # NoCalendar => job[t] \in SyncJob
    BY <2>1 DEF QueueJob
  <2>3. \/ NextRow(t, job[t])
        \/ job[t] \in SyncJob /\ NextRow(t, [job[t] EXCEPT !.failed = TRUE])
    BY <2>2 DEF FailDeletion
  <2> QED BY <1>1, <2>3, NextRowIs
<1>3. job'[t] = j
  BY <1>2 DEF Inductive, JobsOK
<1>4. \A o \in deletions : \E p \in deletions' : p.id = o.id /\ p.event = o.event
  <2>1. \A o \in deletions : mark(o).id = o.id /\ mark(o).event = o.event
    BY DEF Inductive, TypeOK, Deletion
  <2> HIDE DEF mark
  <2> QED BY <1>1, <2>1
<1>5. WorksQueue(t)'
  <2>1. \A d \in job[t].todo : \E o \in deletions' : o.id = d.id /\ o.event = d.event
    BY <1>1, <1>4, OldestWorked
  <2> QED BY <1>1, <1>2, <1>3, <2>1, OldestWorked DEF WorksQueue
<1>6. \A e : Queued(e) => Queued(e)'
  BY <1>4 DEF Queued
<1> QED BY <1>1, <1>2, <1>5, <1>6, QueueWorkSole

\* Only what is gone from the calendar leaves the queue.
LEMMA CompleteSole ==
  ASSUME Inductive, Inductive', Alone, Sole, NEW t \in Syncers, CompleteDeletion(t)
  PROVE  Sole'
<1> DEFINE h == Oldest(t)
<1>1. /\ job[t].pc = "complete" /\ job[t].pc \in Deleting /\ UNCHANGED <<rows, current, events>>
      /\ deletions' = {d \in deletions : d.id # h.id}
  BY DEF CompleteDeletion, Deleting
<1>2. PICK j : /\ Continues(t, j) /\ job' = [job EXCEPT ![t] = j]
               /\ j.pc \notin {"complete", "fail"}
               /\ j.pc \in Deleting => j.todo = job[t].todo \ {Oldest(t)}
  BY <1>1, NextRowIs DEF CompleteDeletion
<1>3. job'[t] = j
  BY <1>2 DEF Inductive, JobsOK
<1>4. /\ h \in job[t].todo /\ h.event \notin DOMAIN events
      /\ \E o \in deletions : o.id = h.id /\ o.event = h.event
      /\ \A d, o \in job[t].todo : d.id = o.id => d = o
  BY <1>1, OldestWorked
<1> HIDE DEF h
<1>5. \A e : Queued(e) /\ e \in DOMAIN events => Queued(e)'
  <2>1. \A d, o \in deletions : d.id = o.id => d = o
    BY DEF Inductive, TypeOK
  <2> QED BY <1>1, <1>4, <2>1 DEF Queued
<1>6. WorksQueue(t)'
  <2>1. ASSUME NEW d \in job[t].todo \ {h} PROVE \E o \in deletions' : o.id = d.id /\ o.event = d.event
    <3>1. d.id # h.id
      BY <1>4
    <3> QED BY <1>1, <3>1, OldestWorked
  <2> QED BY <1>2, <1>3, <1>4, <2>1 DEF WorksQueue, h
<1> QED BY <1>1, <1>2, <1>5, <1>6, QueueWorkSole

\* No event of a lesson that shows as synced, or is about to, is deleted.
LEMMA DeleteEventSole ==
  ASSUME Inductive, Inductive', Alone, Sole, NEW t \in Syncers, DeleteEvent(t)
  PROVE  Sole'
<1> DEFINE h == Oldest(t)
<1>1. /\ job[t].pc \in Deleting /\ UNCHANGED <<rows, current, deletions>>
      /\ events' = [e \in DOMAIN events \ {h.event} |-> events[e]]
      /\ job' = [job EXCEPT ![t].pc = "complete"] \/ job' = [job EXCEPT ![t].pc = "fail"]
  BY DEF DeleteEvent, Deleting
<1>2. PICK j : /\ Continues(t, j) /\ job' = [job EXCEPT ![t] = j]
               /\ j.pc \in {"complete", "fail"} /\ j.todo = job[t].todo
  BY <1>1, StageIs DEF Deleting
<1>3. /\ job'[t] = j /\ \A u \in Syncers : u = t
  BY <1>2 DEF Inductive, JobsOK, Alone
<1>4. /\ h \in job[t].todo /\ Queued(h.event) /\ \A o \in job[t].todo : h.id <= o.id
      /\ \A d \in job[t].todo : d.id \in Nat
      /\ \A d, o \in job[t].todo : d.id = o.id => d = o
  BY <1>1, OldestWorked DEF Queued
<1> HIDE DEF h
<1>5. /\ DOMAIN events' = DOMAIN events \ {h.event}
      /\ \A e \in DOMAIN events' : events'[e] = events[e]
  BY <1>1
<1>6. EventsOK'
  BY <1>1, <1>5 DEF Sole, EventsOK, Booked, Tracked, Queued
<1>7. PresentEventNotQueued
  BY NoPresentEventQueued
<1>8. OkMeansPublished'
  <2> SUFFICES ASSUME NEW b \in Classes, OnCalendar(b), rows[b].sync = "ok",
                      rows[b].event = rows[b].seq, NEW o, o = ClassEventId(b, rows[b])
               PROVE  o \in DOMAIN events' /\ events'[o] = rows[b].revision
    BY <1>1 DEF OkMeansPublished, OnCalendar, Booked, ClassEventId, NoEvent
  <2>1. o \in DOMAIN events /\ events[o] = rows[b].revision
    BY DEF Sole, OkMeansPublished
  <2>2. o # h.event
    BY <1>4, <1>7 DEF PresentEventNotQueued
  <2> QED BY <1>5, <2>1, <2>2
<1>9. Works(t) /\ (j \in SyncJob =>
        /\ job[t] \in SyncJob /\ j.class = job[t].class /\ j.row = job[t].row
        /\ (job[t].failed => j.failed))
  <2>1. \A k \in QueueJob : k \notin SyncJob
    BY CalendarAssumption DEF QueueJob, SyncJob
  <2> QED BY <1>2, <2>1, IdleHolds DEF Continues, Sole
<1>10. AnnouncesTracked(t)'
  BY <1>2, <1>3 DEF AnnouncesTracked, Upserting
<1>11. KnowsNumbers(t)' /\ KnowsEvent(t)' /\ KnowsRevision(t)'
  BY <1>1, <1>3, <1>5, <1>9 DEF Works, KnowsNumbers, KnowsEvent, KnowsRevision, NoEvent, OnCalendar, Booked
<1>12. ReportsTrue(t)'
  <2> SUFFICES ASSUME t \in current, ~j.failed, OnCalendarRow(j.row), j \in SyncJob,
                      Target(t)'[3] = j.row.seq
               PROVE  Target(t)' \in DOMAIN events' /\ events'[Target(t)'] = j.row.revision
    BY <1>1, <1>3 DEF ReportsTrue, Inductive, CurrentOK
  <2>1. Target(t)' = Target(t)
    BY <1>3, <1>9 DEF Target, ClassEventId, NoEvent
  <2>2. job[t].row = rows[job[t].class] /\ job[t].class \in Classes /\ Booked(job[t].class)
    BY <1>9, SyncIs, Shape DEF Inductive, CurrentOK, JobHolds
  <2>3. Target(t) = ClassEventId(job[t].class, rows[job[t].class])
    BY <2>2 DEF Target
  <2>4. rows[job[t].class].event \in {NoEvent, rows[job[t].class].seq}
    BY <1>9, <2>1, <2>2, TargetIs
  <2>5. Target(t) # h.event
    BY <1>4, <1>7, <1>9, <2>2, <2>3, <2>4 DEF PresentEventNotQueued, OnCalendar, OnCalendarRow
  <2>6. Target(t) \in DOMAIN events /\ events[Target(t)] = job[t].row.revision
    BY <1>1, <1>9, <2>1 DEF Works, ReportsTrue, Done
  <2> QED BY <1>5, <1>9, <2>1, <2>5, <2>6
<1>13. WorksQueue(t)'
  <2>1. \A d \in job[t].todo : (\A o \in job[t].todo : d.id <= o.id) => d = h
    BY <1>4
  <2> QED BY <1>1, <1>2, <1>3, <1>5, <2>1, OldestWorked DEF WorksQueue
<1> QED BY <1>3, <1>6, <1>8, <1>10, <1>11, <1>12, <1>13 DEF Sole, Works

\* What a sync reports is on the calendar, and the event it reports is the one the
\* class gets under its number.
LEMMA FinishSole ==
  ASSUME Inductive, Inductive', Alone, Sole, NEW t \in Syncers, Finish(t)
  PROVE  Sole'
<1> DEFINE j == job[t]
           c == job[t].class
           row == rows[c]
           made == job[t].event
           keep == KeepsMade(t)
           e == <<job[t].row.cal, c, made>>
<1>1. /\ j.pc = "finish" /\ j \in SyncJob
      /\ IF made # NoEvent /\ ~keep THEN Queue(e) ELSE UNCHANGED deletions
      /\ t \notin current' /\ job' = [job EXCEPT ![t] = Idle] /\ events' = events
  BY FinishIs
<1>2. /\ c \in Classes /\ Booked(c) /\ row \in Row /\ Follows(j.row, row)
      /\ row.seq \in Nat /\ j.row.seq \in Nat
      /\ made # NoEvent => made = IF j.row.event # NoEvent THEN j.row.event ELSE j.row.seq
      /\ t \in current => j.row = row
      /\ j.failed \/ made # NoEvent \/ ~OnCalendarRow(j.row)
      /\ OnCalendarRow(row) /\ row.sync = "ok" => row.event # NoEvent
  BY FinishIs
<1>3. PICK new : FinishedRow(t, new)
  BY FinishWrites
<1>4. /\ new \in Row /\ rows' = [rows EXCEPT ![c] = new]
      /\ new.live = row.live /\ new.cal = row.cal /\ new.seq = row.seq /\ new.revision = row.revision
      /\ new.event = IF keep THEN made ELSE row.event
      /\ new.sync = IF t \notin current THEN row.sync ELSE IF j.failed THEN "failed" ELSE "ok"
  BY <1>3 DEF FinishedRow
<1>5. keep <=> made # NoEvent /\ row.live /\ row.cal = j.row.cal /\ row.event \in {NoEvent, made}
  BY DEF KeepsMade
<1>6. /\ Works(t)
      /\ \A o \in DOMAIN events : Booked(o[2]) /\ o[3] <= rows[o[2]].seq /\ Tracked(o) /\ o \in EventId
  BY EventsTyped DEF Sole, EventsOK
<1>7. /\ rows'[c] = new /\ \A b \in Classes \ {c} : rows'[b] = rows[b]
      /\ new # Unbooked /\ job'[t] = Idle /\ \A u \in Syncers : u = t
  BY <1>1, <1>2, <1>4, UnbookedIsNoRow DEF Inductive, RowsOK, JobsOK, Alone
<1>8. \A o : Queued(o) => Queued(o)'
  <2>1. deletions \subseteq deletions'
    BY <1>1, QueueGrows
  <2> QED BY <2>1 DEF Queued
<1>9. /\ ClassEventId(c, row) = <<row.cal, c, IF row.event # NoEvent THEN row.event ELSE row.seq>>
      /\ ClassEventId(c, new) = <<new.cal, c, IF new.event # NoEvent THEN new.event ELSE new.seq>>
      /\ Target(t) = <<j.row.cal, c, IF j.row.event # NoEvent THEN j.row.event ELSE j.row.seq>>
  BY DEF ClassEventId, Target
<1>10. \A o \in DOMAIN events : o[2] = c => o[3] <= j.row.seq
  BY <1>1, <1>6 DEF Works, KnowsNumbers
<1>11. j.row.event \notin {NoEvent, row.event} => j.row.seq < row.seq
  BY <1>1, <1>6 DEF Works, KnowsEvent
<1>12. /\ t \in current /\ ~j.failed /\ OnCalendarRow(j.row) /\ Target(t)[3] = j.row.seq
       => Target(t) \in DOMAIN events /\ events[Target(t)] = j.row.revision
  BY <1>1, <1>6 DEF Works, ReportsTrue, Done
<1>13. OnCalendarRow(row) /\ row.sync = "ok" /\ row.event = row.seq =>
         ClassEventId(c, row) \in DOMAIN events /\ events[ClassEventId(c, row)] = row.revision
  BY <1>2 DEF Sole, OkMeansPublished, OnCalendar, OnCalendarRow
<1>14. EventsOK'
  <2> SUFFICES ASSUME NEW o \in DOMAIN events
               PROVE  Booked(o[2])' /\ o[3] <= rows'[o[2]].seq /\ Tracked(o)'
    BY <1>1 DEF EventsOK
  <2>1. o[2] \in Classes /\ o[3] \in Nat
    BY <1>6, EventIs
  <2>2. CASE o[2] # c
    BY <1>6, <1>7, <1>8, <2>1, <2>2 DEF Booked, Tracked
  <2>3. CASE o[2] = c
    <3>1. Booked(o[2])' /\ o[3] <= rows'[o[2]].seq
      BY <1>4, <1>6, <1>7, <2>3 DEF Booked
    <3>2. CASE Queued(o)
      BY <1>8, <3>2, <2>3, <3>1 DEF Tracked
    <3>3. CASE row.live /\ ClassEventId(c, row) = o
      <4>1. ClassEventId(c, new) = o
        <5>1. CASE new.event = row.event
          BY <1>4, <1>9, <3>3, <5>1
        <5>2. CASE keep /\ row.event = NoEvent
          <6>1. o = <<row.cal, c, row.seq>>
            BY <1>9, <3>3, <5>2
          <6>2. j.row.seq = row.seq
            BY <1>2, <1>10, <2>3, <6>1 DEF Follows
          <6>3. made = row.seq
            BY <1>2, <1>5, <1>11, <5>2, <6>2
          <6> QED BY <1>4, <1>5, <1>9, <5>2, <6>1, <6>3
        <5> QED BY <1>4, <1>5, <5>1, <5>2
      <4>2. rows'[o[2]] = new /\ ClassEventId(o[2], new) = o /\ new.live
        BY <1>4, <1>7, <2>3, <3>3, <4>1
      <4>3. Tracked(o)'
        BY <4>2 DEF Tracked, ClassEventId, NoEvent
      <4> QED BY <3>1, <4>3
    <3> QED BY <1>6, <2>3, <3>2, <3>3 DEF Tracked
  <2> QED BY <2>2, <2>3
<1>15. OkMeansPublished'
  <2> SUFFICES ASSUME NEW b \in Classes, OnCalendar(b)', rows'[b].sync = "ok",
                      rows'[b].event = rows'[b].seq
               PROVE  /\ ClassEventId(b, rows'[b]) \in DOMAIN events
                      /\ events[ClassEventId(b, rows'[b])] = rows'[b].revision
    BY <1>1 DEF OkMeansPublished, ClassEventId, NoEvent
  <2>1. CASE b # c
    BY <1>7, <2>1 DEF Sole, OkMeansPublished, OnCalendar, Booked
  <2>2. CASE b = c
    <3>1. OnCalendarRow(row) /\ OnCalendarRow(new) /\ new.sync = "ok" /\ new.event = row.seq
      BY <1>4, <1>7, <2>2 DEF OnCalendar, OnCalendarRow
    <3>2. ClassEventId(c, new) \in DOMAIN events /\ events[ClassEventId(c, new)] = new.revision
      <4>1. CASE t \notin current
        <5>1. row.sync = "ok" /\ row.event # NoEvent
          BY <1>2, <1>4, <3>1, <4>1
        <5>2. row.event = row.seq /\ new.event = row.event
          BY <1>4, <1>5, <3>1, <5>1
        <5>3. ClassEventId(c, new) = ClassEventId(c, row)
          BY <1>4, <1>9, <5>2
        <5> QED BY <1>4, <1>13, <3>1, <5>1, <5>2, <5>3
      <4>2. CASE t \in current
        <5>1. ~j.failed /\ j.row = row /\ made # NoEvent
          BY <1>2, <1>4, <3>1, <4>2
        <5>2. keep
          BY <1>2, <1>5, <3>1, <5>1 DEF OnCalendarRow
        <5>3. made = row.seq /\ ClassEventId(c, new) = Target(t) /\ Target(t)[3] = j.row.seq
          BY <1>2, <1>4, <1>9, <3>1, <5>1, <5>2
        <5> QED BY <1>4, <1>12, <3>1, <4>2, <5>1, <5>3
      <4> QED BY <4>1, <4>2
    <3> QED BY <1>7, <2>2, <3>2
  <2> QED BY <2>1, <2>2
<1>16. Works(t)'
  BY <1>1, <1>7, IdleHolds DEF Works, AnnouncesTracked, KnowsNumbers, KnowsEvent, KnowsRevision, ReportsTrue,
    WorksQueue, Idle, Deleting
<1> QED BY <1>7, <1>14, <1>15, <1>16 DEF Sole

LEMMA SoleStep == Inductive /\ Alone /\ Sole /\ [Next]_vars => Sole'
<1> SUFFICES ASSUME Inductive, Alone, Sole, [Next]_vars PROVE Sole'
  OBVIOUS
<1>1. Inductive'
  BY Steps
<1>2. ASSUME NEW c \in Classes, Booking(c) PROVE Sole'
  BY <1>1, <1>2, BookingSole
<1>3. ASSUME NEW t \in ApiSyncers, NEW c \in Classes, NEW only \in BOOLEAN, StartApi(t, c, only) PROVE Sole'
  <2>1. t \in Syncers
    BY DEF Syncers
  <2> QED BY <1>1, <1>3, <2>1, RestsSole
<1>4. ASSUME NEW t \in Workers, NEW c \in Classes, StartWorker(t, c) PROVE Sole'
  <2>1. t \in Syncers
    BY DEF Syncers
  <2> QED BY <1>1, <1>4, <2>1, RestsSole
<1>5. ASSUME NEW t \in Workers, StartQueue(t) PROVE Sole'
  <2>1. t \in Syncers
    BY DEF Syncers
  <2> QED BY <1>1, <1>5, <2>1, StartQueueSole
<1>6. ASSUME NEW t \in Syncers, Step(t) PROVE Sole'
  BY <1>1, <1>6, LoadSole, RestsSole, ConnectSole, UpsertSole, LoadQueueSole, DeleteEventSole, FailsSole,
    CompleteSole, FailDeletionSole, FinishSole DEF Step
<1>7. ASSUME NEW t \in Syncers, Crash(t) PROVE Sole'
  BY <1>1, <1>7, RestsSole
<1>8. CASE UNCHANGED vars
  <2>1. ASSUME NEW t \in Syncers PROVE Works(t)'
    BY <1>8 DEF vars, Sole, Works, AnnouncesTracked, KnowsNumbers, KnowsEvent, KnowsRevision,
      ReportsTrue, WorksQueue, Tracked, Queued, Target, ClassEventId, NoEvent, OnCalendar, Booked
  <2>2. EventsOK' /\ OkMeansPublished'
    BY <1>8 DEF vars, Sole, EventsOK, OkMeansPublished, Tracked, Queued, ClassEventId, NoEvent, OnCalendar, Booked
  <2> QED BY <2>1, <2>2 DEF Sole
<1> QED BY <1>2, <1>3, <1>4, <1>5, <1>6, <1>7, <1>8 DEF Next

(* The reconciler on its own keeps its word: a lesson that shows as synced has the  *)
(* event it was last booked with on its calendar (finish_class_google_sync), and    *)
(* every event there is the one of its class or queued for removal                  *)
(* (CalendarSyncService, supabase/migrations/276_booking.sql). It holds for one     *)
(* syncer, whatever fails around it but the answer to an insert that was repeated.  *)
THEOREM LessonsPublished ==
  ASSUME Alone
  PROVE  Spec => []LessonsArePublished
<1>1. Init => Inductive /\ Sole
  BY InitInductive, InitSole
<1>2. Inductive /\ Sole /\ [Next]_vars => (Inductive /\ Sole)'
  BY Alone, Steps, SoleStep
<1>3. Inductive /\ Sole => LessonsArePublished
  <2>1. Inductive /\ Sole => NothingForgotten
    BY DEF Sole, EventsOK, Tracked, NothingForgotten
  <2> QED BY <2>1, NoPresentEventQueued DEF Inductive, Sole, EventsAreTracked, LessonsArePublished
<1> QED BY <1>1, <1>2, <1>3, PTL DEF Spec

-----------------------------------------------------------------------------
\* There is always a copy no call holds.
LEMMA FreshIsToken ==
  ASSUME GoogleTypes, NEW q, NEW g \in Grants
  PROVE  Fresh(q, g) \in Tokens /\ Fresh(q, g).of = g
<1> DEFINE Held == {call[r].token.copy : r \in GoogleCalls}
<1>1. IsFiniteSet(Held) /\ Cardinality(Held) <= Cardinality(GoogleCalls)
  <2> DEFINE f == [r \in GoogleCalls |-> call[r].token.copy]
  <2>1. f \in Surjection(GoogleCalls, Held)
    BY DEF Surjection
  <2>2. QED BY <2>1, FS_Surjection, GoogleAssumption
<1>2. Cardinality(GoogleCalls) \in Nat /\ Cardinality(Held) \in Nat
  BY <1>1, FS_CardinalityType, GoogleAssumption
<1>3. IsFiniteSet(Copies) /\ Cardinality(Copies) = Cardinality(GoogleCalls) + 1
  BY <1>2, FS_Interval DEF Copies
<1>4. ~(Copies \subseteq Held)
  BY <1>1, <1>2, <1>3, FS_Subset
<1>5. \E n \in Copies : \A r \in GoogleCalls : call[r].token # [of |-> g, copy |-> n]
  BY <1>4
<1>6. QED BY <1>5 DEF Fresh, Tokens

\* Watch changes a call in its excuse only, and excuses every running call there is
\* an excuse for.
LEMMA Watched ==
  ASSUME NEW c \in [GoogleCalls -> CallState], Watch(c), NEW r \in GoogleCalls
  PROVE  /\ call'[r] \in CallState
         /\ call'[r].pc = c[r].pc /\ call'[r].at = c[r].at /\ call'[r].token = c[r].token
         /\ call'[r].retried = c[r].retried
         /\ call'[r].pc # "idle" /\ ~call'[r].excused => ~c[r].excused /\ ~Excuse(c[r].at)
BY DEF Watch, CallState

\* What is left to show of a step that changes the calls to c and watches them.
LEMMA WatchedServed ==
  ASSUME NEW c \in [GoogleCalls -> CallState], Watch(c),
         \A r \in GoogleCalls :
            Free(c[r]) /\ ~Excuse(c[r].at) =>
              Undisturbed(c[r], granted', connection', refresh'[c[r].at], token'[c[r].at])
  PROVE  Served'
<1> SUFFICES ASSUME NEW r \in GoogleCalls, Free(call'[r])
             PROVE  Undisturbed(call'[r], granted', connection', refresh'[call'[r].at],
                                token'[call'[r].at])
  BY DEF Served, Free
<1>1. /\ call'[r].pc = c[r].pc /\ call'[r].at = c[r].at /\ call'[r].token = c[r].token
      /\ call'[r].retried = c[r].retried
      /\ ~c[r].excused /\ ~Excuse(c[r].at)
  BY Watched DEF Free
<1>2. Undisturbed(c[r], granted', connection', refresh'[c[r].at], token'[c[r].at])
  BY <1>1 DEF Free
<1>3. QED BY <1>1, <1>2 DEF Undisturbed

\* The calls of process q that wait for its refresh get a token or the error.
LEMMA SettledCalls ==
  ASSUME GoogleTypes, NEW q \in Processes, NEW tok \in Tokens
  PROVE  /\ Settled(q, tok) \in [GoogleCalls -> CallState]
         /\ \A r \in GoogleCalls :
              /\ Settled(q, tok)[r].at = call[r].at
              /\ Settled(q, tok)[r].pc # "idle" <=> call[r].pc # "idle"
              /\ Free(Settled(q, tok)[r]) => Free(call[r])
              /\ \/ Settled(q, tok)[r] = call[r]
                 \/ /\ call[r].pc = "wait" /\ call[r].at = q
                    /\ Settled(q, tok)[r].retried = call[r].retried
                    /\ \/ tok = NoToken /\ Settled(q, tok)[r].pc = "failed"
                       \/ /\ tok # NoToken /\ Settled(q, tok)[r].pc = "send"
                          /\ Settled(q, tok)[r].token = tok
BY DEF Settled, GoogleTypes, CallState, Free
-----------------------------------------------------------------------------
\* Watched calls keep their type.
LEMMA WatchedTypes ==
  ASSUME NEW c \in [GoogleCalls -> CallState], Watch(c),
         \A r \in GoogleCalls : c[r].pc # "idle" => c[r].at \in Processes
  PROVE  /\ call' \in [GoogleCalls -> CallState]
         /\ \A r \in GoogleCalls : call'[r].pc # "idle" => call'[r].at \in Processes
<1>1. \A r \in GoogleCalls : /\ call'[r] \in CallState
                          /\ call'[r].pc = c[r].pc /\ call'[r].at = c[r].at
  BY Watched
<1>2. DOMAIN call' = GoogleCalls /\ call' = [r \in GoogleCalls |-> call'[r]]
  BY DEF Watch
<1>3. QED BY <1>1, <1>2

LEMMA GoogleConstants ==
  /\ MaxGrants \in Nat /\ MaxCalls \in Nat /\ 1 \in Grants /\ 0 \in Copies
  /\ NoToken \in Tokens /\ NoCall \in CallState /\ NoAdmin \in AdminState
  /\ NoRefresh \in RefreshState
  /\ NoGrant \notin Grants /\ NoRow \notin Grants /\ NoGrant # NoRow
<1>1. MaxGrants \in Nat \ {0} /\ MaxCalls \in Nat
  BY GoogleAssumption
<1>2. Cardinality(GoogleCalls) \in Nat
  BY FS_CardinalityType, GoogleAssumption
<1>3. 1 \in Grants /\ NoGrant \notin Grants /\ NoRow \notin Grants /\ NoGrant # NoRow
  BY <1>1 DEF Grants, NoGrant, NoRow
<1>4. 0 \in Copies
  BY <1>2 DEF Copies
<1>5. NoToken \in Tokens
  BY <1>4 DEF NoToken, Tokens
<1>6. QED BY <1>1, <1>3, <1>4, <1>5 DEF NoCall, NoAdmin, NoRefresh, CallState, AdminState, RefreshState

LEMMA GoogleTypesStep ==
  ASSUME GoogleTypes, [GoogleNext]_googleVars
  PROVE  GoogleTypes'
<1> USE GoogleConstants
<1>0. CASE UNCHANGED googleVars
  BY <1>0 DEF GoogleTypes, googleVars
<1>1. CASE \E r \in GoogleCalls, q \in Processes : StartCall(r, q)
  <2> PICK r \in GoogleCalls, q \in Processes : StartCall(r, q)
    BY <1>1
  <2> DEFINE c == [call EXCEPT ![r] = [NoCall EXCEPT !.pc = "token", !.at = q]]
  <2>1. /\ c \in [GoogleCalls -> CallState] /\ Watch(c)
        /\ \A s \in GoogleCalls : c[s].pc # "idle" => c[s].at \in Processes
    BY DEF GoogleTypes, CallState, NoCall, StartCall
  <2>2. calls' \in 0 .. MaxCalls
    BY DEF GoogleTypes, StartCall
  <2> HIDE DEF c
  <2>3. QED BY <2>1, <2>2, WatchedTypes DEF GoogleTypes, StartCall
<1>2. CASE \E r \in GoogleCalls : UseCached(r)
  <2> PICK r \in GoogleCalls : UseCached(r)
    BY <1>2
  <2> DEFINE c == [call EXCEPT ![r].pc = "send", ![r].token = token[call[r].at]]
  <2>1. /\ c \in [GoogleCalls -> CallState] /\ Watch(c)
        /\ \A s \in GoogleCalls : c[s].pc # "idle" => c[s].at \in Processes
    BY DEF GoogleTypes, CallState, UseCached
  <2> HIDE DEF c
  <2>3. QED BY <2>1, WatchedTypes DEF GoogleTypes, UseCached
<1>3. CASE \E r \in GoogleCalls : AwaitRefresh(r)
  <2> PICK r \in GoogleCalls : AwaitRefresh(r)
    BY <1>3
  <2> DEFINE c == [call EXCEPT ![r].pc = "wait"]
  <2>1. /\ c \in [GoogleCalls -> CallState] /\ Watch(c)
        /\ \A s \in GoogleCalls : c[s].pc # "idle" => c[s].at \in Processes
    BY DEF GoogleTypes, CallState, AwaitRefresh
  <2>2. refresh' \in [Processes -> RefreshState]
    BY DEF GoogleTypes, AwaitRefresh, RefreshState
  <2> HIDE DEF c
  <2>3. QED BY <2>1, <2>2, WatchedTypes DEF GoogleTypes, AwaitRefresh
<1>4. CASE \E r \in GoogleCalls : Answer(r)
  BY <1>4 DEF GoogleTypes, Answer, NoCall
<1>5. CASE \E r \in GoogleCalls : EndFailed(r)
  BY <1>5 DEF GoogleTypes, EndFailed, NoCall
<1>6. CASE \E r \in GoogleCalls : Unauthorized(r)
  <2> PICK r \in GoogleCalls : Unauthorized(r)
    BY <1>6
  <2> DEFINE c == IF call[r].retried THEN [call EXCEPT ![r].pc = "failed"]
                  ELSE [call EXCEPT ![r].pc = "token", ![r].token = NoToken, ![r].retried = TRUE]
  <2>1. /\ c \in [GoogleCalls -> CallState] /\ Watch(c)
        /\ \A s \in GoogleCalls : c[s].pc # "idle" => c[s].at \in Processes
    BY DEF GoogleTypes, CallState, Unauthorized
  <2>2. token' \in [Processes -> Tokens]
    BY DEF GoogleTypes, Unauthorized, Dropped
  <2> HIDE DEF c
  <2>3. QED BY <2>1, <2>2, WatchedTypes DEF GoogleTypes, Unauthorized
<1>7. CASE \E q \in Processes : LoadGrant(q)
  <2> PICK q \in Processes : LoadGrant(q)
    BY <1>7
  <2>1. /\ call \in [GoogleCalls -> CallState]
        /\ \A s \in GoogleCalls : call[s].pc # "idle" => call[s].at \in Processes
    BY DEF GoogleTypes
  <2>2. /\ Settled(q, NoToken) \in [GoogleCalls -> CallState]
        /\ \A s \in GoogleCalls : Settled(q, NoToken)[s].pc # "idle" => Settled(q, NoToken)[s].at \in Processes
    BY SettledCalls DEF GoogleTypes
  <2>3. refresh' \in [Processes -> RefreshState]
    BY DEF GoogleTypes, LoadGrant, RefreshState, Stored
  <2>4. CASE Watch(call)
    BY <2>1, <2>3, <2>4, WatchedTypes DEF GoogleTypes, LoadGrant
  <2>5. CASE Watch(Settled(q, NoToken))
    BY <2>2, <2>3, <2>5, WatchedTypes DEF GoogleTypes, LoadGrant
  <2>6. QED BY <2>4, <2>5 DEF LoadGrant
<1>8. CASE \E q \in Processes : AskGoogle(q)
  <2> PICK q \in Processes : AskGoogle(q)
    BY <1>8
  <2>1. /\ call \in [GoogleCalls -> CallState]
        /\ \A s \in GoogleCalls : call[s].pc # "idle" => call[s].at \in Processes
    BY DEF GoogleTypes
  <2>2. refresh' \in [Processes -> RefreshState]
    BY DEF GoogleTypes, AskGoogle, RefreshState
  <2>3. QED BY <2>1, <2>2, WatchedTypes DEF GoogleTypes, AskGoogle
<1>9. CASE \E q \in Processes : RecordRefresh(q)
  <2> PICK q \in Processes : RecordRefresh(q)
    BY <1>9
  <2> DEFINE tok == Fresh(q, refresh[q].grant)
  <2>1. refresh[q].grant \in Grants
    BY DEF GoogleTypes, RecordRefresh, RefreshState
  <2>2. tok \in Tokens
    BY <2>1, FreshIsToken
  <2> HIDE DEF tok
  <2>3. /\ Settled(q, tok) \in [GoogleCalls -> CallState]
        /\ \A s \in GoogleCalls : Settled(q, tok)[s].pc # "idle" => Settled(q, tok)[s].at \in Processes
    BY SettledCalls, <2>2 DEF GoogleTypes
  <2>4. refresh' \in [Processes -> RefreshState] /\ token' \in [Processes -> Tokens]
    BY <2>2 DEF GoogleTypes, RecordRefresh, tok
  <2>5. Watch(Settled(q, tok))
    BY DEF RecordRefresh, tok
  <2>6. QED BY <2>3, <2>4, <2>5, WatchedTypes DEF GoogleTypes, RecordRefresh
<1>10. CASE \E q \in Processes : ClearGrant(q)
  <2> PICK q \in Processes : ClearGrant(q)
    BY <1>10
  <2>1. /\ Settled(q, NoToken) \in [GoogleCalls -> CallState]
        /\ \A s \in GoogleCalls : Settled(q, NoToken)[s].pc # "idle" => Settled(q, NoToken)[s].at \in Processes
    BY SettledCalls DEF GoogleTypes
  <2>2. refresh' \in [Processes -> RefreshState] /\ connection' \in Grants \cup {NoGrant, NoRow}
    BY DEF GoogleTypes, ClearGrant, Cleared
  <2>3. QED BY <2>1, <2>2, WatchedTypes DEF GoogleTypes, ClearGrant
<1>11. CASE \E q \in Processes : TokenExpires(q)
  <2> PICK q \in Processes : TokenExpires(q)
    BY <1>11
  <2>1. /\ call \in [GoogleCalls -> CallState]
        /\ \A s \in GoogleCalls : call[s].pc # "idle" => call[s].at \in Processes
    BY DEF GoogleTypes
  <2>2. QED BY <2>1, WatchedTypes DEF GoogleTypes, TokenExpires
<1>12. CASE \E a \in Admins : ConnectUrl(a)
  BY <1>12 DEF GoogleTypes, ConnectUrl, NoAdmin, AdminState
<1>13. CASE \E a \in Admins : NoWayBack(a)
  BY <1>13 DEF GoogleTypes, NoWayBack, NoAdmin, AdminState
<1>14. CASE \E a \in Admins : LookUpAccount(a)
  <2> PICK a \in Admins : LookUpAccount(a)
    BY <1>14
  <2>1. /\ call \in [GoogleCalls -> CallState]
        /\ \A s \in GoogleCalls : call[s].pc # "idle" => call[s].at \in Processes
    BY DEF GoogleTypes
  <2>2. /\ admin' \in [Admins -> AdminState]
        /\ \A b \in Admins : admin'[b].pc \in {"lookup", "check"} => admin'[b].grant \in Grants
    BY DEF GoogleTypes, LookUpAccount, NoAdmin, AdminState
  <2>4. QED BY <2>1, <2>2, WatchedTypes DEF GoogleTypes, LookUpAccount
<1>15. CASE \E a \in Admins : Reject(a)
  <2> PICK a \in Admins : Reject(a)
    BY <1>15
  <2>1. /\ call \in [GoogleCalls -> CallState]
        /\ \A s \in GoogleCalls : call[s].pc # "idle" => call[s].at \in Processes
    BY DEF GoogleTypes
  <2>2. /\ admin' \in [Admins -> AdminState]
        /\ \A b \in Admins : admin'[b].pc \in {"lookup", "check"} => admin'[b].grant \in Grants
    BY DEF GoogleTypes, Reject, NoAdmin, AdminState
  <2>3. granted' \subseteq Grants
    BY DEF GoogleTypes, Reject, RevokedOrNot, Invalidated, AdminState
  <2>4. QED BY <2>1, <2>2, <2>3, WatchedTypes DEF GoogleTypes, Reject
<1>16. CASE \E a \in Admins : SaveConnection(a)
  <2> PICK a \in Admins : SaveConnection(a)
    BY <1>16
  <2>1. /\ call \in [GoogleCalls -> CallState]
        /\ \A s \in GoogleCalls : call[s].pc # "idle" => call[s].at \in Processes
    BY DEF GoogleTypes
  <2>2. /\ admin' \in [Admins -> AdminState]
        /\ \A b \in Admins : admin'[b].pc \in {"lookup", "check"} => admin'[b].grant \in Grants
    BY DEF GoogleTypes, SaveConnection, NoAdmin, AdminState
  <2>3. connection' \in Grants /\ token' \in [Processes -> Tokens]
    BY DEF GoogleTypes, SaveConnection, RevokedOrNot, Invalidated, AdminState
  <2>4. QED BY <2>1, <2>2, <2>3, WatchedTypes DEF GoogleTypes, SaveConnection
<1>17. CASE \E a \in Admins : SaveFails(a)
  <2> PICK a \in Admins : SaveFails(a)
    BY <1>17
  <2>1. /\ call \in [GoogleCalls -> CallState]
        /\ \A s \in GoogleCalls : call[s].pc # "idle" => call[s].at \in Processes
    BY DEF GoogleTypes
  <2>2. /\ admin' \in [Admins -> AdminState]
        /\ \A b \in Admins : admin'[b].pc \in {"lookup", "check"} => admin'[b].grant \in Grants
    BY DEF GoogleTypes, SaveFails, NoAdmin, AdminState
  <2>3. granted' \subseteq Grants /\ connection' \in Grants \cup {NoGrant, NoRow}
    BY DEF GoogleTypes, SaveFails, RevokedOrNot, Invalidated, AdminState
  <2>4. QED BY <2>1, <2>2, <2>3, WatchedTypes DEF GoogleTypes, SaveFails
<1>18. CASE \E a \in Admins : Revoke(a)
  <2> PICK a \in Admins : Revoke(a)
    BY <1>18
  <2>1. /\ call \in [GoogleCalls -> CallState]
        /\ \A s \in GoogleCalls : call[s].pc # "idle" => call[s].at \in Processes
    BY DEF GoogleTypes
  <2>2. /\ admin' \in [Admins -> AdminState]
        /\ \A b \in Admins : admin'[b].pc \in {"lookup", "check"} => admin'[b].grant \in Grants
    BY DEF GoogleTypes, Revoke, NoAdmin, AdminState
  <2>3. granted' \subseteq Grants
    BY DEF GoogleTypes, Revoke, RevokedOrNot, Invalidated, AdminState
  <2>4. QED BY <2>1, <2>2, <2>3, WatchedTypes DEF GoogleTypes, Revoke
<1>19. CASE \E a \in Admins : DeleteConnection(a)
  <2> PICK a \in Admins : DeleteConnection(a)
    BY <1>19
  <2>1. /\ call \in [GoogleCalls -> CallState]
        /\ \A s \in GoogleCalls : call[s].pc # "idle" => call[s].at \in Processes
    BY DEF GoogleTypes
  <2>2. /\ admin' \in [Admins -> AdminState]
        /\ \A b \in Admins : admin'[b].pc \in {"lookup", "check"} => admin'[b].grant \in Grants
    BY DEF GoogleTypes, DeleteConnection, NoAdmin, AdminState
  <2>3. token' \in [Processes -> Tokens]
    BY DEF GoogleTypes, DeleteConnection, RevokedOrNot, Invalidated, AdminState
  <2>4. QED BY <2>1, <2>2, <2>3, WatchedTypes DEF GoogleTypes, DeleteConnection
<1>20. CASE \E a \in Admins, q \in Processes : Exchange(a, q)
  <2> PICK a \in Admins, q \in Processes : Exchange(a, q)
    BY <1>20
  <2>1. /\ call \in [GoogleCalls -> CallState]
        /\ \A s \in GoogleCalls : call[s].pc # "idle" => call[s].at \in Processes
    BY DEF GoogleTypes
  <2>3. granted' \subseteq Grants /\ grants' \in Grants
    BY DEF GoogleTypes, Exchange, Grants
  <2>2. /\ admin' \in [Admins -> AdminState]
        /\ \A b \in Admins : admin'[b].pc \in {"lookup", "check"} => admin'[b].grant \in Grants
    BY <2>3 DEF GoogleTypes, Exchange, NoAdmin, AdminState
  <2>4. QED BY <2>1, <2>2, <2>3, WatchedTypes DEF GoogleTypes, Exchange
<1>21. CASE \E a \in Admins, q \in Processes : StartDisconnect(a, q)
  <2> PICK a \in Admins, q \in Processes : StartDisconnect(a, q)
    BY <1>21
  <2>1. /\ call \in [GoogleCalls -> CallState]
        /\ \A s \in GoogleCalls : call[s].pc # "idle" => call[s].at \in Processes
    BY DEF GoogleTypes
  <2>2. /\ admin' \in [Admins -> AdminState]
        /\ \A b \in Admins : admin'[b].pc \in {"lookup", "check"} => admin'[b].grant \in Grants
    BY DEF GoogleTypes, StartDisconnect, NoAdmin, AdminState
  <2>4. QED BY <2>1, <2>2, WatchedTypes DEF GoogleTypes, StartDisconnect
<1>22. CASE \E g \in Grants : Withdraw(g)
  <2> PICK g \in Grants : Withdraw(g)
    BY <1>22
  <2>1. /\ call \in [GoogleCalls -> CallState]
        /\ \A s \in GoogleCalls : call[s].pc # "idle" => call[s].at \in Processes
    BY DEF GoogleTypes
  <2>2. QED BY <2>1, WatchedTypes DEF GoogleTypes, Withdraw
<1>23. QED BY <1>0, <1>1, <1>2, <1>3, <1>4, <1>5, <1>6, <1>7, <1>8, <1>9, <1>10, <1>11, <1>12, <1>13, <1>14, <1>15, <1>16, <1>17, <1>18, <1>19, <1>20, <1>21, <1>22
  DEF GoogleNext
-----------------------------------------------------------------------------
\* A step that leaves the calls alone, and of the cached tokens leaves, drops or
\* replaces by the connection's those that a call may be about to use.
LEMMA QuietServed ==
  ASSUME GoogleTypes, Served, Watch(call),
         \A r \in GoogleCalls :
            LET q == call[r].at IN
            Free(call[r]) => token'[q] = token[q] \/ Present(token'[q], connection)
  PROVE  Served'
<1>1. call \in [GoogleCalls -> CallState]
  BY DEF GoogleTypes
<1>2. ASSUME NEW r \in GoogleCalls, Free(call[r]), ~Excuse(call[r].at)
      PROVE  Undisturbed(call[r], granted', connection', refresh'[call[r].at],
                         token'[call[r].at])
  <2>1. connection' = connection /\ connection' \in granted'
        /\ refresh'[call[r].at].grant \in {NoGrant, connection'}
    BY <1>2 DEF Excuse
  <2>2. Undisturbed(call[r], granted, connection, refresh[call[r].at], token[call[r].at])
    BY <1>2 DEF Served
  <2>3. QED BY <1>2, <2>1, <2>2 DEF Undisturbed, Present
<1>3. QED BY <1>1, <1>2, WatchedServed

\* The refresh that process q awaits ends: it fails only for calls that are excused,
\* and its token is the connection's or for calls that are excused.
LEMMA SettledServed ==
  ASSUME GoogleTypes, Served, NEW q \in Processes, NEW tok \in Tokens,
         Watch(Settled(q, tok)),
         tok = NoToken => token' = token /\ connection' \notin granted',
         tok # NoToken => /\ token' = [token EXCEPT ![q] = tok]
                          /\ refresh[q].grant = tok.of /\ tok.of # NoGrant
  PROVE  Served'
<1> DEFINE c == Settled(q, tok)
<1>1. c \in [GoogleCalls -> CallState]
  BY SettledCalls
<1>2. ASSUME NEW r \in GoogleCalls, Free(c[r]), ~Excuse(c[r].at)
      PROVE  Undisturbed(c[r], granted', connection', refresh'[c[r].at], token'[c[r].at])
  <2>1. /\ c[r].at = call[r].at /\ Free(call[r]) /\ call[r].at \in Processes
        /\ \/ c[r] = call[r]
           \/ /\ call[r].pc = "wait" /\ call[r].at = q
              /\ c[r].retried = call[r].retried
              /\ \/ tok = NoToken /\ c[r].pc = "failed"
                 \/ /\ tok # NoToken /\ c[r].pc = "send" /\ c[r].token = tok
    BY <1>2, SettledCalls DEF GoogleTypes, Free
  <2> HIDE DEF c
  <2>2. connection' = connection /\ connection' \in granted'
        /\ refresh'[c[r].at].grant \in {NoGrant, connection'}
    BY <1>2 DEF Excuse
  <2>3. Undisturbed(call[r], granted, connection, refresh[call[r].at], token[call[r].at])
    BY <2>1 DEF Served
  <2>4. tok # NoToken
    BY <2>2
  <2>5. CASE call[r].at = q
    <3>1. token'[q] = tok /\ tok.of = connection
      BY <2>1, <2>3, <2>4, <2>5 DEF Undisturbed, GoogleTypes
    <3>2. QED BY <2>1, <2>2, <2>3, <2>4, <2>5, <3>1 DEF Undisturbed, Present
  <2>6. CASE call[r].at # q
    <3>1. token'[call[r].at] = token[call[r].at] /\ c[r] = call[r]
      BY <2>1, <2>4, <2>6 DEF GoogleTypes
    <3>2. QED BY <2>1, <2>2, <2>3, <3>1 DEF Undisturbed, Present
  <2>7. QED BY <2>5, <2>6
<1>3. QED BY <1>1, <1>2, WatchedServed

LEMMA ServedStep ==
  ASSUME GoogleTypes, Served, [GoogleNext]_googleVars
  PROVE  Served'
<1> USE GoogleConstants
<1>0. CASE UNCHANGED googleVars
  BY <1>0 DEF Served, googleVars
<1>c. call \in [GoogleCalls -> CallState]
  BY DEF GoogleTypes
<1>1. CASE \E r \in GoogleCalls, q \in Processes : StartCall(r, q)
  <2> PICK r \in GoogleCalls, q \in Processes : StartCall(r, q)
    BY <1>1
  <2> DEFINE c == [call EXCEPT ![r] = [NoCall EXCEPT !.pc = "token", !.at = q]]
  <2>1. c \in [GoogleCalls -> CallState] /\ Watch(c)
    BY <1>c DEF GoogleTypes, CallState, NoCall, StartCall
  <2>2. ASSUME NEW s \in GoogleCalls, Free(c[s]), ~Excuse(c[s].at)
        PROVE  Undisturbed(c[s], granted', connection', refresh'[c[s].at], token'[c[s].at])
    <3>1. /\ connection' = connection /\ connection' \in granted' /\ token' = token
          /\ refresh'[c[s].at].grant \in {NoGrant, connection'}
      BY <2>2 DEF Excuse, StartCall
    <3>2. CASE s = r
      BY <1>c, <2>2, <3>1, <3>2 DEF NoCall, Undisturbed
    <3>3. CASE s # r
      <4>1. c[s] = call[s]
        BY <1>c, <3>3
      <4>2. Undisturbed(call[s], granted, connection, refresh[call[s].at], token[call[s].at])
        BY <2>2, <4>1 DEF Served
      <4>3. QED BY <3>1, <4>1, <4>2 DEF Undisturbed, Present
    <3>4. QED BY <3>2, <3>3
  <2> HIDE DEF c
  <2>3. QED BY <2>1, <2>2, WatchedServed
<1>2. CASE \E r \in GoogleCalls : UseCached(r)
  <2> PICK r \in GoogleCalls : UseCached(r)
    BY <1>2
  <2> DEFINE c == [call EXCEPT ![r].pc = "send", ![r].token = token[call[r].at]]
  <2>1. c \in [GoogleCalls -> CallState] /\ Watch(c)
    BY <1>c DEF GoogleTypes, CallState, NoCall, UseCached
  <2>2. ASSUME NEW s \in GoogleCalls, Free(c[s]), ~Excuse(c[s].at)
        PROVE  Undisturbed(c[s], granted', connection', refresh'[c[s].at], token'[c[s].at])
    <3>1. /\ connection' = connection /\ connection' \in granted'
          /\ refresh'[c[s].at].grant \in {NoGrant, connection'}
      BY <2>2 DEF Excuse
    <3>2. Free(call[s]) /\ c[s].at = call[s].at /\ c[s].retried \in BOOLEAN
      BY <1>c, <2>1, <2>2 DEF Free, UseCached, CallState
    <3>3. Undisturbed(call[s], granted, connection, refresh[call[s].at], token[call[s].at])
      BY <3>2 DEF Served
    <3>4. token' = token
      BY DEF UseCached
    <3>5. CASE s = r
      BY <1>c, <2>2, <3>1, <3>2, <3>3, <3>4, <3>5 DEF Undisturbed, Present, CallState, UseCached
    <3>6. CASE s # r
      <4>1. c[s] = call[s]
        BY <1>c, <3>6
      <4>2. QED BY <3>1, <3>2, <3>3, <3>4, <4>1 DEF Undisturbed, Present
    <3>7. QED BY <3>5, <3>6
  <2> HIDE DEF c
  <2>3. QED BY <2>1, <2>2, WatchedServed
<1>3. CASE \E r \in GoogleCalls : AwaitRefresh(r)
  <2> PICK r \in GoogleCalls : AwaitRefresh(r)
    BY <1>3
  <2> DEFINE c == [call EXCEPT ![r].pc = "wait"]
  <2>1. c \in [GoogleCalls -> CallState] /\ Watch(c)
    BY <1>c DEF GoogleTypes, CallState, NoCall, AwaitRefresh
  <2>2. ASSUME NEW s \in GoogleCalls, Free(c[s]), ~Excuse(c[s].at)
        PROVE  Undisturbed(c[s], granted', connection', refresh'[c[s].at], token'[c[s].at])
    <3>1. /\ connection' = connection /\ connection' \in granted'
          /\ refresh'[c[s].at].grant \in {NoGrant, connection'}
      BY <2>2 DEF Excuse
    <3>2. Free(call[s]) /\ c[s].at = call[s].at /\ c[s].retried \in BOOLEAN
      <4>1. c[s] \in CallState /\ call[s] \in CallState
        BY <1>c, <2>1
      <4>2. CASE s # r
        <5>1. c[s] = call[s]
          BY <1>c, <4>2
        <5> QED BY <2>2, <4>1, <5>1 DEF CallState
      <4>3. CASE s = r
        <5>1. c[s].excused = call[s].excused /\ c[s].at = call[s].at
          BY <1>c, <4>1, <4>3 DEF CallState
        <5>2. call[s].pc # "idle"
          BY <4>3 DEF AwaitRefresh
        <5> QED BY <2>2, <4>1, <5>1, <5>2 DEF Free, CallState
      <4> QED BY <4>2, <4>3
    <3>3. Undisturbed(call[s], granted, connection, refresh[call[s].at], token[call[s].at])
      BY <3>2 DEF Served
    <3>4. token' = token
      BY DEF AwaitRefresh
    <3>5. CASE s = r
      BY <1>c, <2>2, <3>1, <3>2, <3>3, <3>4, <3>5 DEF Undisturbed, Present, CallState, AwaitRefresh
    <3>6. CASE s # r
      <4>1. c[s] = call[s]
        BY <1>c, <3>6
      <4>2. QED BY <3>1, <3>2, <3>3, <3>4, <4>1 DEF Undisturbed, Present
    <3>7. QED BY <3>5, <3>6
  <2> HIDE DEF c
  <2>3. QED BY <2>1, <2>2, WatchedServed
<1>4. CASE \E r \in GoogleCalls : Unauthorized(r)
  <2> PICK r \in GoogleCalls : Unauthorized(r)
    BY <1>4
  <2> DEFINE c == IF call[r].retried THEN [call EXCEPT ![r].pc = "failed"]
                  ELSE [call EXCEPT ![r].pc = "token", ![r].token = NoToken, ![r].retried = TRUE]
  <2>1. c \in [GoogleCalls -> CallState] /\ Watch(c)
    BY <1>c DEF GoogleTypes, CallState, NoCall, Unauthorized
  <2>2. ASSUME NEW s \in GoogleCalls, Free(c[s]), ~Excuse(c[s].at)
        PROVE  Undisturbed(c[s], granted', connection', refresh'[c[s].at], token'[c[s].at])
    <3>1. /\ connection' = connection /\ connection' \in granted'
          /\ refresh'[c[s].at].grant \in {NoGrant, connection'}
      BY <2>2 DEF Excuse
    <3>2. Free(call[s]) /\ c[s].at = call[s].at /\ c[s].retried \in BOOLEAN
      <4>1. c[s] \in CallState /\ call[s] \in CallState
        BY <1>c, <2>1
      <4>2. CASE s # r
        <5>1. c[s] = call[s]
          BY <1>c, <4>2
        <5> QED BY <2>2, <4>1, <5>1 DEF CallState
      <4>3. CASE s = r
        <5>1. c[s].excused = call[s].excused /\ c[s].at = call[s].at
          BY <1>c, <4>1, <4>3 DEF CallState
        <5>2. call[s].pc # "idle"
          BY <4>3 DEF Unauthorized
        <5> QED BY <2>2, <4>1, <5>1, <5>2 DEF Free, CallState
      <4> QED BY <4>2, <4>3
    <3>3. Undisturbed(call[s], granted, connection, refresh[call[s].at], token[call[s].at])
      BY <3>2 DEF Served
    <3>4. /\ call[s].at \in Processes
          /\ \/ token'[call[s].at] = token[call[s].at]
             \/ token'[call[s].at] = NoToken
          /\ s = r /\ ~call[r].retried /\ token[call[r].at] = call[r].token =>
               token'[call[r].at] = NoToken
      BY <3>2 DEF GoogleTypes, Unauthorized, Dropped, Free
    <3>5. CASE s = r
      BY <1>c, <2>2, <3>1, <3>2, <3>3, <3>4, <3>5 DEF Undisturbed, Present, CallState, Unauthorized
    <3>6. CASE s # r
      <4>1. c[s] = call[s]
        BY <1>c, <3>6
      <4> HIDE DEF c
      <4>2. CASE token'[call[s].at] = token[call[s].at]
        BY <3>1, <3>2, <3>3, <4>1, <4>2 DEF Undisturbed, Present
      <4>3. CASE token'[call[s].at] = NoToken
        BY <3>1, <3>2, <3>3, <4>1, <4>3 DEF Undisturbed, Present
      <4>4. QED BY <3>4, <4>2, <4>3
    <3>7. QED BY <3>5, <3>6
  <2> HIDE DEF c
  <2>3. QED BY <2>1, <2>2, WatchedServed
<1>5. CASE \E r \in GoogleCalls : Answer(r)
  <2> PICK r \in GoogleCalls : Answer(r)
    BY <1>5
  <2>1. ASSUME NEW s \in GoogleCalls, Free(call'[s])
        PROVE  s # r /\ call'[s] = call[s]
    BY <1>c, <2>1 DEF Answer, NoCall, Free
  <2>2. QED BY <2>1 DEF Served, Answer
<1>6. CASE \E r \in GoogleCalls : EndFailed(r)
  <2> PICK r \in GoogleCalls : EndFailed(r)
    BY <1>6
  <2>1. ASSUME NEW s \in GoogleCalls, Free(call'[s])
        PROVE  s # r /\ call'[s] = call[s]
    BY <1>c, <2>1 DEF EndFailed, NoCall, Free
  <2>2. QED BY <2>1 DEF Served, EndFailed
<1>7. CASE \E q \in Processes : LoadGrant(q)
  <2> PICK q \in Processes : LoadGrant(q)
    BY <1>7
  <2>1. CASE Stored
    BY <2>1, QuietServed DEF LoadGrant
  <2>2. CASE ~Stored
    BY <2>2, SettledServed DEF LoadGrant, Stored, GoogleTypes
  <2>3. QED BY <2>1, <2>2
<1>8. CASE \E q \in Processes : AskGoogle(q)
  <2> PICK q \in Processes : AskGoogle(q)
    BY <1>8
  <2>1. QED BY QuietServed DEF AskGoogle
<1>9. CASE \E q \in Processes : RecordRefresh(q)
  <2> PICK q \in Processes : RecordRefresh(q)
    BY <1>9
  <2> DEFINE tok == Fresh(q, refresh[q].grant)
  <2>1. refresh[q].grant \in Grants
    BY DEF GoogleTypes, RecordRefresh, RefreshState
  <2>2. tok \in Tokens /\ tok.of = refresh[q].grant
    BY <2>1, FreshIsToken
  <2>3. Watch(Settled(q, tok)) /\ token' = [token EXCEPT ![q] = tok]
    BY DEF RecordRefresh
  <2> HIDE DEF tok
  <2>4. tok # NoToken /\ tok.of # NoGrant
    BY <2>1, <2>2 DEF NoToken
  <2>5. QED BY <2>2, <2>3, <2>4, SettledServed
<1>10. CASE \E q \in Processes : ClearGrant(q)
  <2> PICK q \in Processes : ClearGrant(q)
    BY <1>10
  <2>1. connection' \notin granted'
    BY DEF ClearGrant, Cleared, GoogleTypes
  <2>2. QED BY <2>1, SettledServed DEF ClearGrant
<1>11. CASE \E q \in Processes : TokenExpires(q)
  <2> PICK q \in Processes : TokenExpires(q)
    BY <1>11
  <2>1. ASSUME NEW p PROVE token'[p] = token[p] \/ token'[p] = NoToken
    BY DEF TokenExpires, GoogleTypes
  <2>2. QED BY <2>1, QuietServed DEF TokenExpires, Present
<1>12. CASE \E a \in Admins : ConnectUrl(a)
  BY <1>12 DEF Served, ConnectUrl
<1>13. CASE \E a \in Admins : NoWayBack(a)
  BY <1>13 DEF Served, NoWayBack
<1>14. CASE \E a \in Admins : LookUpAccount(a)
  BY <1>14, QuietServed DEF LookUpAccount
<1>15. CASE \E a \in Admins : Reject(a)
  BY <1>15, QuietServed DEF Reject
<1>16. CASE \E a \in Admins : SaveFails(a)
  BY <1>16, QuietServed DEF SaveFails
<1>17. CASE \E a \in Admins : Revoke(a)
  BY <1>17, QuietServed DEF Revoke
<1>18. CASE \E a \in Admins, q \in Processes : Exchange(a, q)
  BY <1>18, QuietServed DEF Exchange
<1>19. CASE \E a \in Admins, q \in Processes : StartDisconnect(a, q)
  BY <1>19, QuietServed DEF StartDisconnect
<1>20. CASE \E a \in Admins : SaveConnection(a)
  <2> PICK a \in Admins : SaveConnection(a)
    BY <1>20
  <2>1. ASSUME NEW r \in GoogleCalls, Free(call[r])
        PROVE  LET p == call[r].at IN token'[p] = token[p] \/ token'[p] = NoToken
    BY <2>1 DEF SaveConnection, Invalidated, GoogleTypes, Free
  <2>2. QED BY <2>1, QuietServed DEF SaveConnection, Present
<1>21. CASE \E a \in Admins : DeleteConnection(a)
  <2> PICK a \in Admins : DeleteConnection(a)
    BY <1>21
  <2>1. ASSUME NEW r \in GoogleCalls, Free(call[r])
        PROVE  LET p == call[r].at IN token'[p] = token[p] \/ token'[p] = NoToken
    BY <2>1 DEF DeleteConnection, Invalidated, GoogleTypes, Free
  <2>2. QED BY <2>1, QuietServed DEF DeleteConnection, Present
<1>22. CASE \E g \in Grants : Withdraw(g)
  BY <1>22, QuietServed DEF Withdraw
<1>23. QED BY <1>0, <1>1, <1>2, <1>3, <1>4, <1>5, <1>6, <1>7, <1>8, <1>9, <1>10, <1>11, <1>12, <1>13, <1>14, <1>15, <1>16, <1>17, <1>18, <1>19, <1>20, <1>21, <1>22
  DEF GoogleNext

\* Every column and field of the connection has its type.
LEMMA GoogleTypesHold == GoogleSpec => []GoogleTypes
<1>1. GoogleInit => GoogleTypes
  BY GoogleConstants DEF GoogleInit, GoogleTypes, NoCall, NoAdmin
<1>2. GoogleTypes /\ [GoogleNext]_googleVars => GoogleTypes'
  BY GoogleTypesStep
<1>3. QED BY <1>1, <1>2, PTL DEF GoogleSpec

\* A call of Google fails only if the stored grant was not honoured, the connection was
\* replaced, or an earlier one was being refreshed, at some time while it ran
\* (GoogleCalendarClient.api, GoogleConnectionService).
THEOREM CallsServed == GoogleSpec => []ServedWhenConnected
<1>1. GoogleInit => Served
  BY DEF GoogleInit, Served, NoCall, Free
<1>2. GoogleTypes /\ Served /\ [GoogleNext]_googleVars => Served'
  BY ServedStep
<1>3. GoogleTypes => GoogleTypeOK
  BY DEF GoogleTypes, GoogleTypeOK, RefreshState, CallState
<1>4. GoogleTypes /\ Served => ServedWhenConnected
  BY <1>3 DEF GoogleTypes, Served, ServedWhenConnected, Free, Undisturbed, CallState
<1>5. QED BY <1>1, <1>2, <1>4, GoogleTypesHold, PTL DEF GoogleSpec

-----------------------------------------------------------------------------
(***************************************************************************)
(* ClassImports, for any files, names, requests and bounds.  The classes   *)
(* come of rows, so the invariant is about rows: a row, saved or about to  *)
(* be (RowFits), is not ready when its line is invalid or repeats an       *)
(* earlier one, and what was chosen for it is in it unless the import was  *)
(* crossed (ChoicesKept).  A request that has read the rows keeps what     *)
(* was chosen in them (RequestFits); that nobody has saved a row it has    *)
(* read is what `crossed` records.                                         *)
(***************************************************************************)

Picked == Instructors \cup LessonTypes \cup {None}
ExternalIds == UNION {{Files[f][n].id : n \in 1 .. Len(Files[f])} : f \in Imports}
ImportRow ==
  [instructor: Picked, lesson_type: Picked, manual: SUBSET Fields,
   problems: SUBSET (Blocking \cup {"already_imported"}),
   status: {None, "cancelled", "completed", "scheduled"}, class: ExternalIds \cup {None}]
SomeRows == UNION {[S -> ImportRow] : S \in SUBSET Nat}
ImportRequest ==
  [pc: {"idle", "rows", "drafts", "next"}, kind: {None, "upload", "row", "map"},
   f: Imports \cup {None}, read: Seq(ImportRow), save: Seq(ImportRow) \cup SomeRows,
   left: SUBSET (Imports \cup Fields)]

ImportTypes ==
  /\ draft \in [Imports -> {"none", "draft", "committed", "discarded"}]
  /\ importRows \in [Imports -> Seq(ImportRow)]
  /\ eventMap \in [Events -> LessonTypes \cup {None}]
  /\ ended \in BOOLEAN
  /\ request \in [ImportCalls -> ImportRequest]
  /\ \A f \in Imports : /\ DOMAIN chosen[f] = 1 .. Len(Files[f])
                        /\ \A n \in 1 .. Len(Files[f]) : chosen[f][n] \in [Fields -> Picked]
  /\ DOMAIN chosen = Imports

\* What a row says of its line: it is not to be imported when the line is invalid or a repetition.
RowFits(f, n, row) ==
  /\ ~Files[f][n].valid => row.status = None
  /\ Duplicate(f, n) => "duplicate_row" \in row.problems

RowsFit ==
  \A f \in Imports :
    /\ Len(importRows[f]) \in {0, Len(Files[f])}
    /\ \A n \in 1 .. Len(importRows[f]) : RowFits(f, n, importRows[f][n])
    /\ draft[f] = "none" => importRows[f] = <<>>
    /\ importRows[f] = <<>> => \A n \in 1 .. Len(Files[f]), x \in Fields : chosen[f][n][x] = None

\* A row that is saved keeps what was chosen in the one that was read, but for what is chosen now.
Keeps(read, row, left) ==
  /\ left \subseteq row.manual
  /\ \A x \in read.manual \ left : x \in row.manual /\ row[x] = read[x]
Left(r) == IF r.kind = "row" THEN r.left ELSE {}

RequestFits(r) ==
  /\ r.pc \in {"drafts", "next"} => r.kind = "map"
  /\ r.pc = "rows" =>
       /\ r.f \in Imports /\ r.kind # None /\ draft[r.f] # "none"
       /\ DOMAIN r.save \subseteq 1 .. Len(Files[r.f])
       /\ \A n \in DOMAIN r.save : r.save[n] \in ImportRow /\ RowFits(r.f, n, r.save[n])
       /\ r.kind = "upload" => DOMAIN r.save = 1 .. Len(Files[r.f]) /\ importRows[r.f] = <<>>
       /\ r.kind # "upload" =>
            /\ importRows[r.f] # <<>> /\ Len(r.read) = Len(Files[r.f])
            /\ Left(r) \subseteq Fields
            /\ \A n \in DOMAIN r.save : Keeps(r.read[n], r.save[n], Left(r))
\* Only one request has a draft's rows still to be saved.
Uploading(r) == r.pc = "rows" /\ r.kind = "upload"
UploadsApart ==
  \A p, q \in ImportCalls :
    Uploading(request[p]) /\ Uploading(request[q]) /\ request[p].f = request[q].f => p = q
RequestsFit == (\A q \in ImportCalls : RequestFits(request[q])) /\ UploadsApart

\* What was chosen for a row is in it.
ChoicesKept ==
  \A f \in Imports \ crossed : \A n \in 1 .. Len(importRows[f]), x \in Fields :
    chosen[f][n][x] # None =>
      x \in importRows[f][n].manual /\ importRows[f][n][x] = chosen[f][n][x]

ClassFits(c) ==
  /\ c.f \in Imports /\ c.n \in 1 .. Len(importRows[c.f]) /\ c.id = Files[c.f][c.n].id
  /\ draft[c.f] = "committed" /\ Files[c.f][c.n].valid
  /\ ~(c.late /\ c.status = "scheduled")
  /\ c.f \notin crossed => \A x \in Fields : chosen[c.f][c.n][x] \in {None, c[x]}
ClassesFit ==
  /\ \A c, d \in classes : c.id = d.id => c = d
  /\ \A c \in classes : ClassFits(c)

Linked ==
  \A f \in Imports : draft[f] = "committed" /\ f \notin crossed =>
    \A n \in Ready(f) : importRows[f][n].class # None

ImportInv == ImportTypes /\ RowsFit /\ RequestsFit /\ ChoicesKept /\ ClassesFit /\ Linked

-----------------------------------------------------------------------------

LEMMA SeqFacts ==
  ASSUME NEW s \in Seq(ImportRow)
  PROVE  /\ Len(s) \in Nat /\ DOMAIN s = 1 .. Len(s) /\ \A n \in 1 .. Len(s) : s[n] \in ImportRow
         /\ s = <<>> <=> Len(s) = 0
  OBVIOUS

LEMMA ImportInit == ImportsInit => ImportInv
<1> SUFFICES ASSUME ImportsInit PROVE ImportInv
  OBVIOUS
<1> USE ImportFiles
<1>1. ImportTypes
  <2>1. \A f \in Imports : importRows[f] = <<>>
    BY DEF ImportsInit
  <2>2. <<>> \in Seq(ImportRow)
    OBVIOUS
  <2>3. NoRequest \in ImportRequest
    BY <2>2 DEF NoRequest, ImportRequest
  <2>4. NoChoice \in [Fields -> Picked]
    BY DEF NoChoice, Fields, Picked
  <2>5. /\ importRows \in [Imports -> Seq(ImportRow)]
        /\ request \in [ImportCalls -> ImportRequest]
        /\ draft \in [Imports -> {"none", "draft", "committed", "discarded"}]
        /\ eventMap \in [Events -> LessonTypes \cup {None}] /\ ended \in BOOLEAN
    BY <2>1, <2>2, <2>3 DEF ImportsInit
  <2>6. /\ \A f \in Imports : /\ DOMAIN chosen[f] = 1 .. Len(Files[f])
                              /\ \A n \in 1 .. Len(Files[f]) : chosen[f][n] \in [Fields -> Picked]
        /\ DOMAIN chosen = Imports
    BY <2>4 DEF ImportsInit
  <2> QED BY <2>5, <2>6 DEF ImportTypes
<1>2. RowsFit
  <2>1. \A f \in Imports : importRows[f] = <<>> /\ Len(importRows[f]) = 0
    BY DEF ImportsInit
  <2>2. \A f \in Imports : \A n \in 1 .. Len(Files[f]), x \in Fields : chosen[f][n][x] = None
    BY DEF ImportsInit, NoChoice, Fields
  <2> QED BY <2>1, <2>2 DEF RowsFit
<1>3. RequestsFit
  BY DEF ImportsInit, RequestsFit, RequestFits, NoRequest, UploadsApart, Uploading
<1>4. ChoicesKept /\ ClassesFit /\ Linked
  BY DEF ImportsInit, ChoicesKept, ClassesFit, Linked
<1> QED BY <1>1, <1>2, <1>3, <1>4 DEF ImportInv

LEMMA MatchedFits ==
  ASSUME ImportTypes, NEW f \in Imports, NEW n \in 1 .. Len(Files[f]), NEW row \in ImportRow
  PROVE  /\ Matched(f, n, row) \in ImportRow /\ RowFits(f, n, Matched(f, n, row))
         /\ Matched(f, n, row).manual = row.manual
         /\ \A x \in row.manual : Matched(f, n, row)[x] = row[x]
<1>1. PICK i, l, s, p : /\ i = MatchInstructor(f, n, row) /\ l = MatchLesson(f, n, row)
                        /\ s = Status(f, n) /\ p = Problems(f, n, row, i, l)
  OBVIOUS
<1>2. Matched(f, n, row) = [row EXCEPT !.instructor = i, !.lesson_type = l, !.status = s, !.problems = p]
  BY <1>1 DEF Matched
<1>3. i \in Picked
  BY <1>1 DEF MatchInstructor, Instructor, Picked, ImportRow
<1>4. l \in Picked
  <2>1. Files[f][n].event \in Events
    BY DEF Events
  <2> QED BY <1>1, <2>1 DEF MatchLesson, LessonOf, Picked, ImportRow, ImportTypes
<1>5. s \in {None, "cancelled", "completed", "scheduled"} /\ (~Files[f][n].valid => s = None)
  BY <1>1 DEF Status
<1>6. p \subseteq Blocking \cup {"already_imported"} /\ (Duplicate(f, n) => "duplicate_row" \in p)
  BY <1>1 DEF Problems, Blocking
<1>7. /\ "instructor" \in row.manual => i = row.instructor
      /\ "lesson_type" \in row.manual => l = row.lesson_type
  BY <1>1 DEF MatchInstructor, MatchLesson
<1>8. row.manual \subseteq {"instructor", "lesson_type"}
  BY DEF ImportRow, Fields
<1>9. Matched(f, n, row) \in ImportRow
  BY <1>2, <1>3, <1>4, <1>5, <1>6 DEF ImportRow
<1> QED BY <1>2, <1>5, <1>6, <1>7, <1>8, <1>9 DEF RowFits, ImportRow

\* A step that leaves the rows and the classes alone, and ends no draft but by discarding it.
LEMMA Asking ==
  ASSUME ImportInv, UNCHANGED <<importRows, classes, chosen, crossed>>,
         draft' \in [Imports -> {"none", "draft", "committed", "discarded"}],
         \A f \in Imports : /\ draft'[f] = "none" => draft[f] = "none"
                            /\ draft'[f] = "committed" <=> draft[f] = "committed",
         eventMap' \in [Events -> LessonTypes \cup {None}], ended' \in BOOLEAN,
         request' \in [ImportCalls -> ImportRequest],
         \A q \in ImportCalls : request'[q] # request[q] => RequestFits(request[q])',
         UploadsApart'
  PROVE  ImportInv'
<1>1. ImportTypes'
  BY DEF ImportInv, ImportTypes
<1>2. RowsFit'
  BY DEF ImportInv, RowsFit
<1>3. ASSUME NEW q \in ImportCalls PROVE RequestFits(request[q])'
  <2>1. CASE request'[q] # request[q]
    BY <2>1
  <2>2. CASE request'[q] = request[q]
    <3>1. RequestFits(request[q])
      BY DEF ImportInv, RequestsFit
    <3> QED BY <2>2, <3>1 DEF RequestFits
  <2> QED BY <2>1, <2>2
<1>4. RequestsFit'
  BY <1>3 DEF RequestsFit
<1>5. ChoicesKept'
  BY DEF ImportInv, ChoicesKept
<1>6. ClassesFit'
  BY DEF ImportInv, ClassesFit, ClassFits
<1>7. Linked'
  BY DEF ImportInv, Linked, Ready
<1> QED BY <1>1, <1>2, <1>4, <1>5, <1>6, <1>7 DEF ImportInv

\* An upsert of the rows of a request, after which the request is at no rows any more.
LEMMA Saving ==
  ASSUME ImportInv, NEW q \in ImportCalls, request[q].pc = "rows",
         \/ Saved(request[q].f, request[q].read, request[q].save)
         \/ /\ request[q].kind = "upload"
            /\ Saved(request[q].f, importRows[request[q].f], request[q].save),
         NEW r \in ImportRequest, r.pc # "rows", RequestFits(r), request' = [request EXCEPT ![q] = r],
         UNCHANGED <<draft, eventMap, classes, ended>>,
         DOMAIN chosen' = Imports,
         \A f \in Imports : /\ DOMAIN chosen'[f] = 1 .. Len(Files[f])
                            /\ \A n \in 1 .. Len(Files[f]) : chosen'[f][n] \in [Fields -> Picked],
         \A f \in Imports : \A n \in 1 .. Len(Files[f]), x \in Fields :
           chosen'[f][n][x] = IF f = request[q].f /\ n \in DOMAIN request[q].save /\ x \in Left(request[q])
                              THEN request[q].save[n][x] ELSE chosen[f][n][x]
  PROVE  ImportInv'
<1> USE ImportFiles
<1>1. PICK o, f : o = request[q] /\ o \in ImportRequest /\ f = o.f
  BY DEF ImportInv, ImportTypes
<1>2. /\ f \in Imports /\ draft[f] # "none"
      /\ DOMAIN o.save \subseteq 1 .. Len(Files[f])
      /\ \A n \in DOMAIN o.save : o.save[n] \in ImportRow /\ RowFits(f, n, o.save[n])
  BY <1>1 DEF ImportInv, RequestsFit, RequestFits
<1>3. o.kind = "upload" => DOMAIN o.save = 1 .. Len(Files[f]) /\ importRows[f] = <<>>
  BY <1>1 DEF ImportInv, RequestsFit, RequestFits
<1>4. o.kind # "upload" =>
        /\ importRows[f] # <<>> /\ Len(o.read) = Len(Files[f]) /\ Left(o) \subseteq Fields
        /\ \A n \in DOMAIN o.save : Keeps(o.read[n], o.save[n], Left(o))
  BY <1>1 DEF ImportInv, RequestsFit, RequestFits
<1>5. importRows \in [Imports -> Seq(ImportRow)] /\ Len(Files[f]) \in Nat
  BY <1>2 DEF ImportInv, ImportTypes
<1>6. PICK table :
        /\ table = [n \in 1 .. Len(Files[f]) |-> IF n \in DOMAIN o.save THEN o.save[n] ELSE importRows[f][n]]
        /\ importRows' = [importRows EXCEPT ![f] = table]
  BY <1>1 DEF Saved
<1>7. importRows[f] # <<>> => Len(importRows[f]) = Len(Files[f]) /\ DOMAIN importRows[f] = 1 .. Len(Files[f])
  BY <1>2, <1>5, SeqFacts DEF ImportInv, RowsFit
<1>8. table \in [1 .. Len(Files[f]) -> ImportRow]
  <2>1. \A n \in 1 .. Len(Files[f]) : n \in DOMAIN o.save \/ importRows[f][n] \in ImportRow
    BY <1>2, <1>3, <1>4, <1>5, <1>7, SeqFacts
  <2> QED BY <1>2, <1>6, <2>1
<1>9. table \in Seq(ImportRow) /\ Len(table) = Len(Files[f])
  BY <1>5, <1>8
<1>10. /\ importRows'[f] = table /\ \A g \in Imports \ {f} : importRows'[g] = importRows[g]
       /\ importRows' \in [Imports -> Seq(ImportRow)]
  BY <1>2, <1>5, <1>6, <1>9
<1>11. /\ crossed \subseteq crossed' /\ \A g \in Imports \ {f} : g \in crossed' <=> g \in crossed
       /\ draft[f] # "draft" => f \in crossed'
       /\ o.kind # "upload" /\ f \notin crossed' => \A n \in DOMAIN o.save : importRows[f][n] = o.read[n]
  <2>1. CASE Saved(f, o.read, o.save)
    BY <1>4, <2>1 DEF Saved
  <2>2. CASE o.kind = "upload" /\ Saved(f, importRows[f], o.save)
    BY <2>2 DEF Saved
  <2> QED BY <1>1, <2>1, <2>2
<1>12. ImportTypes'
  BY <1>10 DEF ImportInv, ImportTypes
<1>13. \A n \in 1 .. Len(Files[f]) : RowFits(f, n, table[n])
  <2> TAKE n \in 1 .. Len(Files[f])
  <2>1. CASE n \in DOMAIN o.save
    BY <1>2, <1>6, <2>1
  <2>2. CASE n \notin DOMAIN o.save
    <3>1. table[n] = importRows[f][n] /\ importRows[f] # <<>>
      BY <1>3, <1>4, <1>6, <2>2
    <3> QED BY <1>2, <1>7, <3>1 DEF ImportInv, RowsFit
  <2> QED BY <2>1, <2>2
<1>14. RowsFit'
  <2> SUFFICES ASSUME NEW g \in Imports
               PROVE  /\ Len(importRows'[g]) \in {0, Len(Files[g])}
                      /\ \A n \in 1 .. Len(importRows'[g]) : RowFits(g, n, importRows'[g][n])
                      /\ draft'[g] = "none" => importRows'[g] = <<>>
                      /\ importRows'[g] = <<>> =>
                           \A n \in 1 .. Len(Files[g]), x \in Fields : chosen'[g][n][x] = None
    BY DEF RowsFit, RowFits, Duplicate
  <2>1. CASE g # f
    <3>1. \A n \in 1 .. Len(Files[g]), x \in Fields : chosen'[g][n][x] = chosen[g][n][x]
      BY <1>1, <2>1
    <3>2. importRows'[g] = importRows[g] /\ draft'[g] = draft[g]
      BY <1>1, <1>2, <1>10, <2>1 DEF ImportInv, ImportTypes
    <3>3. /\ Len(importRows[g]) \in {0, Len(Files[g])}
          /\ \A n \in 1 .. Len(importRows[g]) : RowFits(g, n, importRows[g][n])
          /\ draft[g] = "none" => importRows[g] = <<>>
          /\ importRows[g] = <<>> => \A n \in 1 .. Len(Files[g]), x \in Fields : chosen[g][n][x] = None
      BY DEF ImportInv, RowsFit
    <3> QED BY <3>1, <3>2, <3>3
  <2>2. CASE g = f
    <3>1. importRows'[f] = <<>> => 1 .. Len(Files[f]) = {}
      BY <1>9, <1>10
    <3> QED BY <1>2, <1>9, <1>10, <1>13, <2>2, <3>1
  <2> QED BY <2>1, <2>2
<1>15. RequestsFit'
  <2>1. ASSUME NEW p \in ImportCalls PROVE RequestFits(request[p])'
    <3>1. CASE p = q
      BY <3>1 DEF RequestFits, ImportInv, ImportTypes
    <3>2. CASE p # q
      <4>1. request'[p] = request[p]
        BY <3>2
      <4>2. RequestFits(request[p])
        BY DEF ImportInv, RequestsFit
      <4>3. CASE request[p].pc = "rows" /\ request[p].f = f
        <5>1. request[p].kind # "upload"
          <6>1. CASE o.kind = "upload"
            BY <1>1, <3>2, <4>3, <6>1 DEF ImportInv, RequestsFit, UploadsApart, Uploading
          <6>2. CASE o.kind # "upload"
            BY <1>4, <4>2, <4>3, <6>2 DEF RequestFits
          <6> QED BY <6>1, <6>2
        <5>2. importRows[f] # <<>> /\ Len(Files[f]) # 0
          BY <1>5, <1>7, <1>2, <4>2, <4>3, <5>1, SeqFacts DEF RequestFits
        <5>3. importRows'[f] # <<>>
          BY <1>9, <1>10, <5>2
        <5> QED BY <4>1, <4>2, <4>3, <5>1, <5>3 DEF RequestFits, RowFits, Duplicate
      <4>4. CASE ~(request[p].pc = "rows" /\ request[p].f = f)
        BY <1>10, <4>1, <4>2, <4>4 DEF RequestFits, RowFits, Duplicate
      <4> QED BY <4>3, <4>4
    <3> QED BY <3>1, <3>2
  <2>2. UploadsApart'
    BY DEF ImportInv, ImportTypes, RequestsFit, UploadsApart, Uploading
  <2> QED BY <2>1, <2>2 DEF RequestsFit
<1>16. ChoicesKept'
  <2> SUFFICES ASSUME NEW g \in Imports, g \notin crossed', NEW n \in 1 .. Len(importRows'[g]), NEW x \in Fields,
                      chosen'[g][n][x] # None
               PROVE  x \in importRows'[g][n].manual /\ importRows'[g][n][x] = chosen'[g][n][x]
    BY DEF ChoicesKept
  <2>1. CASE g # f
    <3>1. n \in 1 .. Len(Files[g])
      BY <1>10, <2>1 DEF ImportInv, RowsFit
    <3>2. chosen'[g][n][x] = chosen[g][n][x]
      BY <1>1, <2>1, <3>1
    <3> QED BY <1>10, <1>11, <2>1, <3>2 DEF ImportInv, ChoicesKept
  <2>2. CASE g = f
    <3>1. n \in 1 .. Len(Files[f]) /\ f \notin crossed
      BY <1>9, <1>10, <1>11, <2>2
    <3>2. chosen'[f][n][x] = IF n \in DOMAIN o.save /\ x \in Left(o) THEN o.save[n][x] ELSE chosen[f][n][x]
      BY <1>1, <1>2, <3>1
    <3>3. CASE o.kind = "upload"
      <4>1. chosen[f][n][x] = None /\ x \notin Left(o)
        BY <1>2, <1>3, <3>1, <3>3 DEF ImportInv, RowsFit, Left
      <4> QED BY <2>2, <3>2, <4>1
    <3>4. CASE o.kind # "upload" /\ n \in DOMAIN o.save
      <4>1. Keeps(o.read[n], o.save[n], Left(o)) /\ importRows[f][n] = o.read[n] /\ table[n] = o.save[n]
        BY <1>4, <1>6, <1>11, <2>2, <3>1, <3>4
      <4>2. CASE x \in Left(o)
        BY <1>10, <2>2, <3>2, <3>4, <4>1, <4>2 DEF Keeps
      <4>3. CASE x \notin Left(o)
        <5>1. x \in importRows[f][n].manual /\ importRows[f][n][x] = chosen[f][n][x]
          BY <1>2, <1>4, <1>7, <2>2, <3>1, <3>2, <3>4, <4>3 DEF ImportInv, ChoicesKept
        <5> QED BY <1>10, <2>2, <3>2, <4>1, <4>3, <5>1 DEF Keeps
      <4> QED BY <4>2, <4>3
    <3>5. CASE o.kind # "upload" /\ n \notin DOMAIN o.save
      <4>1. table[n] = importRows[f][n]
        BY <1>6, <3>1, <3>5
      <4> QED BY <1>2, <1>4, <1>7, <1>10, <2>2, <3>1, <3>2, <3>5, <4>1 DEF ImportInv, ChoicesKept
    <3> QED BY <3>3, <3>4, <3>5
  <2> QED BY <2>1, <2>2
<1>17. ClassesFit'
  <2>1. ASSUME NEW c \in classes PROVE ClassFits(c)'
    <3>1. ClassFits(c)
      BY DEF ImportInv, ClassesFit
    <3>2. CASE c.f = f
      <4>1. f \in crossed'
        BY <1>11, <3>1, <3>2 DEF ClassFits
      <4>2. c.n \in 1 .. Len(importRows'[f])
        BY <1>7, <1>9, <1>10, <3>1, <3>2, SeqFacts, <1>2, <1>5 DEF ClassFits
      <4> QED BY <3>1, <3>2, <4>1, <4>2 DEF ClassFits
    <3>3. CASE c.f # f
      <4>1. c.n \in 1 .. Len(Files[c.f])
        BY <3>1 DEF ClassFits, ImportInv, RowsFit
      <4>2. \A x \in Fields : chosen'[c.f][c.n][x] = chosen[c.f][c.n][x]
        BY <1>1, <3>1, <3>3, <4>1 DEF ClassFits
      <4> QED BY <1>10, <1>11, <3>1, <3>3, <4>2 DEF ClassFits
    <3> QED BY <3>2, <3>3
  <2> QED BY <2>1 DEF ImportInv, ClassesFit
<1>18. Linked'
  <2> SUFFICES ASSUME NEW g \in Imports, draft'[g] = "committed", g \notin crossed', NEW n \in Ready(g)'
               PROVE  importRows'[g][n].class # None
    BY DEF Linked
  <2>1. g # f /\ g \notin crossed
    BY <1>11
  <2>2. importRows'[g] = importRows[g]
    BY <1>10, <2>1
  <2> QED BY <2>1, <2>2 DEF ImportInv, Linked, Ready
<1> QED BY <1>12, <1>14, <1>15, <1>16, <1>17, <1>18 DEF ImportInv

LEMMA OneRequest ==
  ASSUME ImportInv, NEW q \in ImportCalls, NEW r \in ImportRequest, request' = [request EXCEPT ![q] = r],
         Uploading(r) => \A p \in ImportCalls : Uploading(request[p]) => request[p].f # r.f
  PROVE  /\ request' \in [ImportCalls -> ImportRequest] /\ UploadsApart'
         /\ \A p \in ImportCalls : request'[p] = IF p = q THEN r ELSE request[p]
<1>1. request \in [ImportCalls -> ImportRequest] /\ UploadsApart
  BY DEF ImportInv, ImportTypes, RequestsFit
<1> QED BY <1>1 DEF UploadsApart

\* The rows are asked for nothing, and nothing but the request changes and, perhaps, the event map.
LEMMA Resting ==
  ASSUME ImportInv, NEW q \in ImportCalls, NEW r \in ImportRequest, request' = [request EXCEPT ![q] = r],
         RequestFits(r), r.pc = "rows" => r.kind # "upload",
         UNCHANGED <<draft, importRows, classes, ended, chosen, crossed>>,
         eventMap' \in [Events -> LessonTypes \cup {None}]
  PROVE  ImportInv'
<1>1. /\ request' \in [ImportCalls -> ImportRequest] /\ UploadsApart'
      /\ \A p \in ImportCalls : request'[p] = IF p = q THEN r ELSE request[p]
  BY OneRequest DEF Uploading
<1>2. ASSUME NEW p \in ImportCalls, request'[p] # request[p] PROVE RequestFits(request[p])'
  <2>1. p = q /\ request'[p] = r
    BY <1>1, <1>2
  <2> QED BY <2>1 DEF RequestFits, RowFits, Duplicate
<1>3. draft \in [Imports -> {"none", "draft", "committed", "discarded"}] /\ ended \in BOOLEAN
  BY DEF ImportInv, ImportTypes
<1> QED BY <1>1, <1>2, <1>3, Asking

LEMMA NoRequestFits ==
  NoRequest \in ImportRequest /\ NoRequest.pc = "idle" /\ NoRequest.kind = None /\ RequestFits(NoRequest)
<1>1. <<>> \in Seq(ImportRow)
  OBVIOUS
<1> QED BY <1>1 DEF NoRequest, ImportRequest, RequestFits

LEMMA UploadStep ==
  ASSUME ImportInv, NEW q \in ImportCalls, NEW f \in Imports, Upload(q, f)
  PROVE  ImportInv'
<1> USE ImportFiles
<1>1. PICK save : save = [n \in 1 .. Len(Files[f]) |-> Matched(f, n, NewRow)]
  OBVIOUS
<1>2. NewRow \in ImportRow
  BY DEF NewRow, ImportRow, Picked
<1>3. \A n \in 1 .. Len(Files[f]) : save[n] \in ImportRow /\ RowFits(f, n, save[n])
  BY <1>1, <1>2, MatchedFits DEF ImportInv
<1>4. save \in Seq(ImportRow) /\ DOMAIN save = 1 .. Len(Files[f])
  <2>1. save \in [1 .. Len(Files[f]) -> ImportRow] /\ Len(Files[f]) \in Nat
    BY <1>1, <1>3
  <2> QED BY <2>1
<1>5. PICK r : /\ r = [NoRequest EXCEPT !.pc = "rows", !.kind = "upload", !.f = f, !.save = save]
               /\ request' = [request EXCEPT ![q] = r]
  BY <1>1 DEF Upload, To
<1>6. r \in ImportRequest /\ r.pc = "rows" /\ r.kind = "upload" /\ r.f = f /\ r.save = save
  BY <1>4, <1>5, NoRequestFits DEF ImportRequest
<1>7. \A p \in ImportCalls : Uploading(request[p]) => request[p].f # f
  BY DEF ImportInv, RequestsFit, RequestFits, Uploading, Upload
<1>8. /\ request' \in [ImportCalls -> ImportRequest] /\ UploadsApart'
      /\ \A p \in ImportCalls : request'[p] = IF p = q THEN r ELSE request[p]
  BY <1>5, <1>6, <1>7, OneRequest
<1>9. /\ draft' = [draft EXCEPT ![f] = "draft"] /\ draft[f] = "none"
      /\ draft \in [Imports -> {"none", "draft", "committed", "discarded"}]
      /\ eventMap' \in [Events -> LessonTypes \cup {None}] /\ ended' \in BOOLEAN
      /\ UNCHANGED <<importRows, classes, chosen, crossed>>
  BY DEF Upload, Created, ImportInv, ImportTypes
<1>10. importRows[f] = <<>>
  BY <1>9 DEF ImportInv, RowsFit
<1>11. ASSUME NEW p \in ImportCalls, request'[p] # request[p] PROVE RequestFits(request[p])'
  <2>1. request'[p] = r /\ draft'[f] = "draft" /\ importRows' = importRows
    BY <1>8, <1>9, <1>11
  <2> QED BY <1>3, <1>4, <1>6, <1>10, <2>1 DEF RequestFits, RowFits, Duplicate, None
<1> QED BY <1>8, <1>9, <1>11, Asking

LEMMA SaveUploadStep ==
  ASSUME ImportInv, NEW q \in ImportCalls, SaveUpload(q)
  PROVE  ImportInv'
<1> USE ImportFiles
<1>1. PICK f : f = request[q].f
  OBVIOUS
<1>2. /\ request[q].pc = "rows" /\ request[q].kind = "upload" /\ request' = [request EXCEPT ![q] = NoRequest]
      /\ UNCHANGED <<eventMap, classes, ended, chosen>>
  BY DEF SaveUpload, To
<1>3. f \in Imports /\ importRows[f] = <<>>
  BY <1>1, <1>2 DEF ImportInv, RequestsFit, RequestFits
<1>4. CASE Saved(f, importRows[f], request[q].save) /\ UNCHANGED draft
  <2>1. Left(request[q]) = {}
    BY <1>2 DEF Left
  <2>2. DOMAIN chosen' = Imports
    BY <1>2 DEF ImportInv, ImportTypes
  <2>3. \A g \in Imports : /\ DOMAIN chosen'[g] = 1 .. Len(Files[g])
                           /\ \A n \in 1 .. Len(Files[g]) : chosen'[g][n] \in [Fields -> Picked]
    BY <1>2 DEF ImportInv, ImportTypes
  <2> QED BY <1>1, <1>2, <1>4, <2>1, <2>2, <2>3, NoRequestFits, Saving
<1>5. CASE Deleted(f) /\ UNCHANGED <<importRows, crossed>>
  <2>1. /\ draft' = [draft EXCEPT ![f] = "none"]
        /\ draft \in [Imports -> {"none", "draft", "committed", "discarded"}]
    BY <1>5 DEF Deleted, ImportInv, ImportTypes
  <2>2. /\ request' \in [ImportCalls -> ImportRequest] /\ UploadsApart'
        /\ \A p \in ImportCalls : request'[p] = IF p = q THEN NoRequest ELSE request[p]
    BY <1>2, OneRequest, NoRequestFits DEF Uploading
  <2>3. ImportTypes'
    BY <1>2, <1>5, <2>1, <2>2 DEF ImportInv, ImportTypes
  <2>4. RowsFit'
    BY <1>2, <1>3, <1>5, <2>1 DEF ImportInv, RowsFit
  <2>5. ASSUME NEW p \in ImportCalls PROVE RequestFits(request[p])'
    <3>1. CASE p = q
      BY <2>2, <3>1, NoRequestFits DEF RequestFits
    <3>2. CASE p # q
      <4>1. RequestFits(request[p]) /\ request'[p] = request[p]
        BY <2>2, <3>2 DEF ImportInv, RequestsFit
      <4>2. request[p].pc = "rows" => request[p].f # f
        BY <1>1, <1>2, <1>3, <3>2, <4>1 DEF ImportInv, RequestsFit, RequestFits, UploadsApart, Uploading
      <4> QED BY <1>5, <2>1, <4>1, <4>2 DEF RequestFits, RowFits, Duplicate
    <3> QED BY <3>1, <3>2
  <2>6. RequestsFit'
    BY <2>2, <2>5 DEF RequestsFit
  <2>7. ChoicesKept'
    BY <1>2, <1>5 DEF ImportInv, ChoicesKept
  <2>8. ASSUME NEW c \in classes PROVE ClassFits(c)'
    <3>1. ClassFits(c)
      BY DEF ImportInv, ClassesFit
    <3>2. c.f # f
      <4>1. Len(importRows[f]) = 0
        BY <1>3
      <4> QED BY <3>1, <4>1 DEF ClassFits
    <3> QED BY <1>2, <1>5, <2>1, <3>1, <3>2 DEF ClassFits
  <2>9. ClassesFit'
    BY <1>2, <2>8 DEF ImportInv, ClassesFit
  <2>10. Linked'
    BY <1>5, <2>1 DEF ImportInv, Linked, Ready
  <2> QED BY <2>3, <2>4, <2>6, <2>7, <2>9, <2>10 DEF ImportInv
<1> QED BY <1>1, <1>4, <1>5 DEF SaveUpload

LEMMA ReadRowStep ==
  ASSUME ImportInv, NEW q \in ImportCalls, NEW f \in Imports, NEW n \in 1 .. Len(Files[f]),
         NEW field \in Fields, NEW v, ReadRow(q, f, n, field, v)
  PROVE  ImportInv'
<1> USE ImportFiles
<1>1. PICK row, match, save :
        /\ row = [importRows[f][n] EXCEPT ![field] = v, !.manual = @ \cup {field}]
        /\ match = Matched(f, n, row) /\ save = [k \in {n} |-> match]
  OBVIOUS
<1>2. PICK r : /\ r = [NoRequest EXCEPT !.pc = "rows", !.kind = "row", !.f = f, !.read = importRows[f],
                         !.save = save, !.left = {field}]
               /\ request' = [request EXCEPT ![q] = r]
  BY <1>1 DEF ReadRow, To
<1>3. importRows[f] \in Seq(ImportRow) /\ importRows[f] # <<>> /\ Len(importRows[f]) = Len(Files[f])
  BY SeqFacts DEF ReadRow, RowsAreSaved, ImportInv, ImportTypes, RowsFit
<1>4. importRows[f][n] \in ImportRow
  BY <1>3, SeqFacts
<1>5. v \in Picked
  BY DEF ReadRow, Exists, Picked
<1>6. /\ row \in ImportRow /\ row.manual = importRows[f][n].manual \cup {field}
      /\ \A x \in Fields \ {field} : row[x] = importRows[f][n][x]
  BY <1>1, <1>4, <1>5 DEF ImportRow, Fields
<1>7. /\ match \in ImportRow /\ RowFits(f, n, match) /\ match.manual = row.manual
      /\ \A x \in row.manual : match[x] = row[x]
      /\ save[n] = match
  <2>1. ImportTypes
    BY DEF ImportInv
  <2>2. /\ Matched(f, n, row) \in ImportRow /\ RowFits(f, n, Matched(f, n, row))
        /\ Matched(f, n, row).manual = row.manual
        /\ \A x \in row.manual : Matched(f, n, row)[x] = row[x]
    BY <1>6, <2>1, MatchedFits
  <2>3. save[n] = match
    BY <1>1
  <2> QED BY <1>1, <2>2, <2>3
<1>8. DOMAIN save = {n} /\ save \in SomeRows
  <2>1. n \in Nat
    OBVIOUS
  <2>2. save \in [{n} -> ImportRow] /\ DOMAIN save = {n}
    BY ONLY <1>1, <1>7, Zenon
  <2> QED BY <2>1, <2>2 DEF SomeRows
<1>9. /\ r \in ImportRequest /\ r.pc = "rows" /\ r.kind = "row" /\ r.f = f /\ r.save = save
      /\ r.read = importRows[f] /\ r.left = {field}
  BY <1>2, <1>3, <1>8, NoRequestFits DEF ImportRequest
<1>10. Keeps(importRows[f][n], save[n], {field})
  <2>1. importRows[f][n].manual \subseteq Fields
    BY <1>4 DEF ImportRow
  <2> QED BY <1>6, <1>7, <2>1 DEF Keeps
<1>11. draft[f] # "none"
  BY DEF ReadRow, IsDraft
<1>12. RequestFits(r)
  BY <1>3, <1>7, <1>8, <1>9, <1>10, <1>11 DEF RequestFits, Left, None
<1>13. UNCHANGED <<draft, importRows, classes, ended, chosen, crossed, eventMap>>
  BY DEF ReadRow
<1>14. eventMap' \in [Events -> LessonTypes \cup {None}]
  BY <1>13 DEF ImportInv, ImportTypes
<1> QED BY <1>2, <1>9, <1>12, <1>13, <1>14, Resting

LEMMA SaveRowStep ==
  ASSUME ImportInv, NEW q \in ImportCalls, SaveRow(q)
  PROVE  ImportInv'
<1> USE ImportFiles
<1>1. PICK o, f : o = request[q] /\ f = o.f
  OBVIOUS
<1>2. /\ o.pc = "rows" /\ o.kind = "row" /\ request' = [request EXCEPT ![q] = NoRequest]
      /\ Saved(f, o.read, o.save) /\ UNCHANGED <<draft, eventMap, classes, ended>>
      /\ chosen' = [chosen EXCEPT ![f] = [n \in DOMAIN chosen[f] |->
                     IF n \in DOMAIN o.save
                     THEN [x \in Fields |-> IF x \in o.left THEN o.save[n][x] ELSE chosen[f][n][x]]
                     ELSE chosen[f][n]]]
  BY <1>1 DEF SaveRow, To
<1>3. /\ f \in Imports /\ DOMAIN o.save \subseteq 1 .. Len(Files[f])
      /\ \A n \in DOMAIN o.save : o.save[n] \in ImportRow
  BY <1>1, <1>2 DEF ImportInv, RequestsFit, RequestFits
<1>4. Left(o) = o.left
  BY <1>2 DEF Left
<1>5. /\ DOMAIN chosen = Imports
      /\ \A g \in Imports : /\ DOMAIN chosen[g] = 1 .. Len(Files[g])
                            /\ \A n \in 1 .. Len(Files[g]) : chosen[g][n] \in [Fields -> Picked]
  BY DEF ImportInv, ImportTypes
<1>6. DOMAIN chosen' = Imports
  BY <1>2, <1>5
<1>7. PICK new : /\ new = [n \in 1 .. Len(Files[f]) |->
                     IF n \in DOMAIN o.save
                     THEN [x \in Fields |-> IF x \in o.left THEN o.save[n][x] ELSE chosen[f][n][x]]
                     ELSE chosen[f][n]]
                 /\ chosen'[f] = new /\ \A g \in Imports \ {f} : chosen'[g] = chosen[g]
  BY <1>2, <1>3, <1>5
<1>8. /\ DOMAIN new = 1 .. Len(Files[f])
      /\ \A n \in 1 .. Len(Files[f]) :
           /\ new[n] \in [Fields -> Picked]
           /\ \A x \in Fields : new[n][x] = IF n \in DOMAIN o.save /\ x \in o.left
                                            THEN o.save[n][x] ELSE chosen[f][n][x]
  <2>1. \A n \in DOMAIN o.save, x \in Fields : o.save[n][x] \in Picked
    BY <1>3 DEF ImportRow, Fields
  <2> QED BY <1>3, <1>5, <1>7, <2>1
<1>9. \A g \in Imports : /\ DOMAIN chosen'[g] = 1 .. Len(Files[g])
                         /\ \A n \in 1 .. Len(Files[g]) : chosen'[g][n] \in [Fields -> Picked]
  BY <1>5, <1>7, <1>8
<1>10. \A g \in Imports : \A n \in 1 .. Len(Files[g]), x \in Fields :
         chosen'[g][n][x] = IF g = f /\ n \in DOMAIN o.save /\ x \in Left(o)
                            THEN o.save[n][x] ELSE chosen[g][n][x]
  BY <1>4, <1>7, <1>8
<1>11. /\ request[q].pc = "rows" /\ NoRequest.pc # "rows" /\ NoRequest \in ImportRequest
       /\ RequestFits(NoRequest) /\ Saved(request[q].f, request[q].read, request[q].save)
       /\ request' = [request EXCEPT ![q] = NoRequest]
       /\ UNCHANGED <<draft, eventMap, classes, ended>>
  BY <1>1, <1>2, NoRequestFits
<1>12. \A g \in Imports : \A n \in 1 .. Len(Files[g]), x \in Fields :
         chosen'[g][n][x] = IF g = request[q].f /\ n \in DOMAIN request[q].save /\ x \in Left(request[q])
                            THEN request[q].save[n][x] ELSE chosen[g][n][x]
  BY <1>1, <1>10
<1> QED BY ONLY ImportInv, q \in ImportCalls, <1>6, <1>9, <1>11, <1>12, Saving

LEMMA MapStep ==
  ASSUME ImportInv, NEW q \in ImportCalls,
         \/ \E e \in Events, lesson \in LessonTypes \cup {None} : SetEventMap(q, e, lesson)
         \/ ListDrafts(q) \/ EndRematch(q)
  PROVE  ImportInv'
<1>1. /\ request[q] \in ImportRequest /\ eventMap \in [Events -> LessonTypes \cup {None}]
      /\ RequestFits(request[q])
  BY DEF ImportInv, ImportTypes, RequestsFit
<1>2. CASE \E e \in Events, lesson \in LessonTypes \cup {None} : SetEventMap(q, e, lesson)
  <2>1. PICK e \in Events, lesson \in LessonTypes \cup {None} : SetEventMap(q, e, lesson)
    BY <1>2
  <2>2. PICK r : r = [NoRequest EXCEPT !.pc = "drafts", !.kind = "map"]
    OBVIOUS
  <2>3. r \in ImportRequest /\ r.pc = "drafts" /\ RequestFits(r)
    BY <2>2, NoRequestFits DEF ImportRequest, RequestFits
  <2>4. /\ request' = [request EXCEPT ![q] = r]
        /\ UNCHANGED <<draft, importRows, classes, ended, chosen, crossed>>
        /\ eventMap' = [eventMap EXCEPT ![e] = lesson]
    BY <2>1, <2>2 DEF SetEventMap, To, Mapped
  <2>5. eventMap' \in [Events -> LessonTypes \cup {None}]
    BY <1>1, <2>4
  <2> QED BY <2>3, <2>4, <2>5, Resting
<1>3. CASE ListDrafts(q)
  <2>1. PICK r : r = [request[q] EXCEPT !.pc = "next", !.left = {f \in Imports : IsDraft(f)}]
    OBVIOUS
  <2>2. r \in ImportRequest /\ r.pc = "next" /\ RequestFits(r)
    BY <1>1, <1>3, <2>1 DEF ImportRequest, RequestFits, ListDrafts
  <2>3. /\ request' = [request EXCEPT ![q] = r]
        /\ UNCHANGED <<draft, importRows, classes, ended, chosen, crossed, eventMap>>
    BY <1>3, <2>1 DEF ListDrafts, To
  <2> QED BY <1>1, <2>2, <2>3, Resting
<1>4. CASE EndRematch(q)
  <2>1. /\ request' = [request EXCEPT ![q] = NoRequest]
        /\ UNCHANGED <<draft, importRows, classes, ended, chosen, crossed, eventMap>>
    BY <1>4 DEF EndRematch, To
  <2> QED BY <1>1, <2>1, NoRequestFits, Resting
<1> QED BY <1>2, <1>3, <1>4

LEMMA RematchStep ==
  ASSUME ImportInv, NEW q \in ImportCalls, NEW f \in Imports, Rematch(q, f)
  PROVE  ImportInv'
<1> USE ImportFiles
<1>1. PICK o : o = request[q]
  OBVIOUS
<1>2. /\ o \in ImportRequest /\ o.pc = "next" /\ f \in o.left
      /\ eventMap \in [Events -> LessonTypes \cup {None}]
      /\ UNCHANGED <<draft, importRows, classes, ended, chosen, crossed, eventMap>>
      /\ RequestFits(o) /\ o.kind = "map"
  BY <1>1 DEF Rematch, ImportInv, ImportTypes, RequestsFit, RequestFits
<1>3. CASE ~RowsAreSaved(f)
  <2>1. PICK r : r = [o EXCEPT !.left = @ \ {f}]
    OBVIOUS
  <2>2. r \in ImportRequest /\ r.pc = "next" /\ RequestFits(r)
    BY <1>2, <2>1 DEF ImportRequest, RequestFits
  <2>3. request' = [request EXCEPT ![q] = r]
    BY <1>1, <1>3, <2>1 DEF Rematch, To
  <2> QED BY <1>2, <2>2, <2>3, Resting
<1>4. CASE RowsAreSaved(f)
  <2>1. importRows[f] \in Seq(ImportRow) /\ importRows[f] # <<>> /\ Len(importRows[f]) = Len(Files[f])
    BY <1>4, SeqFacts DEF RowsAreSaved, ImportInv, ImportTypes, RowsFit
  <2>2. PICK save : save = [n \in DOMAIN importRows[f] |-> Rematched(f, n, importRows[f][n])]
    OBVIOUS
  <2>3. ASSUME NEW n \in 1 .. Len(Files[f])
        PROVE  save[n] \in ImportRow /\ RowFits(f, n, save[n]) /\ Keeps(importRows[f][n], save[n], {})
    <3>1. importRows[f][n] \in ImportRow /\ save[n] = Matched(f, n, importRows[f][n])
      BY <2>1, <2>2, SeqFacts DEF Rematched
    <3>2. ImportTypes
      BY DEF ImportInv
    <3> QED BY <3>1, <3>2, MatchedFits DEF Keeps
  <2>4. save \in Seq(ImportRow) /\ DOMAIN save = 1 .. Len(Files[f])
    <3>1. DOMAIN importRows[f] = 1 .. Len(Files[f]) /\ Len(Files[f]) \in Nat
      BY <2>1, SeqFacts
    <3>2. DOMAIN save = 1 .. Len(Files[f]) /\ save = [n \in 1 .. Len(Files[f]) |-> save[n]]
      BY <2>2, <3>1
    <3>3. save \in [1 .. Len(Files[f]) -> ImportRow]
      BY <2>3, <3>2
    <3> QED BY <3>1, <3>3
  <2>5. PICK r : r = [o EXCEPT !.pc = "rows", !.f = f, !.left = @ \ {f}, !.read = importRows[f], !.save = save]
    OBVIOUS
  <2>6. /\ r \in ImportRequest /\ r.pc = "rows" /\ r.f = f /\ r.read = importRows[f] /\ r.save = save
        /\ r.kind = "map"
    BY <1>2, <1>4, <2>1, <2>4, <2>5 DEF ImportRequest
  <2>7. request' = [request EXCEPT ![q] = r]
    BY <1>1, <1>4, <2>2, <2>5 DEF Rematch, To
  <2>8. draft[f] # "none"
    BY <2>1 DEF ImportInv, RowsFit
  <2>9. RequestFits(r)
    BY <2>1, <2>3, <2>4, <2>6, <2>8 DEF RequestFits, Left, None
  <2> QED BY <1>2, <2>6, <2>7, <2>9, Resting
<1> QED BY <1>3, <1>4

LEMMA SaveRematchStep ==
  ASSUME ImportInv, NEW q \in ImportCalls, SaveRematch(q)
  PROVE  ImportInv'
<1>1. PICK o : o = request[q]
  OBVIOUS
<1>2. /\ o \in ImportRequest /\ o.pc = "rows" /\ o.kind = "map" /\ RequestFits(o)
      /\ eventMap \in [Events -> LessonTypes \cup {None}]
      /\ UNCHANGED <<draft, classes, ended, chosen, eventMap>>
  BY <1>1 DEF SaveRematch, ImportInv, ImportTypes, RequestsFit
<1>3. CASE Saved(o.f, o.read, o.save) /\ To(q, [o EXCEPT !.pc = "next"])
  <2>1. PICK r : r = [o EXCEPT !.pc = "next"]
    OBVIOUS
  <2>2. r \in ImportRequest /\ r.pc # "rows" /\ RequestFits(r)
    BY <1>2, <2>1 DEF ImportRequest, RequestFits
  <2>3. Left(o) = {}
    BY <1>2 DEF Left
  <2>4. /\ DOMAIN chosen' = Imports
        /\ \A f \in Imports : /\ DOMAIN chosen'[f] = 1 .. Len(Files[f])
                              /\ \A n \in 1 .. Len(Files[f]) : chosen'[f][n] \in [Fields -> Picked]
    BY <1>2 DEF ImportInv, ImportTypes
  <2>5. /\ request[q].pc = "rows" /\ Saved(request[q].f, request[q].read, request[q].save)
        /\ request' = [request EXCEPT ![q] = r] /\ UNCHANGED <<draft, eventMap, classes, ended>>
    BY <1>1, <1>2, <1>3, <2>1 DEF To
  <2>6. \A f \in Imports : \A n \in 1 .. Len(Files[f]), x \in Fields :
          chosen'[f][n][x] = IF f = request[q].f /\ n \in DOMAIN request[q].save /\ x \in Left(request[q])
                             THEN request[q].save[n][x] ELSE chosen[f][n][x]
    BY <1>1, <1>2, <2>3
  <2> QED BY ONLY ImportInv, q \in ImportCalls, <2>2, <2>4, <2>5, <2>6, Saving
<1>4. CASE To(q, NoRequest) /\ UNCHANGED <<importRows, crossed>>
  BY <1>2, <1>4, NoRequestFits, Resting DEF To
<1> QED BY <1>1, <1>3, <1>4 DEF SaveRematch

\* Of the rows that are ready, each is the first of its id.
LEMMA ReadyFirst ==
  ASSUME ImportInv, NEW f \in Imports
  PROVE  /\ FirstReady(f) = Ready(f)
         /\ \A n \in Ready(f) : n \in 1 .. Len(Files[f]) /\ n \in 1 .. Len(importRows[f]) /\ Files[f][n].valid
<1> USE ImportFiles
<1>1. /\ importRows[f] \in Seq(ImportRow) /\ Len(importRows[f]) \in {0, Len(Files[f])}
      /\ \A n \in 1 .. Len(importRows[f]) : RowFits(f, n, importRows[f][n])
  BY DEF ImportInv, ImportTypes, RowsFit
<1>2. DOMAIN importRows[f] = 1 .. Len(importRows[f]) /\ Len(importRows[f]) \in Nat
  BY <1>1, SeqFacts
<1>3. \A n \in Ready(f) : /\ n \in 1 .. Len(Files[f]) /\ n \in 1 .. Len(importRows[f])
                          /\ Files[f][n].valid /\ ~Duplicate(f, n)
  BY <1>1, <1>2 DEF Ready, RowFits, Blocking
<1>4. ASSUME NEW n \in Ready(f), NEW k \in Ready(f), Files[f][k].id = Files[f][n].id PROVE n <= k
  BY <1>3, <1>4 DEF Duplicate
<1>5. FirstReady(f) = Ready(f)
  BY <1>4 DEF FirstReady
<1> QED BY <1>3, <1>5

LEMMA CommitStep ==
  ASSUME ImportInv, NEW f \in Imports, Commit(f)
  PROVE  ImportInv'
<1> USE ImportFiles
<1>1. /\ draft[f] = "draft" /\ draft' = [draft EXCEPT ![f] = "committed"]
      /\ draft \in [Imports -> {"none", "draft", "committed", "discarded"}]
      /\ UNCHANGED <<eventMap, ended, request, chosen, crossed>>
      /\ ended \in BOOLEAN
  BY DEF Commit, IsDraft, ImportInv, ImportTypes
<1>2. PICK ready : /\ ready = Ready(f) /\ FirstReady(f) = ready
                   /\ \A n \in ready : /\ n \in 1 .. Len(Files[f]) /\ n \in 1 .. Len(importRows[f])
                                       /\ Files[f][n].valid
  BY ReadyFirst
<1>3. importRows \in [Imports -> Seq(ImportRow)]
  BY DEF ImportInv, ImportTypes
<1>4. /\ Len(importRows[f]) \in Nat /\ DOMAIN importRows[f] = 1 .. Len(importRows[f])
      /\ \A n \in 1 .. Len(importRows[f]) : importRows[f][n] \in ImportRow
  BY <1>3, SeqFacts
<1>5. PICK table : /\ table = [n \in DOMAIN importRows[f] |->
                       IF n \in ready THEN [importRows[f][n] EXCEPT !.class = Files[f][n].id] ELSE importRows[f][n]]
                  /\ importRows' = [importRows EXCEPT ![f] = table]
  BY <1>2 DEF Commit
<1>6. ASSUME NEW n \in 1 .. Len(importRows[f])
      PROVE  /\ table[n] \in ImportRow
             /\ table[n].instructor = importRows[f][n].instructor
             /\ table[n].lesson_type = importRows[f][n].lesson_type
             /\ table[n].manual = importRows[f][n].manual /\ table[n].problems = importRows[f][n].problems
             /\ table[n].status = importRows[f][n].status
             /\ n \in ready => table[n].class # None
  <2>1. importRows[f][n] \in ImportRow
    BY <1>4
  <2>2. CASE n \in ready
    <3>1. Files[f][n].id \in ExternalIds /\ Files[f][n].id # None
      BY <1>2, <2>2 DEF ExternalIds
    <3>2. table[n] = [importRows[f][n] EXCEPT !.class = Files[f][n].id]
      BY <1>4, <1>5, <2>2
    <3> QED BY <2>1, <3>1, <3>2 DEF ImportRow
  <2>3. CASE n \notin ready
    BY <1>4, <1>5, <2>1, <2>3
  <2> QED BY <2>2, <2>3
<1>7. table \in Seq(ImportRow) /\ Len(table) = Len(importRows[f])
  <2>1. table \in [1 .. Len(importRows[f]) -> ImportRow]
    BY <1>4, <1>5, <1>6
  <2> QED BY <1>4, <2>1
<1>8. /\ importRows'[f] = table /\ \A g \in Imports \ {f} : importRows'[g] = importRows[g]
      /\ importRows' \in [Imports -> Seq(ImportRow)]
      /\ \A g \in Imports : Len(importRows'[g]) = Len(importRows[g])
                            /\ (importRows'[g] = <<>> <=> importRows[g] = <<>>)
  <2>1. /\ importRows'[f] = table /\ \A g \in Imports \ {f} : importRows'[g] = importRows[g]
        /\ importRows' \in [Imports -> Seq(ImportRow)]
    BY <1>3, <1>5, <1>7
  <2>2. table = <<>> <=> importRows[f] = <<>>
    BY <1>3, <1>7, SeqFacts
  <2> QED BY <1>7, <2>1, <2>2
<1>9. ImportTypes'
  BY <1>1, <1>8 DEF ImportInv, ImportTypes
<1>10. RowsFit'
  <2> SUFFICES ASSUME NEW g \in Imports
               PROVE  /\ Len(importRows'[g]) \in {0, Len(Files[g])}
                      /\ \A n \in 1 .. Len(importRows'[g]) : RowFits(g, n, importRows'[g][n])
                      /\ draft'[g] = "none" => importRows'[g] = <<>>
                      /\ importRows'[g] = <<>> =>
                           \A n \in 1 .. Len(Files[g]), x \in Fields : chosen'[g][n][x] = None
    BY DEF RowsFit, RowFits, Duplicate
  <2>1. \A n \in 1 .. Len(importRows'[g]) : RowFits(g, n, importRows'[g][n])
    BY <1>6, <1>8 DEF ImportInv, RowsFit, RowFits
  <2> QED BY <1>1, <1>8, <2>1 DEF ImportInv, RowsFit
<1>11. RequestsFit'
  <2>1. ASSUME NEW p \in ImportCalls PROVE RequestFits(request[p])'
    <3>1. RequestFits(request[p])
      BY DEF ImportInv, RequestsFit
    <3> QED BY <1>1, <1>8, <3>1 DEF RequestFits, RowFits, Duplicate
  <2> QED BY <1>1, <2>1 DEF ImportInv, RequestsFit, UploadsApart, Uploading
<1>12. ChoicesKept'
  <2> SUFFICES ASSUME NEW g \in Imports, g \notin crossed, NEW n \in 1 .. Len(importRows[g]), NEW x \in Fields,
                      chosen[g][n][x] # None
               PROVE  x \in importRows'[g][n].manual /\ importRows'[g][n][x] = chosen[g][n][x]
    BY <1>1, <1>8 DEF ChoicesKept
  <2>1. x \in importRows[g][n].manual /\ importRows[g][n][x] = chosen[g][n][x]
    BY DEF ImportInv, ChoicesKept
  <2>2. CASE g = f
    BY <1>6, <1>8, <2>1, <2>2 DEF Fields
  <2>3. CASE g # f
    BY <1>8, <2>1, <2>3
  <2> QED BY <2>2, <2>3
<1>13. \A c \in classes : ClassFits(c)'
  BY <1>1, <1>8 DEF ImportInv, ClassesFit, ClassFits
<1>14. PICK new : new = {n \in ready : New(f, n)}
  OBVIOUS
<1>15. classes' = classes \cup {Class(f, n) : n \in new}
  BY <1>2, <1>14 DEF Commit
<1>16. ASSUME NEW n \in ready
       PROVE  /\ Class(f, n).id = Files[f][n].id /\ Class(f, n).f = f /\ Class(f, n).n = n
              /\ Class(f, n).instructor = importRows[f][n].instructor
              /\ Class(f, n).lesson_type = importRows[f][n].lesson_type
              /\ ~(Class(f, n).late /\ Class(f, n).status = "scheduled")
  BY <1>1 DEF Class
<1>17. ASSUME NEW n \in ready, NEW c, c = Class(f, n) PROVE ClassFits(c)'
  <2>1. f \notin crossed => \A x \in Fields : chosen[f][n][x] \in {None, c[x]}
    BY <1>2, <1>16, <1>17 DEF ImportInv, ChoicesKept, Fields
  <2>2. /\ c.f = f /\ c.n = n /\ c.id = Files[f][n].id /\ ~(c.late /\ c.status = "scheduled")
        /\ f \notin crossed => \A x \in Fields : chosen[f][n][x] \in {None, c[x]}
    BY <1>16, <1>17, <2>1
  <2>3. /\ f \in Imports /\ n \in 1 .. Len(importRows'[f]) /\ draft'[f] = "committed" /\ Files[f][n].valid
    BY <1>1, <1>2, <1>8
  <2> QED BY <1>1, <2>2, <2>3 DEF ClassFits
<1>18. ClassesFit'
  <2>1. ASSUME NEW c \in classes', NEW d \in classes', c.id = d.id PROVE c = d
    <3>1. CASE c \in classes /\ d \in classes
      BY <2>1, <3>1 DEF ImportInv, ClassesFit
    <3>2. ASSUME NEW n \in new, NEW e \in classes PROVE Class(f, n).id # e.id
      BY <1>14, <1>16 DEF New, Imported
    <3>3. ASSUME NEW n \in new, NEW k \in new, Class(f, n).id = Class(f, k).id PROVE n = k
      <4>1. n \in FirstReady(f) /\ k \in FirstReady(f) /\ n \in Ready(f) /\ k \in Ready(f)
        BY <1>2, <1>14
      <4>2. Files[f][n].id = Files[f][k].id /\ n \in 1 .. Len(Files[f]) /\ k \in 1 .. Len(Files[f])
        BY <1>2, <1>14, <1>16, <3>3
      <4> QED BY <4>1, <4>2 DEF FirstReady
    <3> QED BY <1>15, <2>1, <3>1, <3>2, <3>3
  <2>2. ASSUME NEW c \in classes' PROVE ClassFits(c)'
    <3>1. CASE c \in classes
      BY <1>13, <3>1
    <3>2. CASE c \notin classes
      <4>1. PICK n \in ready : c = Class(f, n)
        BY <1>14, <1>15, <2>2, <3>2
      <4> QED BY <1>17, <4>1
    <3> QED BY <3>1, <3>2
  <2> QED BY <2>1, <2>2 DEF ClassesFit
<1>19. Linked'
  <2> SUFFICES ASSUME NEW g \in Imports, draft'[g] = "committed", g \notin crossed', NEW n \in Ready(g)'
               PROVE  importRows'[g][n].class # None
    BY DEF Linked
  <2>1. CASE g # f
    BY <1>1, <1>8, <2>1 DEF ImportInv, Linked, Ready
  <2>2. CASE g = f
    <3>1. n \in 1 .. Len(importRows[f])
      BY <1>4, <1>5, <1>8, <2>2 DEF Ready
    <3>2. n \in ready
      BY <1>2, <1>4, <1>6, <1>8, <2>2, <3>1 DEF Ready
    <3> QED BY <1>6, <1>8, <2>2, <3>1, <3>2
  <2> QED BY <2>1, <2>2
<1> QED BY <1>9, <1>10, <1>11, <1>12, <1>18, <1>19 DEF ImportInv

LEMMA ImportSteps == ImportInv /\ [ImportsNext]_importVars => ImportInv'
<1> SUFFICES ASSUME ImportInv, [ImportsNext]_importVars PROVE ImportInv'
  OBVIOUS
<1>1. /\ draft \in [Imports -> {"none", "draft", "committed", "discarded"}]
      /\ eventMap \in [Events -> LessonTypes \cup {None}] /\ ended \in BOOLEAN
      /\ request \in [ImportCalls -> ImportRequest] /\ UploadsApart
  BY DEF ImportInv, ImportTypes, RequestsFit
<1>2. CASE UNCHANGED importVars \/ LessonsEnd \/ \E f \in Imports : Discard(f)
  <2>1. UNCHANGED <<importRows, classes, chosen, crossed, request, eventMap>>
    BY <1>2 DEF importVars, LessonsEnd, Discard
  <2>2. ended' \in BOOLEAN
    BY <1>1, <1>2 DEF importVars, LessonsEnd, Discard
  <2>3. /\ draft' \in [Imports -> {"none", "draft", "committed", "discarded"}]
        /\ \A f \in Imports : /\ draft'[f] = "none" => draft[f] = "none"
                              /\ draft'[f] = "committed" <=> draft[f] = "committed"
    BY <1>1, <1>2 DEF importVars, LessonsEnd, Discard, Discarded, IsDraft
  <2>4. UploadsApart'
    BY <1>1, <2>1 DEF UploadsApart, Uploading
  <2> QED BY <1>1, <2>1, <2>2, <2>3, <2>4, Asking
<1>3. CASE \E f \in Imports : Commit(f)
  BY <1>3, CommitStep
<1>4. CASE \E q \in ImportCalls, f \in Imports : Upload(q, f)
  BY <1>4, UploadStep
<1>5. CASE \E q \in ImportCalls, f \in Imports : Rematch(q, f)
  BY <1>5, RematchStep
<1>6. CASE \E q \in ImportCalls, f \in Imports : \E n \in 1 .. Len(Files[f]), field \in Fields,
             v \in Instructors \cup LessonTypes : ReadRow(q, f, n, field, v)
  BY <1>6, ReadRowStep
<1>7. CASE \E q \in ImportCalls : SaveUpload(q)
  BY <1>7, SaveUploadStep
<1>8. CASE \E q \in ImportCalls : SaveRow(q)
  BY <1>8, SaveRowStep
<1>9. CASE \E q \in ImportCalls : SaveRematch(q)
  BY <1>9, SaveRematchStep
<1>10. CASE \E q \in ImportCalls :
              \/ \E e \in Events, lesson \in LessonTypes \cup {None} : SetEventMap(q, e, lesson)
              \/ ListDrafts(q) \/ EndRematch(q)
  BY <1>10, MapStep
<1> QED BY <1>2, <1>3, <1>4, <1>5, <1>6, <1>7, <1>8, <1>9, <1>10 DEF ImportsNext

LEMMA ImportFits == ImportInv => ImportedAsReviewed
  BY DEF ImportInv, ClassesFit, ClassFits, Linked, ImportedAsReviewed

\* An id becomes one class, only from a valid row of a committed import and never as scheduled when
\* it is over; and, unless a row was saved over a newer one or late, as the reviewer chose.
THEOREM Reviewed == ImportsSpec => []ImportedAsReviewed
BY ImportInit, ImportSteps, ImportFits, PTL DEF ImportsSpec

=============================================================================
