------------------------- MODULE InstructorSchedule -------------------------
(***************************************************************************)
(* The booking transactions of supabase/migrations/276_booking.sql on the  *)
(* classes table, at the granularity of their SQL statements.              *)
(*                                                                         *)
(* book_classes, rebook_class and set_class_status run READ COMMITTED, so  *)
(* each statement sees what was committed before it started, and a         *)
(* transaction's own writes.  What keeps two of them from booking one      *)
(* instructor twice is the advisory lock 'classes:<instructor>' that each  *)
(* takes before it looks for an overlap.  The model keeps the locks, the   *)
(* order of the statements and what each of them reads; a class is reduced *)
(* to its instructor, its time slot, its status and where it came from.    *)
(***************************************************************************)
EXTENDS Naturals, FiniteSets

CONSTANTS
  Classes,      \* class ids (random UUIDs: never drawn twice)
  Instructors,
  Sessions,     \* database sessions that serve API requests
  Slots,        \* time ranges <<starts_at, ends_at>>
  LiveStatuses, \* the statuses other than cancelled
  MaxSeries     \* most occurrences of a weekly series

ASSUME SlotsAssumption ==
  /\ Slots \subseteq Nat \X Nat
  /\ \A t \in Slots : t[1] < t[2]       \* classes_time_range_check
ASSUME StatusAssumption ==          \* classes_status_check
  LiveStatuses \subseteq {"scheduled", "completed", "no_show"}
ASSUME MaxSeriesAssumption == MaxSeries \in Nat \ {0}

VARIABLES
  classes,      \* the committed rows, a function on the ids that exist
  lock,         \* per instructor, the sessions holding the advisory lock
  rowLock,      \* per class, the sessions holding its row (for update)
  txn,          \* what each session is doing
  astray        \* history: classes restored under another instructor's lock

vars == <<classes, lock, rowLock, txn, astray>>

-----------------------------------------------------------------------------
Statuses == LiveStatuses \cup {"cancelled"}
Row == [instructor: Instructors, slot: Slots, status: Statuses,
        source: {"ssms", "app_import"}]

PartialFn(D, S) == UNION {[X -> S] : X \in SUBSET D}

Idle == [op |-> "none", pc |-> "idle"]
BookTxn == [op: {"book"}, pc: {"lock", "check", "commit"},
            instructor: Instructors, status: LiveStatuses,
            todo: PartialFn(Classes, Slots), writes: PartialFn(Classes, Row)]
RebookTxn == [op: {"rebook"}, pc: {"lock", "check", "row", "commit"},
              instructor: Instructors, class: Classes, slot: Slots,
              writes: PartialFn(Classes, Row)]
StatusRequest == [op: {"status"}, pc: {"read"}, class: Classes,
                  status: Statuses]
StatusTxn == [op: {"status"}, pc: {"lock", "row", "restore", "commit"},
              instructor: Instructors, class: Classes, status: Statuses,
              writes: PartialFn(Classes, Row)]
Txn == {Idle} \cup BookTxn \cup RebookTxn \cup StatusRequest \cup StatusTxn

NoRows == [c \in {} |-> {}]
Only(c, row) == [d \in {c} |-> row]

\* The rows with the new ones written over them.
Over(new, rows) ==
  [c \in DOMAIN new \cup DOMAIN rows |->
     IF c \in DOMAIN new THEN new[c] ELSE rows[c]]

\* starts_at < other's ends_at and ends_at > other's starts_at.
Overlap(a, b) == a[1] < b[2] /\ b[1] < a[2]

Live(row) == row.status \in LiveStatuses

\* Mutation: the query looks for scheduled classes only.
ConflictScheduled(rows, i, slot, c) ==
  \E o \in DOMAIN rows \ {c} :
    /\ rows[o].instructor = i
    /\ rows[o].status = "scheduled"
    /\ Overlap(rows[o].slot, slot)

\* The overlap query: some class of instructor i other than c, not cancelled,
\* that overlaps the slot.
Conflict(rows, i, slot, c) ==
  \E o \in DOMAIN rows \ {c} :
    /\ rows[o].instructor = i
    /\ Live(rows[o])
    /\ Overlap(rows[o].slot, slot)

\* What a statement of session s sees: the committed rows and its own writes.
Visible(s) == Over(txn[s].writes, classes)

\* A fresh UUID: no row has it and no session has drawn it.
Fresh(c) ==
  /\ c \notin DOMAIN classes
  /\ \A s \in Sessions : txn[s].op = "book" =>
       c \notin DOMAIN txn[s].todo \cup DOMAIN txn[s].writes

\* The end of a transaction releases every lock it holds.
Release(s) ==
  /\ lock' = [i \in Instructors |-> lock[i] \ {s}]
  /\ rowLock' = [c \in Classes |-> rowLock[c] \ {s}]
  /\ txn' = [txn EXCEPT ![s] = Idle]

-----------------------------------------------------------------------------
(* The handlers of BookingService, up to the call of the SQL function.      *)

\* BookingService.create: the occurrences do not overlap each other (they are
\* a week apart) and conflicts() has found the slots free.
RequestBook(s, i, plan, status) ==
  /\ txn[s] = Idle
  /\ plan # NoRows
  /\ Cardinality(DOMAIN plan) <= MaxSeries
  /\ \A c \in DOMAIN plan : Fresh(c)
  /\ \A a, b \in DOMAIN plan : a # b => ~Overlap(plan[a], plan[b])
  /\ \A c \in DOMAIN plan : ~Conflict(classes, i, plan[c], c)
  /\ txn' = [txn EXCEPT ![s] =
               [op |-> "book", pc |-> "lock", instructor |-> i,
                status |-> status, todo |-> plan, writes |-> NoRows]]
  /\ UNCHANGED <<classes, lock, rowLock, astray>>

\* BookingService.update: what the request leaves out is taken from the row
\* read here, and conflicts() has found the target free of other classes.
RequestRebook(s, c, i, slot) ==
  /\ txn[s] = Idle
  /\ c \in DOMAIN classes
  /\ Live(classes[c])
  /\ ~Conflict(classes, i, slot, c)
  /\ txn' = [txn EXCEPT ![s] =
               [op |-> "rebook", pc |-> "lock", instructor |-> i, class |-> c,
                slot |-> slot, writes |-> NoRows]]
  /\ UNCHANGED <<classes, lock, rowLock, astray>>

\* BookingService.cancel and setStatus return early on a class that already
\* has the status.
RequestStatus(s, c, status) ==
  /\ txn[s] = Idle
  /\ c \in DOMAIN classes
  /\ classes[c].status # status
  /\ txn' = [txn EXCEPT ![s] =
               [op |-> "status", pc |-> "read", class |-> c, status |-> status]]
  /\ UNCHANGED <<classes, lock, rowLock, astray>>

-----------------------------------------------------------------------------
(* The SQL functions.                                                       *)

\* Mutation: the transaction starts without its list of writes.
ReadInstructorOnly(s) ==
  /\ txn[s].pc = "read"
  /\ txn' = [txn EXCEPT ![s] =
               [op |-> "status", pc |-> "lock", class |-> txn[s].class,
                instructor |-> classes[txn[s].class].instructor,
                status |-> txn[s].status]]
  /\ UNCHANGED <<classes, lock, rowLock, astray>>

\* Mutation: the first select of set_class_status locks the row.
ReadForUpdate(s) ==
  LET c == txn[s].class IN
  /\ txn[s].pc = "read"
  /\ rowLock[c] \subseteq {s}
  /\ rowLock' = [rowLock EXCEPT ![c] = @ \cup {s}]
  /\ txn' = [txn EXCEPT ![s] =
               [op |-> "status", pc |-> "lock", class |-> c,
                instructor |-> classes[c].instructor,
                status |-> txn[s].status, writes |-> NoRows]]
  /\ UNCHANGED <<classes, lock, astray>>

\* The first select of set_class_status, which takes no lock.
ReadInstructor(s) ==
  /\ txn[s].pc = "read"
  /\ LET c == txn[s].class IN
       txn' = [txn EXCEPT ![s] =
                 [op |-> "status", pc |-> "lock", class |-> c,
                  instructor |-> classes[c].instructor,
                  status |-> txn[s].status, writes |-> NoRows]]
  /\ UNCHANGED <<classes, lock, rowLock, astray>>

\* Mutation: the lock is tried and its result ignored.
TryLock(s) ==
  /\ txn[s].pc = "lock"
  /\ lock' = [lock EXCEPT ![txn[s].instructor] = @ \cup {s}]
  /\ txn' = [txn EXCEPT ![s].pc = IF txn[s].op = "status" THEN "row" ELSE "check"]
  /\ UNCHANGED <<classes, rowLock, astray>>

\* pg_advisory_xact_lock waits until no other session holds the lock.
TakeLock(s) ==
  /\ txn[s].pc = "lock"
  /\ lock[txn[s].instructor] \subseteq {s}
  /\ lock' = [lock EXCEPT ![txn[s].instructor] = @ \cup {s}]
  /\ txn' = [txn EXCEPT ![s].pc = IF txn[s].op = "status" THEN "row" ELSE "check"]
  /\ UNCHANGED <<classes, rowLock, astray>>

\* book_classes: one turn of the loop, the overlap query and the insert.
BookNext(s, c) ==
  /\ txn[s].op = "book" /\ txn[s].pc = "check"
  /\ c \in DOMAIN txn[s].todo
  /\ ~Conflict(Visible(s), txn[s].instructor, txn[s].todo[c], c)
  /\ LET left == DOMAIN txn[s].todo \ {c}
         row == [instructor |-> txn[s].instructor, slot |-> txn[s].todo[c],
                 status |-> txn[s].status, source |-> "ssms"]
     IN txn' = [txn EXCEPT
                  ![s].writes = Over(Only(c, row), @),
                  ![s].todo = [d \in left |-> @[d]],
                  ![s].pc = IF left = {} THEN "commit" ELSE "check"]
  /\ UNCHANGED <<classes, lock, rowLock, astray>>

\* rebook_class: the overlap query.
RebookCheck(s) ==
  /\ txn[s].op = "rebook" /\ txn[s].pc = "check"
  /\ ~Conflict(classes, txn[s].instructor, txn[s].slot, txn[s].class)
  /\ txn' = [txn EXCEPT ![s].pc = "row"]
  /\ UNCHANGED <<classes, lock, rowLock, astray>>

\* Mutation: the row is locked and updated whatever its status is.
RebookAnyRow(s) ==
  LET c == txn[s].class IN
  /\ txn[s].op = "rebook" /\ txn[s].pc = "row"
  /\ rowLock[c] \subseteq {s}
  /\ rowLock' = [rowLock EXCEPT ![c] = @ \cup {s}]
  /\ txn' = [txn EXCEPT
               ![s].writes = Only(c, [classes[c] EXCEPT
                                        !.instructor = txn[s].instructor,
                                        !.slot = txn[s].slot]),
               ![s].pc = "commit"]
  /\ UNCHANGED <<classes, lock, astray>>

\* rebook_class: select ... where status <> 'cancelled' for update, and the
\* update of the row it locked.
RebookRow(s) ==
  LET c == txn[s].class IN
  /\ txn[s].op = "rebook" /\ txn[s].pc = "row"
  /\ rowLock[c] \subseteq {s}
  /\ Live(classes[c])
  /\ rowLock' = [rowLock EXCEPT ![c] = @ \cup {s}]
  /\ txn' = [txn EXCEPT
               ![s].writes = Only(c, [classes[c] EXCEPT
                                        !.instructor = txn[s].instructor,
                                        !.slot = txn[s].slot]),
               ![s].pc = "commit"]
  /\ UNCHANGED <<classes, lock, astray>>

\* set_class_status: the second select, for update.  The update is decided by
\* the row as it is now; giving back a cancelled class is checked first.
StatusRow(s) ==
  LET c == txn[s].class IN
  /\ txn[s].op = "status" /\ txn[s].pc = "row"
  /\ rowLock[c] \subseteq {s}
  /\ rowLock' = [rowLock EXCEPT ![c] = @ \cup {s}]
  /\ txn' = [txn EXCEPT
               ![s].writes = Only(c, [classes[c] EXCEPT !.status = txn[s].status]),
               ![s].pc = IF ~Live(classes[c]) /\ txn[s].status # "cancelled"
                         THEN "restore" ELSE "commit"]
  /\ UNCHANGED <<classes, lock, astray>>

\* set_class_status: the overlap query of a class that is given back.
RestoreCheck(s) ==
  LET c == txn[s].class IN
  /\ txn[s].pc = "restore"
  /\ ~Conflict(classes, classes[c].instructor, classes[c].slot, c)
  /\ txn' = [txn EXCEPT ![s].pc = "commit"]
  /\ UNCHANGED <<classes, lock, rowLock, astray>>

\* The classes whose overlap was last checked under the wrong lock.
AstrayAfter(s) ==
  LET c == txn[s].class IN
  IF txn[s].op # "status" THEN astray \ DOMAIN txn[s].writes
  ELSE IF Live(classes[c]) \/ txn[s].status = "cancelled" THEN astray
  ELSE IF classes[c].instructor = txn[s].instructor THEN astray \ {c}
  ELSE astray \cup {c}

Commit(s) ==
  /\ txn[s].pc = "commit"
  /\ classes' = Over(txn[s].writes, classes)
  /\ astray' = AstrayAfter(s)
  /\ Release(s)

\* raise exception 'class % overlaps an existing class' (SB409).
RaiseOverlap(s) ==
  /\ \/ /\ txn[s].op = "book" /\ txn[s].pc = "check"
        /\ \E c \in DOMAIN txn[s].todo :
             Conflict(Visible(s), txn[s].instructor, txn[s].todo[c], c)
     \/ /\ txn[s].op = "rebook" /\ txn[s].pc = "check"
        /\ Conflict(classes, txn[s].instructor, txn[s].slot, txn[s].class)
     \/ /\ txn[s].pc = "restore"
        /\ LET c == txn[s].class IN
             Conflict(classes, classes[c].instructor, classes[c].slot, c)
  /\ Release(s)
  /\ UNCHANGED <<classes, astray>>

\* raise exception 'class % not found or cancelled' (P0002).
RaiseCancelled(s) ==
  /\ txn[s].op = "rebook" /\ txn[s].pc = "row"
  /\ rowLock[txn[s].class] \subseteq {s}
  /\ ~Live(classes[txn[s].class])
  /\ Release(s)
  /\ UNCHANGED <<classes, astray>>

\* The session is lost before it commits: the database rolls it back.
Lost(s) ==
  /\ txn[s] # Idle
  /\ Release(s)
  /\ UNCHANGED <<classes, astray>>

\* commit_class_import inserts app_import rows; it takes no instructor lock
\* and looks for no overlap.
ImportClass(c, i, slot, status) ==
  /\ Fresh(c)
  /\ classes' = Over(Only(c, [instructor |-> i, slot |-> slot,
                              status |-> status, source |-> "app_import"]),
                     classes)
  /\ UNCHANGED <<lock, rowLock, txn, astray>>

-----------------------------------------------------------------------------
Init ==
  /\ classes = NoRows
  /\ lock = [i \in Instructors |-> {}]
  /\ rowLock = [c \in Classes |-> {}]
  /\ txn = [s \in Sessions |-> Idle]
  /\ astray = {}

Request(s) ==
  \/ \E i \in Instructors, plan \in PartialFn(Classes, Slots),
        status \in LiveStatuses : RequestBook(s, i, plan, status)
  \/ \E c \in Classes, i \in Instructors, slot \in Slots :
        RequestRebook(s, c, i, slot)
  \/ \E c \in Classes, status \in Statuses : RequestStatus(s, c, status)

Statement(s) ==
  \/ ReadInstructor(s)
  \/ TakeLock(s)
  \/ \E c \in Classes : BookNext(s, c)
  \/ RebookCheck(s)
  \/ RebookRow(s)
  \/ StatusRow(s)
  \/ RestoreCheck(s)
  \/ Commit(s)
  \/ RaiseOverlap(s)
  \/ RaiseCancelled(s)

Next ==
  \/ \E s \in Sessions : Request(s) \/ Statement(s) \/ Lost(s)
  \/ \E c \in Classes, i \in Instructors, slot \in Slots, status \in Statuses :
        ImportClass(c, i, slot, status)

Spec == Init /\ [][Next]_vars

-----------------------------------------------------------------------------
(* Properties.                                                              *)

TypeOK ==
  /\ classes \in PartialFn(Classes, Row)
  /\ lock \in [Instructors -> SUBSET Sessions]
  /\ rowLock \in [Classes -> SUBSET Sessions]
  /\ txn \in [Sessions -> Txn]
  /\ astray \subseteq Classes

Booked(c) == Live(classes[c]) /\ classes[c].source = "ssms"

DoubleBooked(a, b) ==
  /\ a # b
  /\ Booked(a) /\ Booked(b)
  /\ classes[a].instructor = classes[b].instructor
  /\ Overlap(classes[a].slot, classes[b].slot)

\* No instructor has two overlapping lessons that were booked in SSMS: the
\* promise of the overlap checks of 276_booking.sql, whatever the interleaving
\* of the transactions.
NoDoubleBooking ==
  \A a, b \in DOMAIN classes : ~DoubleBooked(a, b)

\* Two booked lessons of one instructor overlap only if one of them was given
\* back by a set_class_status that held another instructor's lock: the class
\* changed hands between that function's two reads.
OverlapOnlyAstray ==
  \A a, b \in DOMAIN classes : DoubleBooked(a, b) => a \in astray \/ b \in astray

\* A cancelled class keeps its instructor and its slot until it is given back,
\* although rebook_class is called on what the service read earlier.
CancelledStaysPut ==
  [][\A c \in DOMAIN classes : ~Live(classes[c]) =>
       /\ classes'[c].instructor = classes[c].instructor
       /\ classes'[c].slot = classes[c].slot]_vars

\* The locks session s has asked for and session t holds.
AwaitsLock(s, t) == txn[s].pc = "lock" /\ t \in lock[txn[s].instructor]
AwaitsRow(s, t) ==
  /\ txn[s].pc = "row"
  /\ t \in rowLock[txn[s].class]
Awaits(s, t) == s # t /\ (AwaitsLock(s, t) \/ AwaitsRow(s, t))

\* Sessions never wait for each other in a circle: the advisory lock of the
\* instructor comes before the row lock of the class in every transaction.
NoDeadlock ==
  \A waiting \in (SUBSET Sessions) \ {{}} :
    \E s \in waiting : \A t \in waiting : ~Awaits(s, t)
-----------------------------------------------------------------------------
(* The inductive invariant behind OverlapOnlyAstray.                        *)

HoldsLock(s) == txn[s].pc \in {"check", "row", "restore", "commit"}
HoldsRow(s) == /\ txn[s].op \in {"rebook", "status"}
               /\ \/ txn[s].pc = "restore"
                  \/ txn[s].pc = "commit"

\* An advisory lock has one holder, the transaction that named its instructor.
LocksHeld ==
  /\ \A i \in Instructors : \A s \in lock[i] :
       HoldsLock(s) /\ txn[s].instructor = i
  /\ \A s \in Sessions : HoldsLock(s) => lock[txn[s].instructor] = {s}

\* So has the row lock of the class a transaction is about to update.
RowsHeld ==
  /\ \A c \in Classes : \A s \in rowLock[c] : HoldsRow(s) /\ txn[s].class = c
  /\ \A s \in Sessions : HoldsRow(s) => rowLock[txn[s].class] = {s}

\* Two sessions never book the same id, nor one that exists.
Claims(s) == IF txn[s].op = "book"
             THEN DOMAIN txn[s].todo \cup DOMAIN txn[s].writes ELSE {}
ClaimsFresh ==
  /\ \A s \in Sessions : Claims(s) \cap DOMAIN classes = {}
  /\ \A s, t \in Sessions : s # t => Claims(s) \cap Claims(t) = {}

\* A class that is moved or given a status exists: rows are never deleted.
ClassExists ==
  \A s \in Sessions :
    txn[s].op \in {"rebook", "status"} => txn[s].class \in DOMAIN classes

\* What a transaction has written but not committed.
WritesOf(s) ==
  /\ txn[s].op = "book" =>
       \A c \in DOMAIN txn[s].writes :
         /\ Live(txn[s].writes[c])
         /\ txn[s].writes[c].instructor = txn[s].instructor
  /\ txn[s].op = "book" /\ txn[s].pc = "lock" => txn[s].writes = NoRows
  /\ txn[s].op = "rebook" /\ txn[s].pc = "commit" =>
       /\ Live(classes[txn[s].class])
       /\ txn[s].writes = Only(txn[s].class,
                               [classes[txn[s].class] EXCEPT
                                  !.instructor = txn[s].instructor,
                                  !.slot = txn[s].slot])
  /\ txn[s].op = "status" /\ HoldsRow(s) =>
       txn[s].writes = Only(txn[s].class, [classes[txn[s].class] EXCEPT
                                             !.status = txn[s].status])
WritesShape == \A s \in Sessions : WritesOf(s)

\* The slot is clear of the lessons committed under the instructor's own lock.
ClearOf(i, slot, c) ==
  \A o \in DOMAIN classes \ astray :
    o # c /\ Booked(o) /\ classes[o].instructor = i
      => ~Overlap(classes[o].slot, slot)

\* What transaction s has checked is clear of those lessons until it commits.
PendingClearOf(s) ==
  /\ txn[s].op = "book" =>
       \A c \in DOMAIN txn[s].writes :
         /\ ClearOf(txn[s].instructor, txn[s].writes[c].slot, c)
         /\ \A d \in DOMAIN txn[s].writes \ {c} :
              ~Overlap(txn[s].writes[d].slot, txn[s].writes[c].slot)
  /\ txn[s].op = "rebook" /\ txn[s].pc \in {"row", "commit"} =>
       ClearOf(txn[s].instructor, txn[s].slot, txn[s].class)
  /\ /\ txn[s].op = "status" /\ txn[s].pc = "commit"
     /\ ~Live(classes[txn[s].class]) /\ txn[s].status # "cancelled"
     /\ txn[s].instructor = classes[txn[s].class].instructor
     => ClearOf(txn[s].instructor, classes[txn[s].class].slot, txn[s].class)

\* The overlap check of book_classes, rebook_class and set_class_status cannot
\* go stale before the transaction commits: no other session can commit a
\* lesson of that instructor in between.
PendingClear == \A s \in Sessions : PendingClearOf(s)

ScheduleInv ==
  /\ TypeOK
  /\ LocksHeld
  /\ RowsHeld
  /\ ClassExists
  /\ ClaimsFresh
  /\ WritesShape
  /\ PendingClear
  /\ OverlapOnlyAstray
=============================================================================
