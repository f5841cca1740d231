--------------------------- MODULE ScheduleProofs ---------------------------
EXTENDS InstructorSchedule, TLAPS

LEMMA PartialFnMember ==
  ASSUME NEW D, NEW S, NEW f \in PartialFn(D, S)
  PROVE  /\ DOMAIN f \subseteq D
         /\ \A x \in DOMAIN f : f[x] \in S
         /\ f = [x \in DOMAIN f |-> f[x]]
BY DEF PartialFn

LEMMA PartialFnIntro ==
  ASSUME NEW D, NEW S, NEW X, X \subseteq D, NEW f \in [X -> S]
  PROVE  f \in PartialFn(D, S)
BY DEF PartialFn

LEMMA NoRowsType == ASSUME NEW D, NEW S PROVE NoRows \in PartialFn(D, S)
<1>1. NoRows \in [{} -> S]
  BY DEF NoRows
<1> QED BY <1>1, PartialFnIntro, Zenon

LEMMA OnlyType ==
  ASSUME NEW c \in Classes, NEW r \in Row
  PROVE  Only(c, r) \in PartialFn(Classes, Row)
<1>1. Only(c, r) \in [{c} -> Row]
  BY DEF Only
<1>2. {c} \subseteq Classes
  OBVIOUS
<1> QED BY <1>1, <1>2, PartialFnIntro, Zenon

LEMMA OverType ==
  ASSUME NEW f \in PartialFn(Classes, Row), NEW g \in PartialFn(Classes, Row)
  PROVE  Over(f, g) \in PartialFn(Classes, Row)
<1> DEFINE X == DOMAIN f \cup DOMAIN g
<1>1. X \subseteq Classes
  BY PartialFnMember
<1>2. Over(f, g) \in [X -> Row]
  BY PartialFnMember DEF Over
<1> QED BY <1>1, <1>2, PartialFnIntro, Zenon

\* Releasing the locks of a session keeps the types of what is left.
LEMMA ReleaseType ==
  ASSUME TypeOK, NEW s \in Sessions, Release(s)
  PROVE  /\ lock' \in [Instructors -> SUBSET Sessions]
         /\ rowLock' \in [Classes -> SUBSET Sessions]
         /\ txn' \in [Sessions -> Txn]
<1>1. Idle \in Txn
  BY DEF Txn
<1> QED BY <1>1 DEF TypeOK, Release

LEMMA RowFields ==
  ASSUME TypeOK, NEW c \in DOMAIN classes
  PROVE  /\ c \in Classes
         /\ classes[c] \in Row
         /\ classes[c].instructor \in Instructors
         /\ classes[c].slot \in Slots
         /\ classes[c].status \in Statuses
<1>1. c \in Classes /\ classes[c] \in Row
  BY PartialFnMember DEF TypeOK
<1> QED BY <1>1 DEF Row

LEMMA TxnCases ==
  ASSUME TypeOK, NEW s \in Sessions
  PROVE  /\ txn[s].op = "none" => txn[s] = Idle
         /\ txn[s].op = "book" => txn[s] \in BookTxn
         /\ txn[s].op = "rebook" => txn[s] \in RebookTxn
         /\ txn[s].op = "status" /\ txn[s].pc = "read" => txn[s] \in StatusRequest
         /\ txn[s].op = "status" /\ txn[s].pc # "read" => txn[s] \in StatusTxn
         /\ txn[s].pc = "read" => txn[s] \in StatusRequest
         /\ txn[s].pc = "lock" => txn[s].instructor \in Instructors
         /\ txn[s].pc = "restore" => txn[s] \in StatusTxn
         /\ txn[s].pc = "commit" => txn[s].writes \in PartialFn(Classes, Row)
         /\ txn[s].op \in {"none", "book", "rebook", "status"}
         /\ txn[s].op = "none" <=> txn[s].pc = "idle"
BY DEF TypeOK, Txn, Idle, BookTxn, RebookTxn, StatusRequest, StatusTxn

-----------------------------------------------------------------------------
\* The values of every variable stay in their types, whatever the sessions do.
LEMMA TypeStep ==
  ASSUME TypeOK, ClassExists, [Next]_vars
  PROVE  TypeOK'
<1>1. CASE UNCHANGED vars
  BY <1>1 DEF TypeOK, vars
<1>2. ASSUME NEW s \in Sessions, Request(s)
      PROVE  TypeOK'
  <2>1. ASSUME NEW i \in Instructors, NEW plan \in PartialFn(Classes, Slots),
               NEW status \in LiveStatuses, RequestBook(s, i, plan, status)
        PROVE  TypeOK'
    <3> DEFINE t == [op |-> "book", pc |-> "lock", instructor |-> i,
                     status |-> status, todo |-> plan, writes |-> NoRows]
    <3>1. t \in BookTxn
      BY NoRowsType DEF BookTxn
    <3> QED BY <2>1, <3>1 DEF RequestBook, TypeOK, Txn
  <2>2. ASSUME NEW c \in Classes, NEW i \in Instructors, NEW slot \in Slots,
               RequestRebook(s, c, i, slot)
        PROVE  TypeOK'
    <3> DEFINE t == [op |-> "rebook", pc |-> "lock", instructor |-> i,
                     class |-> c, slot |-> slot, writes |-> NoRows]
    <3>1. t \in RebookTxn
      BY NoRowsType DEF RebookTxn
    <3> QED BY <2>2, <3>1 DEF RequestRebook, TypeOK, Txn
  <2>3. ASSUME NEW c \in Classes, NEW status \in Statuses,
               RequestStatus(s, c, status)
        PROVE  TypeOK'
    <3>1. [op |-> "status", pc |-> "read", class |-> c, status |-> status]
            \in StatusRequest
      BY DEF StatusRequest
    <3> QED BY <2>3, <3>1 DEF RequestStatus, TypeOK, Txn
  <2> QED BY <1>2, <2>1, <2>2, <2>3 DEF Request
<1>3. ASSUME NEW s \in Sessions, Statement(s)
      PROVE  TypeOK'
  <2>1. CASE ReadInstructor(s)
    <3> DEFINE c == txn[s].class
    <3>1. c \in Classes /\ txn[s].status \in Statuses
      BY <2>1, TxnCases DEF ReadInstructor, StatusRequest
    <3>2. c \in DOMAIN classes
      BY <2>1, TxnCases DEF ReadInstructor, ClassExists, StatusRequest
    <3>4. classes[c].instructor \in Instructors
      BY <3>2, RowFields
    <3>3. [op |-> "status", pc |-> "lock", class |-> c,
           instructor |-> classes[c].instructor,
           status |-> txn[s].status, writes |-> NoRows] \in StatusTxn
      BY <3>1, <3>4, NoRowsType DEF StatusTxn
    <3> QED BY <2>1, <3>3 DEF ReadInstructor, TypeOK, Txn
  <2>2. CASE TakeLock(s)
    <3>1. txn[s].instructor \in Instructors
      BY <2>2, TxnCases DEF TakeLock
    <3>2. lock' \in [Instructors -> SUBSET Sessions]
      BY <2>2, <3>1 DEF TakeLock, TypeOK
    <3>3. txn'[s] \in Txn
      BY <2>2, TxnCases
         DEF TakeLock, TypeOK, Txn, BookTxn, RebookTxn, StatusTxn, Idle,
             StatusRequest
    <3> QED BY <2>2, <3>2, <3>3 DEF TakeLock, TypeOK
  <2>3. ASSUME NEW c \in Classes, BookNext(s, c)
        PROVE  TypeOK'
    <3> DEFINE left == DOMAIN txn[s].todo \ {c}
               row == [instructor |-> txn[s].instructor,
                       slot |-> txn[s].todo[c],
                       status |-> txn[s].status, source |-> "ssms"]
    <3>1. txn[s] \in BookTxn
      BY <2>3, TxnCases DEF BookNext
    <3>2. /\ txn[s].todo \in PartialFn(Classes, Slots)
          /\ txn[s].writes \in PartialFn(Classes, Row)
          /\ txn[s].status \in LiveStatuses
          /\ txn[s].instructor \in Instructors
      BY <3>1 DEF BookTxn
    <3>3. row \in Row
      BY <2>3, <3>2, PartialFnMember DEF BookNext, Row, Statuses
    <3>4. Over(Only(c, row), txn[s].writes) \in PartialFn(Classes, Row)
      BY <3>2, <3>3, OnlyType, OverType
    <3>5. [d \in left |-> txn[s].todo[d]] \in PartialFn(Classes, Slots)
      <4>1. left \subseteq Classes /\ [d \in left |-> txn[s].todo[d]] \in [left -> Slots]
        BY <3>2, PartialFnMember
      <4> QED BY <4>1, PartialFnIntro, Zenon
    <3>6. txn'[s] \in BookTxn
      BY <2>3, <3>1, <3>4, <3>5 DEF BookNext, BookTxn, TypeOK
    <3> QED BY <2>3, <3>6 DEF BookNext, TypeOK, Txn
  <2>4. CASE RebookCheck(s)
    <3>1. txn'[s] \in RebookTxn
      BY <2>4, TxnCases DEF RebookCheck, RebookTxn, TypeOK
    <3> QED BY <2>4, <3>1 DEF RebookCheck, TypeOK, Txn
  <2>5. CASE RebookRow(s)
    <3> DEFINE c == txn[s].class
               row == [classes[c] EXCEPT !.instructor = txn[s].instructor,
                                         !.slot = txn[s].slot]
    <3>1. txn[s] \in RebookTxn
      BY <2>5, TxnCases DEF RebookRow
    <3>2. c \in DOMAIN classes
      BY <2>5, TxnCases DEF RebookRow, ClassExists
    <3>3. row \in Row /\ c \in Classes
      BY <3>1, <3>2, RowFields DEF RebookTxn, Row
    <3>4. txn'[s] \in RebookTxn
      BY <2>5, <3>1, <3>3, OnlyType DEF RebookRow, RebookTxn, TypeOK
    <3>5. rowLock' \in [Classes -> SUBSET Sessions]
      BY <2>5 DEF RebookRow, TypeOK
    <3> QED BY <2>5, <3>4, <3>5 DEF RebookRow, TypeOK, Txn
  <2>6. CASE StatusRow(s)
    <3> DEFINE c == txn[s].class
               row == [classes[c] EXCEPT !.status = txn[s].status]
    <3>1. txn[s] \in StatusTxn
      BY <2>6, TxnCases DEF StatusRow
    <3>2. c \in DOMAIN classes
      BY <2>6, TxnCases DEF StatusRow, ClassExists
    <3>3. row \in Row /\ c \in Classes
      BY <3>1, <3>2, RowFields DEF StatusTxn, Row
    <3>4. txn'[s] \in StatusTxn
      BY <2>6, <3>1, <3>3, OnlyType DEF StatusRow, StatusTxn, TypeOK
    <3>5. rowLock' \in [Classes -> SUBSET Sessions]
      BY <2>6 DEF StatusRow, TypeOK
    <3> QED BY <2>6, <3>4, <3>5 DEF StatusRow, TypeOK, Txn
  <2>7. CASE RestoreCheck(s)
    <3>1. txn'[s] \in StatusTxn
      BY <2>7, TxnCases DEF RestoreCheck, StatusTxn, TypeOK
    <3> QED BY <2>7, <3>1 DEF RestoreCheck, TypeOK, Txn
  <2>8. CASE Commit(s)
    <3>1. classes' \in PartialFn(Classes, Row)
      BY <2>8, TxnCases, OverType DEF Commit, TypeOK
    <3>2. astray' \subseteq Classes
      BY <2>8, TxnCases DEF Commit, AstrayAfter, TypeOK, StatusTxn
    <3> QED BY <2>8, <3>1, <3>2, ReleaseType DEF Commit, TypeOK
  <2>9. CASE RaiseOverlap(s)
    BY <2>9, ReleaseType DEF RaiseOverlap, TypeOK
  <2>10. CASE RaiseCancelled(s)
    BY <2>10, ReleaseType DEF RaiseCancelled, TypeOK
  <2> QED BY <1>3, <2>1, <2>2, <2>3, <2>4, <2>5, <2>6, <2>7, <2>8, <2>9, <2>10
          DEF Statement
<1>4. ASSUME NEW s \in Sessions, Lost(s)
      PROVE  TypeOK'
  BY <1>4, ReleaseType DEF Lost, TypeOK
<1>5. ASSUME NEW c \in Classes, NEW i \in Instructors, NEW slot \in Slots,
             NEW status \in Statuses, ImportClass(c, i, slot, status)
      PROVE  TypeOK'
  <2>1. [instructor |-> i, slot |-> slot, status |-> status,
         source |-> "app_import"] \in Row
    BY DEF Row
  <2> QED BY <1>5, <2>1, OnlyType, OverType DEF ImportClass, TypeOK
<1> QED BY <1>1, <1>2, <1>3, <1>4, <1>5 DEF Next

-----------------------------------------------------------------------------
LEMMA OverAt ==
  ASSUME NEW f, NEW g
  PROVE  /\ DOMAIN Over(f, g) = DOMAIN f \cup DOMAIN g
         /\ \A c \in DOMAIN f : Over(f, g)[c] = f[c]
         /\ \A c \in DOMAIN g \ DOMAIN f : Over(f, g)[c] = g[c]
BY DEF Over

LEMMA OnlyAt ==
  ASSUME NEW c, NEW r
  PROVE  DOMAIN Only(c, r) = {c} /\ Only(c, r)[c] = r
BY DEF Only

LEMMA TxnHolding ==
  ASSUME TypeOK, NEW s \in Sessions
  PROVE  /\ HoldsLock(s) => txn[s].instructor \in Instructors
         /\ txn[s].op \in {"rebook", "status"} => txn[s].class \in Classes
         /\ HoldsRow(s) => HoldsLock(s)
         /\ txn[s].op = "none" => ~HoldsLock(s)
         /\ txn[s] = Idle => ~HoldsLock(s)
BY DEF TypeOK, Txn, Idle, BookTxn, RebookTxn, StatusRequest, StatusTxn, HoldsLock,
       HoldsRow

\* A step of s that moves only its program counter: no other session, no row
\* and no lock is touched.
LEMMA RequestFields ==
  ASSUME TypeOK, NEW s \in Sessions,
         \/ Request(s)
         \/ ReadInstructor(s)
  PROVE  /\ \A t \in Sessions \ {s} : txn'[t] = txn[t]
         /\ txn[s].pc \in {"idle", "read"} /\ txn[s].op \in {"none", "status"}
         /\ txn'[s].pc \in {"lock", "read"}
         /\ UNCHANGED <<classes, lock, rowLock, astray>>
<1>1. CASE ReadInstructor(s)
  <2>1. txn[s].op = "status"
    BY <1>1, TxnCases DEF ReadInstructor, StatusRequest
  <2> QED BY <1>1, <2>1 DEF ReadInstructor, TypeOK
<1>2. CASE Request(s)
  BY <1>2 DEF Request, RequestBook, RequestRebook, RequestStatus, TypeOK, Idle
<1> QED BY <1>1, <1>2

LEMMA CheckFields ==
  ASSUME TypeOK, NEW s \in Sessions,
         \/ RebookCheck(s)
         \/ RestoreCheck(s)
  PROVE  /\ \A t \in Sessions \ {s} : txn'[t] = txn[t]
         /\ \/ /\ RebookCheck(s)
               /\ txn[s].op = "rebook" /\ txn[s].pc = "check"
               /\ txn'[s].pc = "row" /\ txn'[s].slot = txn[s].slot
            \/ /\ RestoreCheck(s)
               /\ txn[s].op = "status" /\ txn[s].pc = "restore"
               /\ txn'[s].pc = "commit" /\ txn'[s].status = txn[s].status
         /\ txn'[s].op = txn[s].op
         /\ txn'[s].instructor = txn[s].instructor
         /\ txn'[s].class = txn[s].class
         /\ txn'[s].writes = txn[s].writes
         /\ UNCHANGED <<classes, lock, rowLock, astray>>
<1>1. CASE RebookCheck(s)
  <2>1. txn[s] \in RebookTxn
    BY <1>1, TxnCases DEF RebookCheck
  <2> QED BY <1>1, <2>1 DEF RebookCheck, RebookTxn, TypeOK
<1>2. CASE RestoreCheck(s)
  <2>1. txn[s] \in StatusTxn
    BY <1>2, TxnCases DEF RestoreCheck
  <2> QED BY <1>2, <2>1 DEF RestoreCheck, StatusTxn, TypeOK
<1> QED BY <1>1, <1>2

LEMMA TakeLockFields ==
  ASSUME TypeOK, NEW s \in Sessions, TakeLock(s)
  PROVE  /\ \A t \in Sessions \ {s} : txn'[t] = txn[t]
         /\ txn[s].op \in {"book", "rebook", "status"} /\ txn[s].pc = "lock"
         /\ txn'[s].op = txn[s].op
         /\ txn'[s].writes = txn[s].writes
         /\ txn[s].op = "book" => txn'[s].todo = txn[s].todo
         /\ txn[s].op \in {"rebook", "status"} => txn'[s].class = txn[s].class
         /\ txn'[s].pc = IF txn[s].op = "status" THEN "row" ELSE "check"
         /\ txn'[s].instructor = txn[s].instructor
         /\ txn[s].instructor \in Instructors
         /\ lock[txn[s].instructor] \subseteq {s}
         /\ lock'[txn[s].instructor] = {s}
         /\ \A i \in Instructors \ {txn[s].instructor} : lock'[i] = lock[i]
         /\ UNCHANGED <<classes, rowLock, astray>>
<1>1. txn[s] \in BookTxn \cup RebookTxn \cup StatusTxn
  BY DEF TakeLock, TypeOK, Txn, Idle, StatusRequest
<1> QED BY <1>1 DEF TakeLock, TypeOK, BookTxn, RebookTxn, StatusTxn

\* One turn of the loop of book_classes, field by field.
LEMMA BookNextFields ==
  ASSUME TypeOK, NEW s \in Sessions, NEW c \in Classes, BookNext(s, c)
  PROVE  /\ \A t \in Sessions \ {s} : txn'[t] = txn[t]
         /\ txn'[s].op = "book" /\ txn[s].op = "book"
         /\ txn'[s].pc \in {"check", "commit"}
         /\ txn'[s].instructor = txn[s].instructor
         /\ DOMAIN txn'[s].todo = DOMAIN txn[s].todo \ {c}
         /\ txn'[s].writes =
              Over(Only(c, [instructor |-> txn[s].instructor,
                            slot |-> txn[s].todo[c],
                            status |-> txn[s].status, source |-> "ssms"]),
                   txn[s].writes)
         /\ UNCHANGED <<classes, lock, rowLock, astray>>
<1>1. txn[s] \in BookTxn
  BY TxnCases DEF BookNext
<1> QED BY <1>1 DEF BookNext, BookTxn, TypeOK

LEMMA RebookRowFields ==
  ASSUME TypeOK, NEW s \in Sessions, RebookRow(s)
  PROVE  /\ \A t \in Sessions \ {s} : txn'[t] = txn[t]
         /\ txn[s].op = "rebook" /\ txn[s].pc = "row"
         /\ Live(classes[txn[s].class])
         /\ txn'[s].op = "rebook" /\ txn'[s].pc = "commit"
         /\ txn[s].class \in Classes
         /\ rowLock[txn[s].class] \subseteq {s}
         /\ rowLock'[txn[s].class] = {s}
         /\ \A c \in Classes \ {txn[s].class} : rowLock'[c] = rowLock[c]
         /\ txn'[s].class = txn[s].class
         /\ txn'[s].instructor = txn[s].instructor
         /\ txn'[s].slot = txn[s].slot
         /\ txn'[s].writes = Only(txn[s].class,
              [classes[txn[s].class] EXCEPT !.instructor = txn[s].instructor,
                                            !.slot = txn[s].slot])
         /\ UNCHANGED <<classes, lock, astray>>
<1>1. txn[s] \in RebookTxn
  BY TxnCases DEF RebookRow
<1> QED BY <1>1 DEF RebookRow, RebookTxn, TypeOK

LEMMA StatusRowFields ==
  ASSUME TypeOK, NEW s \in Sessions, StatusRow(s)
  PROVE  /\ \A t \in Sessions \ {s} : txn'[t] = txn[t]
         /\ txn[s].op = "status" /\ txn[s].pc = "row"
         /\ txn'[s].op = "status" /\ txn'[s].pc \in {"restore", "commit"}
         /\ txn[s].class \in Classes
         /\ rowLock[txn[s].class] \subseteq {s}
         /\ rowLock'[txn[s].class] = {s}
         /\ \A c \in Classes \ {txn[s].class} : rowLock'[c] = rowLock[c]
         /\ txn'[s].pc = "commit" =>
              Live(classes[txn[s].class]) \/ txn[s].status = "cancelled"
         /\ txn'[s].class = txn[s].class
         /\ txn'[s].instructor = txn[s].instructor
         /\ txn'[s].status = txn[s].status
         /\ txn'[s].writes = Only(txn[s].class,
              [classes[txn[s].class] EXCEPT !.status = txn[s].status])
         /\ UNCHANGED <<classes, lock, astray>>
<1>1. txn[s] \in StatusTxn
  BY TxnCases DEF StatusRow
<1> QED BY <1>1 DEF StatusRow, StatusTxn, TypeOK

LEMMA ReleaseFields ==
  ASSUME TypeOK, NEW s \in Sessions, Release(s)
  PROVE  /\ \A t \in Sessions \ {s} : txn'[t] = txn[t]
         /\ txn'[s] = Idle
         /\ txn'[s].op = "none" /\ txn'[s].pc = "idle"
         /\ \A i \in Instructors : lock'[i] = lock[i] \ {s}
         /\ \A c \in Classes : rowLock'[c] = rowLock[c] \ {s}
BY DEF Release, TypeOK, Idle

\* No row is ever deleted, so a transaction's class keeps existing.
LEMMA ClassExistsStep ==
  ASSUME TypeOK, ClassExists, [Next]_vars
  PROVE  ClassExists'
<1>1. CASE UNCHANGED vars
  BY <1>1, OverAt DEF vars, ClassExists, TypeOK
<1>2. ASSUME NEW s \in Sessions, NEW i \in Instructors,
             NEW plan \in PartialFn(Classes, Slots), NEW status \in LiveStatuses,
             RequestBook(s, i, plan, status)
      PROVE  ClassExists'
  BY <1>2, OverAt DEF RequestBook, ClassExists, TypeOK
<1>3. ASSUME NEW s \in Sessions, NEW c \in Classes, NEW i \in Instructors,
             NEW slot \in Slots, RequestRebook(s, c, i, slot)
      PROVE  ClassExists'
  BY <1>3, OverAt DEF RequestRebook, ClassExists, TypeOK
<1>4. ASSUME NEW s \in Sessions, NEW c \in Classes, NEW status \in Statuses,
             RequestStatus(s, c, status)
      PROVE  ClassExists'
  BY <1>4, OverAt DEF RequestStatus, ClassExists, TypeOK
<1>5. ASSUME NEW s \in Sessions, ReadInstructor(s)
      PROVE  ClassExists'
  BY <1>5, TxnCases DEF ReadInstructor, ClassExists, TypeOK, StatusRequest
<1>6. ASSUME NEW s \in Sessions, TakeLock(s)
      PROVE  ClassExists'
  BY <1>6, OverAt DEF TakeLock, ClassExists, TypeOK
<1>7. ASSUME NEW s \in Sessions, NEW c \in Classes, BookNext(s, c)
      PROVE  ClassExists'
  BY <1>7, BookNextFields DEF ClassExists
<1>8. ASSUME NEW s \in Sessions, RebookCheck(s)
      PROVE  ClassExists'
  BY <1>8, OverAt DEF RebookCheck, ClassExists, TypeOK
<1>9. ASSUME NEW s \in Sessions, RebookRow(s)
      PROVE  ClassExists'
  BY <1>9, OverAt DEF RebookRow, ClassExists, TypeOK
<1>10. ASSUME NEW s \in Sessions, StatusRow(s)
      PROVE  ClassExists'
  BY <1>10, OverAt DEF StatusRow, ClassExists, TypeOK
<1>11. ASSUME NEW s \in Sessions, RestoreCheck(s)
      PROVE  ClassExists'
  BY <1>11, OverAt DEF RestoreCheck, ClassExists, TypeOK
<1>12. ASSUME NEW s \in Sessions, Commit(s)
      PROVE  ClassExists'
  <2>1. DOMAIN classes \subseteq DOMAIN classes'
    BY <1>12, OverAt, Zenon DEF Commit
  <2> QED BY <1>12, <2>1, ReleaseFields DEF Commit, ClassExists
<1>13. ASSUME NEW s \in Sessions, RaiseOverlap(s)
      PROVE  ClassExists'
  BY <1>13, OverAt DEF RaiseOverlap, ClassExists, TypeOK, Release, Idle
<1>14. ASSUME NEW s \in Sessions, RaiseCancelled(s)
      PROVE  ClassExists'
  BY <1>14, OverAt DEF RaiseCancelled, ClassExists, TypeOK, Release, Idle
<1>15. ASSUME NEW s \in Sessions, Lost(s)
      PROVE  ClassExists'
  BY <1>15, OverAt DEF Lost, ClassExists, TypeOK, Release, Idle
<1>16. ASSUME NEW c \in Classes, NEW i \in Instructors, NEW slot \in Slots,
             NEW status \in Statuses, ImportClass(c, i, slot, status)
      PROVE  ClassExists'
  <2>1. DOMAIN classes \subseteq DOMAIN classes'
    BY <1>16, OverAt, Zenon DEF ImportClass
  <2> QED BY <1>16, <2>1 DEF ImportClass, ClassExists
<1> QED BY <1>1, <1>2, <1>3, <1>4, <1>5, <1>6, <1>7, <1>8, <1>9,
           <1>10, <1>11, <1>12, <1>13, <1>14, <1>15, <1>16
       DEF Next, Request, Statement

-----------------------------------------------------------------------------
(* The advisory locks.                                                      *)

LEMMA LocksHeldSame ==
  ASSUME TypeOK, LocksHeld, UNCHANGED lock,
         \A t \in Sessions :
           /\ HoldsLock(t)' <=> HoldsLock(t)
           /\ HoldsLock(t) => txn'[t].instructor = txn[t].instructor
  PROVE  LocksHeld'
BY DEF LocksHeld, TypeOK

LEMMA LocksHeldRelease ==
  ASSUME TypeOK, LocksHeld, NEW s \in Sessions, Release(s)
  PROVE  LocksHeld'
<1>1. \A i \in Instructors : \A t \in lock'[i] :
        HoldsLock(t)' /\ txn'[t].instructor = i
  BY ReleaseFields DEF LocksHeld, HoldsLock, TypeOK
<1>2. \A t \in Sessions : HoldsLock(t)' => lock'[txn'[t].instructor] = {t}
  BY ReleaseFields, TxnHolding DEF LocksHeld, HoldsLock, TypeOK
<1> QED BY <1>1, <1>2 DEF LocksHeld

\* Nobody is granted an advisory lock another session holds.
LEMMA LocksHeldStep ==
  ASSUME TypeOK, LocksHeld, [Next]_vars
  PROVE  LocksHeld'
<1>1. CASE UNCHANGED vars
  BY <1>1 DEF vars, LocksHeld, HoldsLock
<1>2. ASSUME NEW s \in Sessions, NEW i \in Instructors,
             NEW plan \in PartialFn(Classes, Slots), NEW status \in LiveStatuses,
             RequestBook(s, i, plan, status)
      PROVE  LocksHeld'
  BY <1>2, LocksHeldSame, RequestFields DEF HoldsLock, Request
<1>3. ASSUME NEW s \in Sessions, NEW c \in Classes, NEW i \in Instructors,
             NEW slot \in Slots, RequestRebook(s, c, i, slot)
      PROVE  LocksHeld'
  BY <1>3, LocksHeldSame, RequestFields DEF HoldsLock, Request
<1>4. ASSUME NEW s \in Sessions, NEW c \in Classes, NEW status \in Statuses,
             RequestStatus(s, c, status)
      PROVE  LocksHeld'
  BY <1>4, LocksHeldSame, RequestFields DEF HoldsLock, Request
<1>5. ASSUME NEW s \in Sessions, ReadInstructor(s)
      PROVE  LocksHeld'
  BY <1>5, LocksHeldSame, RequestFields DEF HoldsLock, Request
<1>6. ASSUME NEW s \in Sessions, TakeLock(s)
      PROVE  LocksHeld'
  <2> DEFINE j == txn[s].instructor
  <2>1. /\ \A t \in Sessions \ {s} : txn'[t] = txn[t]
        /\ txn'[s].pc \in {"row", "check"} /\ txn'[s].instructor = j
        /\ j \in Instructors /\ lock[j] \subseteq {s} /\ lock'[j] = {s}
        /\ \A i \in Instructors \ {j} : lock'[i] = lock[i]
    BY <1>6, TakeLockFields
  <2>2. \A t \in Sessions \ {s} : HoldsLock(t) => txn[t].instructor # j
    BY <2>1 DEF LocksHeld
  <2>3. \A i \in Instructors : \A t \in lock'[i] :
          HoldsLock(t)' /\ txn'[t].instructor = i
    BY <2>1 DEF LocksHeld, HoldsLock, TypeOK
  <2>4. \A t \in Sessions : HoldsLock(t)' => lock'[txn'[t].instructor] = {t}
    BY <2>1, <2>2, TxnHolding DEF LocksHeld, HoldsLock
  <2> QED BY <2>3, <2>4 DEF LocksHeld
<1>7. ASSUME NEW s \in Sessions, NEW c \in Classes, BookNext(s, c)
      PROVE  LocksHeld'
  BY <1>7, LocksHeldSame, TxnHolding, BookNextFields DEF HoldsLock, BookNext
<1>8. ASSUME NEW s \in Sessions, RebookCheck(s)
      PROVE  LocksHeld'
  BY <1>8, LocksHeldSame, TxnHolding, CheckFields DEF HoldsLock
<1>9. ASSUME NEW s \in Sessions, RebookRow(s)
      PROVE  LocksHeld'
  BY <1>9, LocksHeldSame, TxnHolding, RebookRowFields DEF HoldsLock
<1>10. ASSUME NEW s \in Sessions, StatusRow(s)
      PROVE  LocksHeld'
  <2>1. /\ \A t \in Sessions \ {s} : txn'[t] = txn[t]
        /\ txn'[s].instructor = txn[s].instructor
        /\ UNCHANGED lock
        /\ HoldsLock(s)' /\ HoldsLock(s)
    BY <1>10, StatusRowFields DEF HoldsLock
  <2> QED BY <2>1, LocksHeldSame DEF HoldsLock
<1>11. ASSUME NEW s \in Sessions, RestoreCheck(s)
      PROVE  LocksHeld'
  BY <1>11, LocksHeldSame, TxnHolding, CheckFields DEF HoldsLock
<1>12. ASSUME NEW s \in Sessions, Commit(s)
      PROVE  LocksHeld'
  BY <1>12, LocksHeldRelease DEF Commit
<1>13. ASSUME NEW s \in Sessions, RaiseOverlap(s)
      PROVE  LocksHeld'
  BY <1>13, LocksHeldRelease DEF RaiseOverlap
<1>14. ASSUME NEW s \in Sessions, RaiseCancelled(s)
      PROVE  LocksHeld'
  BY <1>14, LocksHeldRelease DEF RaiseCancelled
<1>15. ASSUME NEW s \in Sessions, Lost(s)
      PROVE  LocksHeld'
  BY <1>15, LocksHeldRelease DEF Lost
<1>16. ASSUME NEW c \in Classes, NEW i \in Instructors, NEW slot \in Slots,
             NEW status \in Statuses, ImportClass(c, i, slot, status)
      PROVE  LocksHeld'
  BY <1>16 DEF ImportClass, LocksHeld, HoldsLock
<1> QED BY <1>1, <1>2, <1>3, <1>4, <1>5, <1>6, <1>7, <1>8, <1>9,
           <1>10, <1>11, <1>12, <1>13, <1>14, <1>15, <1>16
       DEF Next, Request, Statement

-----------------------------------------------------------------------------
(* The row locks.                                                           *)

LEMMA TakeLockClass ==
  ASSUME TypeOK, NEW s \in Sessions, TakeLock(s)
  PROVE  ~HoldsRow(s) /\ ~HoldsRow(s)'
BY TakeLockFields DEF HoldsRow

LEMMA RowsHeldSame ==
  ASSUME TypeOK, RowsHeld, UNCHANGED rowLock,
         \A t \in Sessions :
           /\ HoldsRow(t)' <=> HoldsRow(t)
           /\ HoldsRow(t) => txn'[t].class = txn[t].class
  PROVE  RowsHeld'
BY DEF RowsHeld, TypeOK

LEMMA RowsHeldTake ==
  ASSUME TypeOK, RowsHeld, NEW s \in Sessions, NEW c \in Classes,
         rowLock[c] \subseteq {s}, rowLock'[c] = {s},
         \A d \in Classes \ {c} : rowLock'[d] = rowLock[d],
         \A t \in Sessions \ {s} : txn'[t] = txn[t],
         ~HoldsRow(s), HoldsRow(s)', txn'[s].class = c
  PROVE  RowsHeld'
<1>1. \A t \in Sessions \ {s} : HoldsRow(t) => txn[t].class # c
  BY DEF RowsHeld
<1>2. \A d \in Classes : \A t \in rowLock'[d] :
        HoldsRow(t)' /\ txn'[t].class = d
  BY DEF RowsHeld, HoldsRow, TypeOK
<1>3. \A t \in Sessions : HoldsRow(t)' => rowLock'[txn'[t].class] = {t}
  BY <1>1, TxnHolding DEF RowsHeld, HoldsRow
<1> QED BY <1>2, <1>3 DEF RowsHeld

LEMMA RowsHeldRelease ==
  ASSUME TypeOK, RowsHeld, NEW s \in Sessions, Release(s)
  PROVE  RowsHeld'
<1>1. \A c \in Classes : \A t \in rowLock'[c] :
        HoldsRow(t)' /\ txn'[t].class = c
  BY ReleaseFields DEF RowsHeld, HoldsRow, TypeOK
<1>2. \A t \in Sessions : HoldsRow(t)' => rowLock'[txn'[t].class] = {t}
  BY ReleaseFields, TxnHolding DEF RowsHeld, HoldsRow, TypeOK
<1> QED BY <1>1, <1>2 DEF RowsHeld

\* Two transactions never update one row at the same time.
LEMMA RowsHeldStep ==
  ASSUME TypeOK, RowsHeld, [Next]_vars
  PROVE  RowsHeld'
<1>1. CASE UNCHANGED vars
  BY <1>1 DEF vars, RowsHeld, HoldsRow
<1>2. ASSUME NEW s \in Sessions, NEW i \in Instructors,
             NEW plan \in PartialFn(Classes, Slots), NEW status \in LiveStatuses,
             RequestBook(s, i, plan, status)
      PROVE  RowsHeld'
  BY <1>2, RowsHeldSame, RequestFields DEF HoldsRow, Request
<1>3. ASSUME NEW s \in Sessions, NEW c \in Classes, NEW i \in Instructors,
             NEW slot \in Slots, RequestRebook(s, c, i, slot)
      PROVE  RowsHeld'
  BY <1>3, RowsHeldSame, RequestFields DEF HoldsRow, Request
<1>4. ASSUME NEW s \in Sessions, NEW c \in Classes, NEW status \in Statuses,
             RequestStatus(s, c, status)
      PROVE  RowsHeld'
  BY <1>4, RowsHeldSame, RequestFields DEF HoldsRow, Request
<1>5. ASSUME NEW s \in Sessions, ReadInstructor(s)
      PROVE  RowsHeld'
  BY <1>5, RowsHeldSame, RequestFields DEF HoldsRow, Request
<1>6. ASSUME NEW s \in Sessions, TakeLock(s)
      PROVE  RowsHeld'
  BY <1>6, RowsHeldSame, TakeLockFields, TakeLockClass DEF HoldsRow
<1>7. ASSUME NEW s \in Sessions, NEW c \in Classes, BookNext(s, c)
      PROVE  RowsHeld'
  BY <1>7, RowsHeldSame, BookNextFields DEF HoldsRow
<1>8. ASSUME NEW s \in Sessions, RebookCheck(s)
      PROVE  RowsHeld'
  BY <1>8, RowsHeldSame, CheckFields DEF HoldsRow
<1>9. ASSUME NEW s \in Sessions, RebookRow(s)
      PROVE  RowsHeld'
  <2> DEFINE c == txn[s].class
  <2>1. ~HoldsRow(s) /\ HoldsRow(s)'
    BY <1>9, RebookRowFields DEF HoldsRow
  <2>2. /\ c \in Classes /\ rowLock[c] \subseteq {s} /\ rowLock'[c] = {s}
        /\ \A d \in Classes \ {c} : rowLock'[d] = rowLock[d]
        /\ \A t \in Sessions \ {s} : txn'[t] = txn[t]
        /\ txn'[s].class = c
    BY <1>9, RebookRowFields
  <2> HIDE DEF c
  <2> QED BY <2>1, <2>2, RowsHeldTake
<1>10. ASSUME NEW s \in Sessions, StatusRow(s)
      PROVE  RowsHeld'
  <2> DEFINE c == txn[s].class
  <2>1. ~HoldsRow(s) /\ HoldsRow(s)'
    BY <1>10, StatusRowFields DEF HoldsRow
  <2>2. /\ c \in Classes /\ rowLock[c] \subseteq {s} /\ rowLock'[c] = {s}
        /\ \A d \in Classes \ {c} : rowLock'[d] = rowLock[d]
        /\ \A t \in Sessions \ {s} : txn'[t] = txn[t]
        /\ txn'[s].class = c
    BY <1>10, StatusRowFields
  <2> HIDE DEF c
  <2> QED BY <2>1, <2>2, RowsHeldTake
<1>11. ASSUME NEW s \in Sessions, RestoreCheck(s)
      PROVE  RowsHeld'
  BY <1>11, RowsHeldSame, CheckFields DEF HoldsRow
<1>12. ASSUME NEW s \in Sessions, Commit(s)
      PROVE  RowsHeld'
  BY <1>12, RowsHeldRelease DEF Commit
<1>13. ASSUME NEW s \in Sessions, RaiseOverlap(s)
      PROVE  RowsHeld'
  BY <1>13, RowsHeldRelease DEF RaiseOverlap
<1>14. ASSUME NEW s \in Sessions, RaiseCancelled(s)
      PROVE  RowsHeld'
  BY <1>14, RowsHeldRelease DEF RaiseCancelled
<1>15. ASSUME NEW s \in Sessions, Lost(s)
      PROVE  RowsHeld'
  BY <1>15, RowsHeldRelease DEF Lost
<1>16. ASSUME NEW c \in Classes, NEW i \in Instructors, NEW slot \in Slots,
             NEW status \in Statuses, ImportClass(c, i, slot, status)
      PROVE  RowsHeld'
  BY <1>16 DEF ImportClass, RowsHeld, HoldsRow
<1> QED BY <1>1, <1>2, <1>3, <1>4, <1>5, <1>6, <1>7, <1>8, <1>9,
           <1>10, <1>11, <1>12, <1>13, <1>14, <1>15, <1>16
       DEF Next, Request, Statement

-----------------------------------------------------------------------------
(* What is written and not yet committed.                                   *)

\* The rows a commit writes: new ones, or the one row the session has locked.
LEMMA CommitWrites ==
  ASSUME TypeOK, ClaimsFresh, ClassExists, WritesShape, RowsHeld,
         NEW s \in Sessions, txn[s].pc = "commit"
  PROVE  /\ txn[s].op \in {"book", "rebook", "status"}
         /\ txn[s].op = "book" =>
              /\ DOMAIN txn[s].writes \subseteq Claims(s)
              /\ DOMAIN txn[s].writes \cap DOMAIN classes = {}
         /\ txn[s].op \in {"rebook", "status"} =>
              /\ HoldsRow(s)
              /\ DOMAIN txn[s].writes = {txn[s].class}
              /\ txn[s].class \in DOMAIN classes
         /\ \A t \in Sessions \ {s} : HoldsRow(t) =>
              txn[t].class \in DOMAIN classes \ DOMAIN txn[s].writes
<1>1. txn[s].op \in {"book", "rebook", "status"}
  BY TxnCases DEF Idle
<1>2. txn[s].op = "book" =>
        /\ DOMAIN txn[s].writes \subseteq Claims(s)
        /\ DOMAIN txn[s].writes \cap DOMAIN classes = {}
  BY DEF ClaimsFresh, Claims
<1>3. txn[s].op \in {"rebook", "status"} =>
        /\ HoldsRow(s)
        /\ DOMAIN txn[s].writes = {txn[s].class}
        /\ txn[s].class \in DOMAIN classes
  <2>1. txn[s].op \in {"rebook", "status"} =>
          HoldsRow(s) /\ \E r : txn[s].writes = Only(txn[s].class, r)
    BY Zenon DEF HoldsRow, WritesShape, WritesOf
  <2>2. (\E r : txn[s].writes = Only(txn[s].class, r)) =>
          DOMAIN txn[s].writes = {txn[s].class}
    BY DEF Only
  <2> QED BY <2>1, <2>2 DEF ClassExists
<1>4. ASSUME NEW t \in Sessions \ {s}, HoldsRow(t)
      PROVE  txn[t].class \in DOMAIN classes \ DOMAIN txn[s].writes
  <2>1. txn[t].class \in DOMAIN classes
    BY <1>4 DEF HoldsRow, ClassExists
  <2>2. rowLock[txn[t].class] = {t}
    BY <1>4 DEF RowsHeld
  <2>3. HoldsRow(s) => txn[s].class # txn[t].class
    BY <2>2 DEF RowsHeld
  <2> QED BY <1>1, <1>2, <1>3, <2>1, <2>3
<1> QED BY <1>1, <1>2, <1>3, <1>4

LEMMA ClaimsSame ==
  ASSUME ClaimsFresh, UNCHANGED classes,
         \A t \in Sessions : Claims(t)' \subseteq Claims(t)
  PROVE  ClaimsFresh'
BY DEF ClaimsFresh

LEMMA TakeLockClaims ==
  ASSUME TypeOK, NEW s \in Sessions, TakeLock(s)
  PROVE  \A t \in Sessions : Claims(t)' = Claims(t)
<1>1. txn[s].op = "book" => txn[s] \in BookTxn
  BY TxnCases
<1>2. Claims(s)' = Claims(s)
  BY <1>1, TakeLockFields DEF Claims, BookTxn
<1> QED BY <1>2, TakeLockFields DEF Claims

\* No two series book the same id, and none books one that exists.
LEMMA ClaimsFreshStep ==
  ASSUME TypeOK, ClaimsFresh, ClassExists, WritesShape, RowsHeld, [Next]_vars
  PROVE  ClaimsFresh'
<1>1. CASE UNCHANGED vars
  BY <1>1 DEF vars, ClaimsFresh, Claims
<1>2. ASSUME NEW s \in Sessions, NEW i \in Instructors,
             NEW plan \in PartialFn(Classes, Slots), NEW status \in LiveStatuses,
             RequestBook(s, i, plan, status)
      PROVE  ClaimsFresh'
  <2>1. /\ \A t \in Sessions \ {s} : Claims(t)' = Claims(t)
        /\ Claims(s)' = DOMAIN plan
    BY <1>2 DEF RequestBook, Claims, TypeOK, NoRows
  <2>2. DOMAIN plan \cap DOMAIN classes = {}
    BY <1>2 DEF RequestBook, Fresh
  <2>3. \A t \in Sessions \ {s} : Claims(t) \cap DOMAIN plan = {}
    BY <1>2 DEF RequestBook, Fresh, Claims
  <2>4. UNCHANGED classes
    BY <1>2 DEF RequestBook
  <2> QED BY <2>1, <2>2, <2>3, <2>4 DEF ClaimsFresh
<1>3. ASSUME NEW s \in Sessions, NEW c \in Classes, NEW i \in Instructors,
             NEW slot \in Slots, RequestRebook(s, c, i, slot)
      PROVE  ClaimsFresh'
  <2>1. \A t \in Sessions : Claims(t)' \subseteq Claims(t)
    BY <1>3 DEF RequestRebook, Claims, TypeOK
  <2>2. UNCHANGED classes
    BY <1>3 DEF RequestRebook
  <2> QED BY <2>1, <2>2, ClaimsSame
<1>4. ASSUME NEW s \in Sessions, NEW c \in Classes, NEW status \in Statuses,
             RequestStatus(s, c, status)
      PROVE  ClaimsFresh'
  <2>1. \A t \in Sessions : Claims(t)' \subseteq Claims(t)
    BY <1>4 DEF RequestStatus, Claims, TypeOK
  <2>2. UNCHANGED classes
    BY <1>4 DEF RequestStatus
  <2> QED BY <2>1, <2>2, ClaimsSame
<1>5. ASSUME NEW s \in Sessions, ReadInstructor(s)
      PROVE  ClaimsFresh'
  <2>1. \A t \in Sessions : Claims(t)' \subseteq Claims(t)
    BY <1>5 DEF ReadInstructor, Claims, TypeOK
  <2>2. UNCHANGED classes
    BY <1>5 DEF ReadInstructor
  <2> QED BY <2>1, <2>2, ClaimsSame
<1>6. ASSUME NEW s \in Sessions, TakeLock(s)
      PROVE  ClaimsFresh'
  <2>1. \A t \in Sessions : Claims(t)' = Claims(t)
    BY <1>6, TakeLockClaims
  <2> QED BY <1>6, <2>1, ClaimsSame, TakeLockFields
<1>7. ASSUME NEW s \in Sessions, NEW c \in Classes, BookNext(s, c)
      PROVE  ClaimsFresh'
  <2>1. /\ \A t \in Sessions \ {s} : txn'[t] = txn[t]
        /\ DOMAIN txn'[s].todo = DOMAIN txn[s].todo \ {c}
        /\ DOMAIN txn'[s].writes = DOMAIN txn[s].writes \cup {c}
        /\ txn[s].op = "book" /\ txn'[s].op = "book" /\ UNCHANGED classes
        /\ c \in DOMAIN txn[s].todo
    <3> DEFINE row == [instructor |-> txn[s].instructor,
                       slot |-> txn[s].todo[c],
                       status |-> txn[s].status, source |-> "ssms"]
    <3>1. DOMAIN Over(Only(c, row), txn[s].writes) = {c} \cup DOMAIN txn[s].writes
      BY DEF Over, Only
    <3> QED BY <1>7, <3>1, BookNextFields DEF BookNext
  <2>2. \A t \in Sessions : Claims(t)' \subseteq Claims(t)
    BY <2>1 DEF Claims
  <2> QED BY <2>1, <2>2, ClaimsSame
<1>8. ASSUME NEW s \in Sessions, RebookCheck(s)
      PROVE  ClaimsFresh'
  BY <1>8, ClaimsSame, CheckFields DEF Claims
<1>9. ASSUME NEW s \in Sessions, RebookRow(s)
      PROVE  ClaimsFresh'
  <2>1. \A t \in Sessions : Claims(t)' \subseteq Claims(t)
    <3>1. /\ \A t \in Sessions \ {s} : txn'[t] = txn[t]
          /\ txn'[s].op # "book"
      BY <1>9, RebookRowFields
    <3> QED BY <3>1 DEF Claims
  <2>2. UNCHANGED classes
    BY <1>9, RebookRowFields
  <2> QED BY <2>1, <2>2, ClaimsSame
<1>10. ASSUME NEW s \in Sessions, StatusRow(s)
      PROVE  ClaimsFresh'
  <2>1. \A t \in Sessions : Claims(t)' \subseteq Claims(t)
    <3>1. /\ \A t \in Sessions \ {s} : txn'[t] = txn[t]
          /\ txn'[s].op # "book"
      BY <1>10, StatusRowFields
    <3> QED BY <3>1 DEF Claims
  <2>2. UNCHANGED classes
    BY <1>10, StatusRowFields
  <2> QED BY <2>1, <2>2, ClaimsSame
<1>11. ASSUME NEW s \in Sessions, RestoreCheck(s)
      PROVE  ClaimsFresh'
  BY <1>11, ClaimsSame, CheckFields DEF Claims
<1>12. ASSUME NEW s \in Sessions, Commit(s)
      PROVE  ClaimsFresh'
  <2>1. /\ \A t \in Sessions \ {s} : Claims(t)' = Claims(t)
        /\ Claims(s)' = {}
    BY <1>12, ReleaseFields DEF Commit, Claims
  <2>2. DOMAIN classes' = DOMAIN txn[s].writes \cup DOMAIN classes
    BY <1>12, OverAt DEF Commit
  <2>3. \A t \in Sessions \ {s} : Claims(t) \cap DOMAIN txn[s].writes = {}
    <3>1. txn[s].op = "book" => DOMAIN txn[s].writes \subseteq Claims(s)
      BY DEF Claims
    <3>2. txn[s].op # "book" => DOMAIN txn[s].writes \subseteq DOMAIN classes
      BY <1>12, CommitWrites DEF Commit
    <3> QED BY <3>1, <3>2 DEF ClaimsFresh
  <2> QED BY <2>1, <2>2, <2>3 DEF ClaimsFresh
<1>13. ASSUME NEW s \in Sessions, RaiseOverlap(s)
      PROVE  ClaimsFresh'
  <2>1. \A t \in Sessions : Claims(t)' \subseteq Claims(t)
    BY <1>13, ReleaseFields DEF RaiseOverlap, Claims
  <2> QED BY <1>13, <2>1, ClaimsSame DEF RaiseOverlap
<1>14. ASSUME NEW s \in Sessions, RaiseCancelled(s)
      PROVE  ClaimsFresh'
  <2>1. \A t \in Sessions : Claims(t)' \subseteq Claims(t)
    BY <1>14, ReleaseFields DEF RaiseCancelled, Claims
  <2> QED BY <1>14, <2>1, ClaimsSame DEF RaiseCancelled
<1>15. ASSUME NEW s \in Sessions, Lost(s)
      PROVE  ClaimsFresh'
  <2>1. \A t \in Sessions : Claims(t)' \subseteq Claims(t)
    BY <1>15, ReleaseFields DEF Lost, Claims
  <2> QED BY <1>15, <2>1, ClaimsSame DEF Lost
<1>16. ASSUME NEW c \in Classes, NEW i \in Instructors, NEW slot \in Slots,
             NEW status \in Statuses, ImportClass(c, i, slot, status)
      PROVE  ClaimsFresh'
  <2>1. \A t \in Sessions : Claims(t)' = Claims(t) /\ c \notin Claims(t)
    BY <1>16 DEF ImportClass, Claims, Fresh
  <2>2. DOMAIN classes' = DOMAIN classes \cup {c}
    <3> DEFINE row == [instructor |-> i, slot |-> slot, status |-> status,
                       source |-> "app_import"]
    <3>1. DOMAIN Over(Only(c, row), classes) = {c} \cup DOMAIN classes
      BY DEF Over, Only
    <3> QED BY <1>16, <3>1 DEF ImportClass
  <2> QED BY <2>1, <2>2 DEF ClaimsFresh
<1> QED BY <1>1, <1>2, <1>3, <1>4, <1>5, <1>6, <1>7, <1>8, <1>9,
           <1>10, <1>11, <1>12, <1>13, <1>14, <1>15, <1>16
       DEF Next, Request, Statement

LEMMA WritesOthers ==
  ASSUME WritesShape, UNCHANGED classes, NEW s \in Sessions, WritesOf(s)',
         \A t \in Sessions \ {s} : txn'[t] = txn[t]
  PROVE  WritesShape'
<1>1. \A t \in Sessions \ {s} : WritesOf(t) => WritesOf(t)'
  BY DEF WritesOf, HoldsRow, Live
<1> QED BY <1>1 DEF WritesShape

\* A row a transaction has locked is the row it is about to overwrite.
LEMMA WritesShapeStep ==
  ASSUME TypeOK, ClaimsFresh, ClassExists, WritesShape, RowsHeld, [Next]_vars
  PROVE  WritesShape'
<1>1. CASE UNCHANGED vars
  BY <1>1 DEF vars, WritesShape, WritesOf, HoldsRow, Live
<1>2. ASSUME NEW s \in Sessions, NEW i \in Instructors,
             NEW plan \in PartialFn(Classes, Slots), NEW status \in LiveStatuses,
             RequestBook(s, i, plan, status)
      PROVE  WritesShape'
  <2>1. /\ UNCHANGED classes
        /\ \A t \in Sessions \ {s} : txn'[t] = txn[t]
        /\ txn'[s].pc \in {"lock", "read"}
        /\ txn'[s].op = "book" => txn'[s].writes = NoRows
    BY <1>2 DEF RequestBook, TypeOK
  <2>2. WritesOf(s)'
    BY <2>1 DEF WritesOf, HoldsRow, NoRows
  <2> QED BY <2>1, <2>2, WritesOthers
<1>3. ASSUME NEW s \in Sessions, NEW c \in Classes, NEW i \in Instructors,
             NEW slot \in Slots, RequestRebook(s, c, i, slot)
      PROVE  WritesShape'
  <2>1. /\ UNCHANGED classes
        /\ \A t \in Sessions \ {s} : txn'[t] = txn[t]
        /\ txn'[s].pc \in {"lock", "read"}
        /\ txn'[s].op = "book" => txn'[s].writes = NoRows
    BY <1>3 DEF RequestRebook, TypeOK
  <2>2. WritesOf(s)'
    BY <2>1 DEF WritesOf, HoldsRow, NoRows
  <2> QED BY <2>1, <2>2, WritesOthers
<1>4. ASSUME NEW s \in Sessions, NEW c \in Classes, NEW status \in Statuses,
             RequestStatus(s, c, status)
      PROVE  WritesShape'
  <2>1. /\ UNCHANGED classes
        /\ \A t \in Sessions \ {s} : txn'[t] = txn[t]
        /\ txn'[s].pc \in {"lock", "read"}
        /\ txn'[s].op = "book" => txn'[s].writes = NoRows
    BY <1>4 DEF RequestStatus, TypeOK
  <2>2. WritesOf(s)'
    BY <2>1 DEF WritesOf, HoldsRow, NoRows
  <2> QED BY <2>1, <2>2, WritesOthers
<1>5. ASSUME NEW s \in Sessions, ReadInstructor(s)
      PROVE  WritesShape'
  <2>1. /\ UNCHANGED classes
        /\ \A t \in Sessions \ {s} : txn'[t] = txn[t]
        /\ txn'[s].pc \in {"lock", "read"}
        /\ txn'[s].op = "book" => txn'[s].writes = NoRows
    BY <1>5 DEF ReadInstructor, TypeOK
  <2>2. WritesOf(s)'
    BY <2>1 DEF WritesOf, HoldsRow, NoRows
  <2> QED BY <2>1, <2>2, WritesOthers
<1>6. ASSUME NEW s \in Sessions, TakeLock(s)
      PROVE  WritesShape'
  <2>1. /\ UNCHANGED classes
        /\ \A t \in Sessions \ {s} : txn'[t] = txn[t]
        /\ txn'[s].op = txn[s].op /\ txn'[s].writes = txn[s].writes
        /\ txn'[s].instructor = txn[s].instructor
        /\ txn'[s].pc \in {"row", "check"}
    BY <1>6, TakeLockFields
  <2>2. WritesOf(s)'
    BY <2>1 DEF WritesShape, WritesOf, HoldsRow, Live
  <2> QED BY <2>1, <2>2, WritesOthers
<1>7. ASSUME NEW s \in Sessions, NEW c \in Classes, BookNext(s, c)
      PROVE  WritesShape'
  <2> DEFINE row == [instructor |-> txn[s].instructor,
                     slot |-> txn[s].todo[c],
                     status |-> txn[s].status, source |-> "ssms"]
  <2>1. /\ UNCHANGED classes
        /\ \A t \in Sessions \ {s} : txn'[t] = txn[t]
        /\ txn'[s].writes = Over(Only(c, row), txn[s].writes)
        /\ txn[s].op = "book" /\ txn'[s].op = "book"
        /\ txn'[s].instructor = txn[s].instructor
        /\ txn'[s].pc # "lock"
    BY <1>7, BookNextFields
  <2>2. Live(row)
    BY <1>7, TxnCases DEF BookNext, BookTxn, Live
  <2>3. \A d \in DOMAIN txn'[s].writes :
          txn'[s].writes[d] = IF d = c THEN row ELSE txn[s].writes[d]
    BY <2>1 DEF Over, Only
  <2>4. DOMAIN txn'[s].writes = {c} \cup DOMAIN txn[s].writes
    BY <2>1 DEF Over, Only
  <2>5. WritesOf(s)'
    <3>1. \A d \in DOMAIN txn[s].writes :
            /\ Live(txn[s].writes[d])
            /\ txn[s].writes[d].instructor = txn[s].instructor
      BY <2>1 DEF WritesShape, WritesOf
    <3>2. row.instructor = txn[s].instructor
      OBVIOUS
    <3> HIDE DEF row
    <3> QED BY <3>1, <3>2, <2>1, <2>2, <2>3, <2>4 DEF WritesOf, Live
  <2> QED BY <2>1, <2>5, WritesOthers
<1>8. ASSUME NEW s \in Sessions, RebookCheck(s)
      PROVE  WritesShape'
  <2>1. /\ UNCHANGED classes
        /\ \A t \in Sessions \ {s} : txn'[t] = txn[t]
    BY <1>8, CheckFields
  <2>2. WritesOf(s)'
    BY <1>8, CheckFields DEF WritesShape, WritesOf, HoldsRow
  <2> QED BY <2>1, <2>2, WritesOthers
<1>9. ASSUME NEW s \in Sessions, RebookRow(s)
      PROVE  WritesShape'
  <2>1. /\ UNCHANGED classes
        /\ \A t \in Sessions \ {s} : txn'[t] = txn[t]
    BY <1>9, RebookRowFields
  <2>2. WritesOf(s)'
    BY <1>9, RebookRowFields DEF WritesOf, HoldsRow, Live
  <2> QED BY <2>1, <2>2, WritesOthers
<1>10. ASSUME NEW s \in Sessions, StatusRow(s)
      PROVE  WritesShape'
  <2>1. /\ UNCHANGED classes
        /\ \A t \in Sessions \ {s} : txn'[t] = txn[t]
    BY <1>10, StatusRowFields
  <2>2. WritesOf(s)'
    BY <1>10, StatusRowFields DEF WritesOf, HoldsRow
  <2> QED BY <2>1, <2>2, WritesOthers
<1>11. ASSUME NEW s \in Sessions, RestoreCheck(s)
      PROVE  WritesShape'
  <2>1. /\ UNCHANGED classes
        /\ \A t \in Sessions \ {s} : txn'[t] = txn[t]
    BY <1>11, CheckFields
  <2>2. WritesOf(s)'
    BY <1>11, CheckFields DEF WritesShape, WritesOf, HoldsRow
  <2> QED BY <2>1, <2>2, WritesOthers
<1>12. ASSUME NEW s \in Sessions, Commit(s)
      PROVE  WritesShape'
  <2>1. /\ \A t \in Sessions \ {s} : txn'[t] = txn[t]
        /\ txn'[s].op = "none" /\ txn'[s].pc = "idle"
    BY <1>12, ReleaseFields DEF Commit
  <2>2. \A d \in DOMAIN classes \ DOMAIN txn[s].writes : classes'[d] = classes[d]
    BY <1>12 DEF Commit, Over
  <2>3. \A t \in Sessions \ {s} : HoldsRow(t) =>
          txn[t].class \in DOMAIN classes \ DOMAIN txn[s].writes
    BY <1>12, CommitWrites DEF Commit
  <2>4. \A t \in Sessions \ {s} : WritesOf(t) => WritesOf(t)'
    BY <2>1, <2>2, <2>3 DEF WritesOf, HoldsRow, Live
  <2>5. WritesOf(s)'
    BY <2>1 DEF WritesOf, HoldsRow
  <2> QED BY <2>4, <2>5 DEF WritesShape
<1>13. ASSUME NEW s \in Sessions, RaiseOverlap(s)
      PROVE  WritesShape'
  <2>1. /\ UNCHANGED classes
        /\ \A t \in Sessions \ {s} : txn'[t] = txn[t]
        /\ txn'[s].op = "none"
    BY <1>13, ReleaseFields DEF RaiseOverlap
  <2>2. WritesOf(s)'
    BY <2>1 DEF WritesOf, HoldsRow
  <2> QED BY <2>1, <2>2, WritesOthers
<1>14. ASSUME NEW s \in Sessions, RaiseCancelled(s)
      PROVE  WritesShape'
  <2>1. /\ UNCHANGED classes
        /\ \A t \in Sessions \ {s} : txn'[t] = txn[t]
        /\ txn'[s].op = "none"
    BY <1>14, ReleaseFields DEF RaiseCancelled
  <2>2. WritesOf(s)'
    BY <2>1 DEF WritesOf, HoldsRow
  <2> QED BY <2>1, <2>2, WritesOthers
<1>15. ASSUME NEW s \in Sessions, Lost(s)
      PROVE  WritesShape'
  <2>1. /\ UNCHANGED classes
        /\ \A t \in Sessions \ {s} : txn'[t] = txn[t]
        /\ txn'[s].op = "none"
    BY <1>15, ReleaseFields DEF Lost
  <2>2. WritesOf(s)'
    BY <2>1 DEF WritesOf, HoldsRow
  <2> QED BY <2>1, <2>2, WritesOthers
<1>16. ASSUME NEW c \in Classes, NEW i \in Instructors, NEW slot \in Slots,
             NEW status \in Statuses, ImportClass(c, i, slot, status)
      PROVE  WritesShape'
  <2>1. \A t \in Sessions : txn'[t] = txn[t]
    BY <1>16 DEF ImportClass
  <2>2. \A d \in DOMAIN classes : classes'[d] = classes[d]
    BY <1>16 DEF ImportClass, Over, Only, Fresh
  <2>3. \A t \in Sessions : WritesOf(t) => WritesOf(t)'
    BY <2>1, <2>2 DEF WritesOf, HoldsRow, ClassExists, Live
  <2> QED BY <2>3 DEF WritesShape
<1> QED BY <1>1, <1>2, <1>3, <1>4, <1>5, <1>6, <1>7, <1>8, <1>9,
           <1>10, <1>11, <1>12, <1>13, <1>14, <1>15, <1>16
       DEF Next, Request, Statement

-----------------------------------------------------------------------------
(* What a commit adds to the schedule.                                      *)

\* A booked lesson that was checked under its own instructor's lock.
Solid(o) == o \in DOMAIN classes \ astray /\ Booked(o)

\* Instructor i gets no lesson in this step, and none of theirs is moved.
Kept(i) ==
  \A o : Solid(o)' /\ classes'[o].instructor = i =>
    Solid(o) /\ classes[o].instructor = i /\ classes[o].slot = classes'[o].slot

LEMMA OverlapSymmetric == ASSUME NEW a, NEW b PROVE Overlap(a, b) <=> Overlap(b, a)
BY DEF Overlap

\* A lesson that is solid after a commit was so before and has not moved, or it
\* is one that the transaction has checked.
LEMMA CommitRow ==
  ASSUME TypeOK, ClaimsFresh, ClassExists, WritesShape, RowsHeld, PendingClear,
         NEW s \in Sessions, Commit(s), NEW o, Solid(o)'
  PROVE  \/ /\ Solid(o)
            /\ classes[o].instructor = classes'[o].instructor
            /\ classes[o].slot = classes'[o].slot
         \/ /\ o \in DOMAIN txn[s].writes
            /\ classes'[o] = txn[s].writes[o]
            /\ classes'[o].instructor = txn[s].instructor
            /\ ClearOf(txn[s].instructor, classes'[o].slot, o)
<1> DEFINE k == txn[s].class
<1>1. /\ txn[s].pc = "commit"
      /\ DOMAIN classes' = DOMAIN txn[s].writes \cup DOMAIN classes
      /\ \A c \in DOMAIN txn[s].writes : classes'[c] = txn[s].writes[c]
      /\ \A c \in DOMAIN classes \ DOMAIN txn[s].writes : classes'[c] = classes[c]
      /\ astray' = AstrayAfter(s)
  BY DEF Commit, Over
<1>2. /\ o \in DOMAIN classes' /\ o \notin astray'
      /\ Live(classes'[o]) /\ classes'[o].source = "ssms"
  BY DEF Solid, Booked, Live
<1>3. /\ txn[s].op \in {"book", "rebook", "status"}
      /\ txn[s].op \in {"rebook", "status"} =>
           HoldsRow(s) /\ DOMAIN txn[s].writes = {k} /\ k \in DOMAIN classes
  BY <1>1, CommitWrites
<1>4. WritesOf(s) /\ PendingClearOf(s)
  BY DEF WritesShape, PendingClear
<1>5. CASE o \notin DOMAIN txn[s].writes
  <2>1. o \notin astray
    BY <1>1, <1>2, <1>3, <1>5 DEF AstrayAfter
  <2>2. o \in DOMAIN classes /\ classes'[o] = classes[o]
    BY <1>1, <1>2, <1>5
  <2> QED BY <1>2, <2>1, <2>2 DEF Solid, Booked, Live
<1>6. CASE o \in DOMAIN txn[s].writes /\ txn[s].op = "book"
  BY <1>1, <1>4, <1>6 DEF WritesOf, PendingClearOf
<1>7. CASE o \in DOMAIN txn[s].writes /\ txn[s].op = "rebook"
  <2> DEFINE row == [classes[k] EXCEPT !.instructor = txn[s].instructor,
                                       !.slot = txn[s].slot]
  <2>1. o = k /\ txn[s].writes = Only(k, row)
    BY <1>1, <1>3, <1>4, <1>7 DEF WritesOf
  <2>2. classes'[o] = row
    <3> HIDE DEF k, row
    <3>1. Only(k, row)[k] = row
      BY DEF Only
    <3> QED BY <1>1, <1>7, <2>1, <3>1
  <2>3. row.instructor = txn[s].instructor /\ row.slot = txn[s].slot
    BY <1>3, <1>7, RowFields DEF Row
  <2>4. ClearOf(txn[s].instructor, txn[s].slot, k)
    BY <1>1, <1>4, <1>7 DEF PendingClearOf
  <2> QED BY <1>1, <1>7, <2>1, <2>2, <2>3, <2>4
<1>8. CASE o \in DOMAIN txn[s].writes /\ txn[s].op = "status"
  <2> DEFINE row == [classes[k] EXCEPT !.status = txn[s].status]
  <2>1. o = k /\ txn[s].writes = Only(k, row)
    BY <1>1, <1>3, <1>4, <1>8 DEF WritesOf
  <2>2. classes'[o] = row
    <3> HIDE DEF k, row
    <3>1. Only(k, row)[k] = row
      BY DEF Only
    <3> QED BY <1>1, <1>8, <2>1, <3>1
  <2>3. /\ row.instructor = classes[k].instructor
        /\ row.slot = classes[k].slot
        /\ row.status = txn[s].status
        /\ row.source = classes[k].source
    BY <1>3, <1>8, RowFields DEF Row
  <2>4. txn[s].status # "cancelled" /\ classes[k].source = "ssms"
    BY <1>2, <2>2, <2>3, StatusAssumption DEF Live
  <2>5. CASE Live(classes[k])
    <3>1. o \notin astray
      BY <1>1, <1>2, <1>8, <2>5 DEF AstrayAfter
    <3> QED BY <1>3, <1>8, <2>1, <2>2, <2>3, <2>4, <2>5, <3>1 DEF Solid, Booked
  <2>6. CASE ~Live(classes[k])
    <3>1. classes[k].instructor = txn[s].instructor
      BY <1>1, <1>2, <1>8, <2>1, <2>4, <2>6 DEF AstrayAfter
    <3>2. ClearOf(txn[s].instructor, classes[k].slot, k)
      BY <1>1, <1>4, <1>8, <2>4, <2>6, <3>1 DEF PendingClearOf
    <3> QED BY <1>1, <1>8, <2>1, <2>2, <2>3, <3>1, <3>2
  <2> QED BY <2>5, <2>6
<1> QED BY <1>3, <1>5, <1>6, <1>7, <1>8

LEMMA CommitKept ==
  ASSUME TypeOK, ClaimsFresh, ClassExists, WritesShape, RowsHeld, PendingClear,
         NEW s \in Sessions, Commit(s), NEW i, i # txn[s].instructor
  PROVE  Kept(i)
BY CommitRow DEF Kept

LEMMA ImportKept ==
  ASSUME NEW c \in Classes, NEW i \in Instructors, NEW slot \in Slots,
         NEW status \in Statuses, ImportClass(c, i, slot, status), NEW o, Solid(o)'
  PROVE  Solid(o) /\ classes'[o] = classes[o]
<1> DEFINE row == [instructor |-> i, slot |-> slot, status |-> status,
                   source |-> "app_import"]
<1>1. /\ classes' = Over(Only(c, row), classes)
      /\ UNCHANGED astray
  BY DEF ImportClass
<1>2. row.source # "ssms"
  OBVIOUS
<1> HIDE DEF row
<1>3. DOMAIN classes' = {c} \cup DOMAIN classes
  BY <1>1 DEF Over, Only
<1>4. classes'[c] = row
  BY <1>1 DEF Over, Only
<1>5. \A d \in DOMAIN classes \ {c} : classes'[d] = classes[d]
  BY <1>1 DEF Over, Only
<1> QED BY <1>1, <1>2, <1>3, <1>4, <1>5 DEF Solid, Booked, Live

-----------------------------------------------------------------------------
(* The overlap check does not go stale.                                     *)

LEMMA ClearKept ==
  ASSUME NEW i, NEW slot, NEW c, ClearOf(i, slot, c), Kept(i)
  PROVE  \A o \in DOMAIN classes' \ astray' :
           o # c /\ Booked(o)' /\ classes'[o].instructor = i
             => ~Overlap(classes'[o].slot, slot)
BY DEF ClearOf, Kept, Solid

\* A session keeps what it has checked while others gain no lesson of its
\* instructor and do not touch the row it has locked.
LEMMA PendingOther ==
  ASSUME TypeOK, WritesShape, PendingClear, NEW t \in Sessions, txn'[t] = txn[t],
         HoldsLock(t) => Kept(txn[t].instructor),
         HoldsRow(t) => classes'[txn[t].class] = classes[txn[t].class]
  PROVE  PendingClearOf(t)'
<1>1. PendingClearOf(t)
  BY DEF PendingClear
<1>2. ASSUME txn[t].op = "book", NEW c \in DOMAIN txn[t].writes
      PROVE  /\ \A o \in DOMAIN classes' \ astray' :
                   o # c /\ Booked(o)' /\ classes'[o].instructor = txn[t].instructor
                     => ~Overlap(classes'[o].slot, txn[t].writes[c].slot)
             /\ \A d \in DOMAIN txn[t].writes \ {c} :
                   ~Overlap(txn[t].writes[d].slot, txn[t].writes[c].slot)
  <2>1. txn[t].pc # "lock"
    BY <1>2 DEF WritesShape, WritesOf, NoRows
  <2>2. HoldsLock(t)
    BY <1>2, <2>1, TxnCases DEF HoldsLock, BookTxn
  <2>3. ClearOf(txn[t].instructor, txn[t].writes[c].slot, c)
    BY <1>1, <1>2 DEF PendingClearOf
  <2>4. \A d \in DOMAIN txn[t].writes \ {c} :
          ~Overlap(txn[t].writes[d].slot, txn[t].writes[c].slot)
    BY <1>1, <1>2 DEF PendingClearOf
  <2> QED BY <2>2, <2>3, <2>4, ClearKept
<1>3. ASSUME txn[t].op = "rebook", txn[t].pc \in {"row", "commit"}
      PROVE  \A o \in DOMAIN classes' \ astray' :
               o # txn[t].class /\ Booked(o)'
                 /\ classes'[o].instructor = txn[t].instructor
                 => ~Overlap(classes'[o].slot, txn[t].slot)
  <2>1. HoldsLock(t)
    BY <1>3 DEF HoldsLock
  <2>2. ClearOf(txn[t].instructor, txn[t].slot, txn[t].class)
    BY <1>1, <1>3 DEF PendingClearOf
  <2> QED BY <2>1, <2>2, ClearKept
<1>4. ASSUME txn[t].op = "status", txn[t].pc = "commit",
             ~Live(classes'[txn[t].class]), txn[t].status # "cancelled",
             txn[t].instructor = classes'[txn[t].class].instructor
      PROVE  \A o \in DOMAIN classes' \ astray' :
               o # txn[t].class /\ Booked(o)'
                 /\ classes'[o].instructor = txn[t].instructor
                 => ~Overlap(classes'[o].slot, classes'[txn[t].class].slot)
  <2>1. HoldsLock(t)
    BY <1>4 DEF HoldsLock
  <2>2. classes'[txn[t].class] = classes[txn[t].class]
    BY <1>4 DEF HoldsRow
  <2>3. ClearOf(txn[t].instructor, classes[txn[t].class].slot, txn[t].class)
    BY <1>1, <1>4, <2>2 DEF PendingClearOf, Live
  <2> QED BY <2>1, <2>2, <2>3, ClearKept
<1> QED BY <1>2, <1>3, <1>4 DEF PendingClearOf, ClearOf, Live

LEMMA PendingOthers ==
  ASSUME TypeOK, WritesShape, PendingClear, UNCHANGED <<classes, astray>>,
         NEW s \in Sessions, PendingClearOf(s)',
         \A t \in Sessions \ {s} : txn'[t] = txn[t]
  PROVE  PendingClear'
<1>1. \A i : Kept(i)
  BY DEF Kept, Solid, Booked, Live
<1>2. \A t \in Sessions \ {s} : PendingClearOf(t)'
  BY <1>1, PendingOther
<1> QED BY <1>2 DEF PendingClear

LEMMA PendingOfRelease ==
  ASSUME TypeOK, NEW s \in Sessions, Release(s)
  PROVE  PendingClearOf(s)'
BY ReleaseFields DEF PendingClearOf

\* One turn of the loop of book_classes: the new row is clear of the committed
\* lessons and of the rows the series has written before it.
LEMMA BookNextClear ==
  ASSUME TypeOK, ClaimsFresh, WritesShape, PendingClear,
         NEW s \in Sessions, NEW c \in Classes, BookNext(s, c)
  PROVE  PendingClearOf(s)'
<1> DEFINE i == txn[s].instructor
           w == txn[s].writes
           new == txn[s].todo[c]
           row == [instructor |-> i, slot |-> new,
                   status |-> txn[s].status, source |-> "ssms"]
<1>1. /\ txn'[s].writes = Over(Only(c, row), w)
      /\ txn[s].op = "book" /\ txn'[s].op = "book"
      /\ txn'[s].instructor = i
      /\ UNCHANGED <<classes, astray>>
  BY BookNextFields
<1>2. row.slot = new
  OBVIOUS
<1>3. ~Conflict(Visible(s), i, new, c)
  BY DEF BookNext
<1>4. DOMAIN w \cap DOMAIN classes = {}
  BY <1>1 DEF ClaimsFresh, Claims
<1>5. \A d \in DOMAIN w : Live(w[d]) /\ w[d].instructor = i
  BY <1>1 DEF WritesShape, WritesOf
<1>6. /\ DOMAIN Visible(s) = DOMAIN w \cup DOMAIN classes
      /\ \A d \in DOMAIN w : Visible(s)[d] = w[d]
      /\ \A d \in DOMAIN classes : Visible(s)[d] = classes[d]
  BY <1>4 DEF Visible, Over
<1>7. ClearOf(i, new, c)
  BY <1>3, <1>6 DEF Conflict, ClearOf, Booked
<1>8. \A d \in DOMAIN w \ {c} : ~Overlap(w[d].slot, new)
  BY <1>3, <1>5, <1>6 DEF Conflict
<1>9. \A d \in DOMAIN w :
        /\ ClearOf(i, w[d].slot, d)
        /\ \A e \in DOMAIN w \ {d} : ~Overlap(w[e].slot, w[d].slot)
  BY <1>1 DEF PendingClear, PendingClearOf
<1>10. /\ DOMAIN txn'[s].writes = {c} \cup DOMAIN w
       /\ txn'[s].writes[c] = row
       /\ \A d \in DOMAIN w \ {c} : txn'[s].writes[d] = w[d]
  <2> HIDE DEF w, row
  <2> QED BY <1>1 DEF Over, Only
<1> HIDE DEF i, w, new, row
<1>11. ASSUME NEW d \in DOMAIN txn'[s].writes
       PROVE  /\ ClearOf(i, txn'[s].writes[d].slot, d)
              /\ \A e \in DOMAIN txn'[s].writes \ {d} :
                    ~Overlap(txn'[s].writes[e].slot, txn'[s].writes[d].slot)
  <2>1. CASE d = c
    BY <1>2, <1>7, <1>8, <1>10, <2>1
  <2>2. CASE d # c
    <3>1. d \in DOMAIN w /\ txn'[s].writes[d] = w[d]
      BY <1>10, <2>2
    <3>2. ClearOf(i, w[d].slot, d)
      BY <1>9, <3>1
    <3>3. ~Overlap(new, w[d].slot)
      BY <1>8, <2>2, <3>1, OverlapSymmetric
    <3>4. \A e \in DOMAIN txn'[s].writes \ {d} :
            ~Overlap(txn'[s].writes[e].slot, w[d].slot)
      BY <1>2, <1>9, <1>10, <3>1, <3>3
    <3> QED BY <3>1, <3>2, <3>4
  <2> QED BY <2>1, <2>2
<1> QED BY <1>1, <1>11 DEF PendingClearOf, ClearOf, Booked, Live

\* Between the overlap check and the commit no other session can commit a lesson
\* of the instructor.
LEMMA PendingClearStep ==
  ASSUME TypeOK, LocksHeld, RowsHeld, ClaimsFresh, ClassExists, WritesShape,
         PendingClear, [Next]_vars
  PROVE  PendingClear'
<1>1. CASE UNCHANGED vars
  <2>1. \A i : Kept(i)
    BY <1>1 DEF Kept, Solid, Booked, Live, vars
  <2>2. \A t \in Sessions : PendingClearOf(t)'
    BY <1>1, <2>1, PendingOther DEF vars
  <2> QED BY <2>2 DEF PendingClear
<1>2. ASSUME NEW s \in Sessions, NEW i \in Instructors,
             NEW plan \in PartialFn(Classes, Slots), NEW status \in LiveStatuses,
             RequestBook(s, i, plan, status)
      PROVE  PendingClear'
  <2>1. PendingClearOf(s)'
    BY <1>2 DEF RequestBook, PendingClearOf, TypeOK, NoRows
  <2> QED BY <1>2, <2>1, PendingOthers DEF RequestBook, TypeOK
<1>3. ASSUME NEW s \in Sessions, NEW c \in Classes, NEW i \in Instructors,
             NEW slot \in Slots, RequestRebook(s, c, i, slot)
      PROVE  PendingClear'
  <2>1. PendingClearOf(s)'
    BY <1>3 DEF RequestRebook, PendingClearOf, TypeOK, NoRows
  <2> QED BY <1>3, <2>1, PendingOthers DEF RequestRebook, TypeOK
<1>4. ASSUME NEW s \in Sessions, NEW c \in Classes, NEW status \in Statuses,
             RequestStatus(s, c, status)
      PROVE  PendingClear'
  <2>1. PendingClearOf(s)'
    BY <1>4 DEF RequestStatus, PendingClearOf, TypeOK, NoRows
  <2> QED BY <1>4, <2>1, PendingOthers DEF RequestStatus, TypeOK
<1>5. ASSUME NEW s \in Sessions, ReadInstructor(s)
      PROVE  PendingClear'
  <2>1. PendingClearOf(s)'
    BY <1>5 DEF ReadInstructor, PendingClearOf, TypeOK, NoRows
  <2> QED BY <1>5, <2>1, PendingOthers DEF ReadInstructor, TypeOK
<1>6. ASSUME NEW s \in Sessions, TakeLock(s)
      PROVE  PendingClear'
  <2>1. /\ \A t \in Sessions \ {s} : txn'[t] = txn[t]
        /\ txn'[s].op = txn[s].op /\ txn'[s].writes = txn[s].writes
        /\ txn[s].pc = "lock" /\ txn'[s].pc \in {"row", "check"}
        /\ txn[s].op = "rebook" => txn'[s].pc = "check"
        /\ UNCHANGED <<classes, astray>>
    BY <1>6, TakeLockFields
  <2>2. txn[s].op = "book" => txn[s].writes = NoRows
    BY <2>1 DEF WritesShape, WritesOf
  <2>3. PendingClearOf(s)'
    BY <2>1, <2>2 DEF PendingClearOf, NoRows
  <2> QED BY <2>1, <2>3, PendingOthers
<1>7. ASSUME NEW s \in Sessions, NEW c \in Classes, BookNext(s, c)
      PROVE  PendingClear'
  BY <1>7, BookNextClear, BookNextFields, PendingOthers
<1>8. ASSUME NEW s \in Sessions, RebookCheck(s)
      PROVE  PendingClear'
  <2>1. /\ \A t \in Sessions \ {s} : txn'[t] = txn[t]
        /\ txn[s].op = "rebook" /\ txn'[s].op = "rebook"
        /\ txn'[s].instructor = txn[s].instructor
        /\ txn'[s].class = txn[s].class /\ txn'[s].slot = txn[s].slot
        /\ UNCHANGED <<classes, astray>>
    BY <1>8, CheckFields DEF RebookCheck
  <2>2. ~Conflict(classes, txn[s].instructor, txn[s].slot, txn[s].class)
    BY <1>8 DEF RebookCheck
  <2>3. PendingClearOf(s)'
    BY <2>1, <2>2 DEF Conflict, PendingClearOf, ClearOf, Booked, Live
  <2> QED BY <2>1, <2>3, PendingOthers
<1>9. ASSUME NEW s \in Sessions, RebookRow(s)
      PROVE  PendingClear'
  <2>1. /\ \A t \in Sessions \ {s} : txn'[t] = txn[t]
        /\ txn[s].op = "rebook" /\ txn'[s].op = "rebook"
        /\ txn[s].pc = "row"
        /\ txn'[s].instructor = txn[s].instructor
        /\ txn'[s].class = txn[s].class /\ txn'[s].slot = txn[s].slot
        /\ UNCHANGED <<classes, astray>>
    BY <1>9, RebookRowFields
  <2>2. PendingClearOf(s)'
    BY <2>1 DEF PendingClear, PendingClearOf, ClearOf, Booked, Live
  <2> QED BY <2>1, <2>2, PendingOthers
<1>10. ASSUME NEW s \in Sessions, StatusRow(s)
      PROVE  PendingClear'
  <2>1. /\ \A t \in Sessions \ {s} : txn'[t] = txn[t]
        /\ txn'[s].op = "status"
        /\ txn'[s].pc = "commit" =>
             Live(classes[txn[s].class]) \/ txn[s].status = "cancelled"
        /\ txn'[s].class = txn[s].class
        /\ txn'[s].status = txn[s].status
        /\ UNCHANGED <<classes, astray>>
    BY <1>10, StatusRowFields
  <2>2. PendingClearOf(s)'
    BY <2>1 DEF PendingClearOf, Live
  <2> QED BY <2>1, <2>2, PendingOthers
<1>11. ASSUME NEW s \in Sessions, RestoreCheck(s)
      PROVE  PendingClear'
  <2>1. /\ \A t \in Sessions \ {s} : txn'[t] = txn[t]
        /\ txn[s].op = "status" /\ txn'[s].op = "status"
        /\ txn'[s].instructor = txn[s].instructor
        /\ txn'[s].class = txn[s].class
        /\ UNCHANGED <<classes, astray>>
    BY <1>11, CheckFields DEF RestoreCheck
  <2>2. ~Conflict(classes, classes[txn[s].class].instructor,
                  classes[txn[s].class].slot, txn[s].class)
    BY <1>11 DEF RestoreCheck
  <2>3. PendingClearOf(s)'
    BY <2>1, <2>2 DEF Conflict, PendingClearOf, ClearOf, Booked, Live
  <2> QED BY <2>1, <2>3, PendingOthers
<1>12. ASSUME NEW s \in Sessions, Commit(s)
      PROVE  PendingClear'
  <2>1. PendingClearOf(s)'
    BY <1>12, PendingOfRelease DEF Commit
  <2>2. ASSUME NEW t \in Sessions \ {s}
        PROVE  PendingClearOf(t)'
    <3>1. txn'[t] = txn[t]
      BY <1>12, ReleaseFields DEF Commit
    <3>2. HoldsLock(t) => txn[t].instructor # txn[s].instructor
      BY <1>12 DEF Commit, HoldsLock, LocksHeld
    <3>3. HoldsLock(t) => Kept(txn[t].instructor)
      BY <1>12, <3>2, CommitKept
    <3>4. HoldsRow(t) => classes'[txn[t].class] = classes[txn[t].class]
      BY <1>12, CommitWrites DEF Commit, Over
    <3> QED BY <3>1, <3>3, <3>4, PendingOther
  <2> QED BY <2>1, <2>2 DEF PendingClear
<1>13. ASSUME NEW s \in Sessions, RaiseOverlap(s)
      PROVE  PendingClear'
  BY <1>13, ReleaseFields, PendingOfRelease, PendingOthers DEF RaiseOverlap
<1>14. ASSUME NEW s \in Sessions, RaiseCancelled(s)
      PROVE  PendingClear'
  BY <1>14, ReleaseFields, PendingOfRelease, PendingOthers DEF RaiseCancelled
<1>15. ASSUME NEW s \in Sessions, Lost(s)
      PROVE  PendingClear'
  BY <1>15, ReleaseFields, PendingOfRelease, PendingOthers DEF Lost
<1>16. ASSUME NEW c \in Classes, NEW i \in Instructors, NEW slot \in Slots,
             NEW status \in Statuses, ImportClass(c, i, slot, status)
      PROVE  PendingClear'
  <2>1. \A j : Kept(j)
    BY <1>16, ImportKept DEF Kept
  <2>2. /\ \A t \in Sessions : txn'[t] = txn[t]
        /\ c \notin DOMAIN classes
    BY <1>16 DEF ImportClass, Fresh
  <2>3. \A d \in DOMAIN classes : classes'[d] = classes[d]
    BY <1>16, <2>2 DEF ImportClass, Over, Only
  <2>4. \A t \in Sessions : HoldsRow(t) =>
          classes'[txn[t].class] = classes[txn[t].class]
    BY <2>3 DEF HoldsRow, ClassExists
  <2>5. \A t \in Sessions : PendingClearOf(t)'
    BY <2>1, <2>2, <2>4, PendingOther
  <2> QED BY <2>5 DEF PendingClear
<1> QED BY <1>1, <1>2, <1>3, <1>4, <1>5, <1>6, <1>7, <1>8, <1>9,
           <1>10, <1>11, <1>12, <1>13, <1>14, <1>15, <1>16
       DEF Next, Request, Statement

-----------------------------------------------------------------------------
\* Everything but a commit and an import leaves the rows alone.
LEMMA RowsUntouched ==
  ASSUME [Next]_vars
  PROVE  \/ UNCHANGED <<classes, astray>>
         \/ \E s \in Sessions : Commit(s)
         \/ \E c \in Classes, i \in Instructors, slot \in Slots,
               status \in Statuses : ImportClass(c, i, slot, status)
<1>1. CASE UNCHANGED vars
  BY <1>1 DEF vars
<1>2. ASSUME NEW s \in Sessions, Request(s)
      PROVE  UNCHANGED <<classes, astray>>
  BY <1>2 DEF Request, RequestBook, RequestRebook, RequestStatus
<1>3. ASSUME NEW s \in Sessions, Statement(s), ~Commit(s)
      PROVE  UNCHANGED <<classes, astray>>
  <2>1. \A c : BookNext(s, c) => UNCHANGED <<classes, astray>>
    BY DEF BookNext
  <2>2. RebookRow(s) \/ StatusRow(s) => UNCHANGED <<classes, astray>>
    BY DEF RebookRow, StatusRow
  <2>3. ReadInstructor(s) \/ TakeLock(s) \/ RebookCheck(s) \/ RestoreCheck(s)
          => UNCHANGED <<classes, astray>>
    BY DEF ReadInstructor, TakeLock, RebookCheck, RestoreCheck
  <2>4. RaiseOverlap(s) \/ RaiseCancelled(s) => UNCHANGED <<classes, astray>>
    BY DEF RaiseOverlap, RaiseCancelled
  <2> QED BY <1>3, <2>1, <2>2, <2>3, <2>4 DEF Statement
<1>4. ASSUME NEW s \in Sessions, Lost(s)
      PROVE  UNCHANGED <<classes, astray>>
  BY <1>4 DEF Lost
<1> QED BY <1>1, <1>2, <1>3, <1>4 DEF Next

\* Two lessons that are solid after a step do not overlap for one instructor.
LEMMA OverlapStep ==
  ASSUME TypeOK, RowsHeld, ClaimsFresh, ClassExists, WritesShape, PendingClear,
         OverlapOnlyAstray, [Next]_vars
  PROVE  OverlapOnlyAstray'
<1> SUFFICES ASSUME NEW a \in DOMAIN classes', NEW b \in DOMAIN classes',
                    DoubleBooked(a, b)', a \notin astray', b \notin astray'
             PROVE  FALSE
  BY DEF OverlapOnlyAstray
<1>1. /\ Solid(a)' /\ Solid(b)' /\ a # b
      /\ classes'[a].instructor = classes'[b].instructor
      /\ Overlap(classes'[a].slot, classes'[b].slot)
  BY DEF Solid, DoubleBooked, Booked, Live
<1>2. Solid(a) /\ Solid(b) /\ classes[a].instructor = classes[b].instructor
        => ~Overlap(classes[a].slot, classes[b].slot)
  BY <1>1 DEF OverlapOnlyAstray, DoubleBooked, Solid, Booked
<1>3. CASE UNCHANGED <<classes, astray>>
  BY <1>1, <1>2, <1>3 DEF Solid, Booked, Live
<1>4. ASSUME NEW c \in Classes, NEW i \in Instructors, NEW slot \in Slots,
             NEW status \in Statuses, ImportClass(c, i, slot, status)
      PROVE  FALSE
  BY <1>1, <1>2, <1>4, ImportKept
<1>5. ASSUME NEW s \in Sessions, Commit(s)
      PROVE  FALSE
  <2> DEFINE Old(o) == /\ Solid(o)
                       /\ classes[o].instructor = classes'[o].instructor
                       /\ classes[o].slot = classes'[o].slot
             New(o) == /\ o \in DOMAIN txn[s].writes
                       /\ classes'[o] = txn[s].writes[o]
                       /\ classes'[o].instructor = txn[s].instructor
                       /\ ClearOf(txn[s].instructor, classes'[o].slot, o)
  <2>1. (Old(a) \/ New(a)) /\ (Old(b) \/ New(b))
    BY <1>1, <1>5, CommitRow
  <2>2. ~(Old(a) /\ Old(b))
    BY <1>1, <1>2
  <2>3. ~(Old(a) /\ New(b))
    BY <1>1 DEF ClearOf, Solid
  <2>4. ~(New(a) /\ Old(b))
    BY <1>1, OverlapSymmetric DEF ClearOf, Solid
  <2>5. ~(New(a) /\ New(b))
    <3> SUFFICES ASSUME New(a), New(b) PROVE FALSE
      OBVIOUS
    <3>1. txn[s].pc = "commit"
      BY <1>5 DEF Commit
    <3>2. txn[s].op = "book"
      BY <1>1, <3>1, CommitWrites
    <3> QED BY <1>1, <3>2 DEF PendingClear, PendingClearOf
  <2> QED BY <2>1, <2>2, <2>3, <2>4, <2>5
<1> QED BY <1>3, <1>4, <1>5, RowsUntouched

\* Only a commit changes a row, and a transaction that moves a class holds its row
\* lock and has seen it live.
LEMMA StaysPutStep ==
  ASSUME TypeOK, RowsHeld, ClaimsFresh, ClassExists, WritesShape, [Next]_vars,
         NEW c \in DOMAIN classes, ~Live(classes[c])
  PROVE  /\ classes'[c].instructor = classes[c].instructor
         /\ classes'[c].slot = classes[c].slot
<1>1. CASE UNCHANGED <<classes, astray>>
  BY <1>1
<1>2. ASSUME NEW d \in Classes, NEW i \in Instructors, NEW slot \in Slots,
             NEW status \in Statuses, ImportClass(d, i, slot, status)
      PROVE  classes'[c] = classes[c]
  BY <1>2 DEF ImportClass, Fresh, Over, Only
<1>3. ASSUME NEW s \in Sessions, Commit(s)
      PROVE  /\ classes'[c].instructor = classes[c].instructor
             /\ classes'[c].slot = classes[c].slot
  <2>1. txn[s].pc = "commit"
    BY <1>3 DEF Commit
  <2>2. CASE c \notin DOMAIN txn[s].writes
    BY <1>3, <2>2 DEF Commit, Over
  <2>3. CASE c \in DOMAIN txn[s].writes
    <3> DEFINE row == [classes[c] EXCEPT !.status = txn[s].status]
    <3>1. txn[s].op \in {"rebook", "status"} /\ c = txn[s].class /\ HoldsRow(s)
      BY <2>1, <2>3, CommitWrites
    <3>2. txn[s].op = "status"
      BY <2>1, <3>1 DEF WritesShape, WritesOf
    <3>3. txn[s].writes = Only(c, row)
      BY <3>1, <3>2 DEF WritesShape, WritesOf
    <3>4. /\ row.instructor = classes[c].instructor
          /\ row.slot = classes[c].slot
      BY RowFields DEF Row
    <3> HIDE DEF row
    <3>5. classes'[c] = row
      BY <1>3, <2>3, <3>3 DEF Commit, Over, Only
    <3> QED BY <3>4, <3>5
  <2> QED BY <2>2, <2>3
<1> QED BY <1>1, <1>2, <1>3, RowsUntouched

-----------------------------------------------------------------------------
(* The theorems.                                                            *)

LEMMA InitInv == Init => ScheduleInv
<1> SUFFICES ASSUME Init PROVE ScheduleInv
  OBVIOUS
<1>1. \A s \in Sessions : txn[s].op = "none" /\ txn[s].pc = "idle"
  BY DEF Init, Idle
<1>2. TypeOK
  BY NoRowsType DEF Init, TypeOK, Txn
<1>3. LocksHeld /\ RowsHeld
  BY <1>1 DEF Init, LocksHeld, RowsHeld, HoldsLock, HoldsRow
<1>4. ClassExists /\ ClaimsFresh
  BY <1>1 DEF Init, ClassExists, ClaimsFresh, Claims
<1>5. WritesShape /\ PendingClear
  BY <1>1 DEF WritesShape, WritesOf, PendingClear, PendingClearOf
<1>6. OverlapOnlyAstray
  BY DEF Init, NoRows, OverlapOnlyAstray
<1> QED BY <1>2, <1>3, <1>4, <1>5, <1>6 DEF ScheduleInv

LEMMA StepInv == ScheduleInv /\ [Next]_vars => ScheduleInv'
BY TypeStep, LocksHeldStep, RowsHeldStep, ClassExistsStep, ClaimsFreshStep,
   WritesShapeStep, PendingClearStep, OverlapStep
   DEF ScheduleInv

\* The inductive invariant holds in every state of every behaviour.
THEOREM Invariant == Spec => []ScheduleInv
BY InitInv, StepInv, PTL DEF Spec

\* Every row, lock and transaction stays in its type, for any number of
\* sessions, classes and instructors.
THEOREM TypeCorrect == Spec => []TypeOK
<1>1. ScheduleInv => TypeOK
  BY DEF ScheduleInv
<1> QED BY <1>1, Invariant, PTL

\* What a transaction has checked stays clear until it commits.
THEOREM ChecksHold == Spec => []PendingClear
<1>1. ScheduleInv => PendingClear
  BY DEF ScheduleInv
<1> QED BY <1>1, Invariant, PTL

\* Booking, moving and restoring classes under the advisory locks never books an
\* instructor twice, except for a class that was given back under the lock of an
\* instructor it had left.
THEOREM NoOverlap == Spec => []OverlapOnlyAstray
<1>1. ScheduleInv => OverlapOnlyAstray
  BY DEF ScheduleInv
<1> QED BY <1>1, Invariant, PTL

\* No transaction that holds a row lock waits for anything, and one that holds
\* an advisory lock waits at most for a row.
LEMMA WaitsInOrder ==
  ASSUME ScheduleInv, NEW s \in Sessions, NEW t \in Sessions
  PROVE  /\ AwaitsRow(s, t) => \A u \in Sessions : ~Awaits(t, u)
         /\ AwaitsLock(s, t) => txn[t].pc # "lock"
<1>1. ASSUME AwaitsRow(s, t) PROVE \A u \in Sessions : ~Awaits(t, u)
  <2>1. txn[s].class \in Classes
    BY <1>1 DEF ScheduleInv, TypeOK, AwaitsRow, Txn, Idle, BookTxn,
                RebookTxn, StatusRequest, StatusTxn
  <2>2. HoldsRow(t)
    BY <1>1, <2>1 DEF ScheduleInv, RowsHeld, AwaitsRow
  <2> QED BY <2>2 DEF HoldsRow, Awaits, AwaitsLock, AwaitsRow
<1>2. ASSUME AwaitsLock(s, t) PROVE txn[t].pc # "lock"
  <2>1. txn[s].instructor \in Instructors
    BY <1>2 DEF ScheduleInv, TypeOK, AwaitsLock, Txn, Idle, BookTxn,
                RebookTxn, StatusRequest, StatusTxn
  <2>2. HoldsLock(t)
    BY <1>2, <2>1 DEF ScheduleInv, LocksHeld, AwaitsLock
  <2> QED BY <2>2 DEF HoldsLock
<1> QED BY <1>1, <1>2

\* No set of sessions waits in a circle, however many there are: in any set that
\* is not empty some session waits for no other of the set.
THEOREM DeadlockFree == Spec => []NoDeadlock
<1>1. ASSUME ScheduleInv PROVE NoDeadlock
  <2> SUFFICES ASSUME NEW waiting \in (SUBSET Sessions) \ {{}}
               PROVE  \E s \in waiting : \A t \in waiting : ~Awaits(s, t)
    BY DEF NoDeadlock
  <2>1. CASE \E s \in waiting : txn[s].pc = "row"
    <3>1. PICK s \in waiting : txn[s].pc = "row"
      BY <2>1
    <3>2. CASE \E t \in waiting : AwaitsRow(s, t)
      BY <1>1, <3>2, WaitsInOrder
    <3>3. CASE ~\E t \in waiting : AwaitsRow(s, t)
      BY <3>1, <3>3 DEF Awaits, AwaitsLock
    <3> QED BY <3>2, <3>3
  <2>2. CASE \A s \in waiting : txn[s].pc # "row"
    <3>1. PICK s \in waiting : TRUE
      OBVIOUS
    <3>2. CASE \E t \in waiting : AwaitsLock(s, t)
      <4>1. PICK t \in waiting : AwaitsLock(s, t)
        BY <3>2
      <4>2. txn[t].pc # "lock"
        BY <1>1, <4>1, WaitsInOrder
      <4> QED BY <2>2, <4>2 DEF Awaits, AwaitsLock, AwaitsRow
    <3>3. CASE ~\E t \in waiting : AwaitsLock(s, t)
      BY <2>2, <3>3 DEF Awaits, AwaitsRow
    <3> QED BY <3>2, <3>3
  <2> QED BY <2>1, <2>2
<1> QED BY <1>1, Invariant, PTL

\* A cancelled class is never moved, whatever its mover read before.
THEOREM CancelledKeepSlot == Spec => CancelledStaysPut
<1>1. ScheduleInv /\ [Next]_vars =>
        [\A c \in DOMAIN classes : ~Live(classes[c]) =>
           /\ classes'[c].instructor = classes[c].instructor
           /\ classes'[c].slot = classes[c].slot]_vars
  BY StaysPutStep DEF ScheduleInv
<1> QED BY <1>1, Invariant, PTL DEF Spec, CancelledStaysPut
=============================================================================
