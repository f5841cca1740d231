---- MODULE ClassImports ----
(* How an uploaded booking export becomes classes:                                   *)
(*   class-import/class-imports.service.ts, class-import-matching.ts, -csv.ts          *)
(*   class-import/class-imports.repository.ts, supabase/migrations/273_class_import.sql *)
(* An upload is matched into rows of a draft; the reviewer corrects rows and maps event *)
(* names, which matches every draft again; the commit inserts the rows that are ready.  *)
(* Corrections and rematches read all rows, match them and upsert whole rows, without a  *)
(* lock and without looking at the draft again; the commit is one transaction.           *)
EXTENDS Naturals, Sequences, FiniteSets

CONSTANTS
  Files,         \* Files[f]: the rows of an export: external id, names, validity, deletion
  Instructors,   \* ids
  LessonTypes,   \* ids
  NameMatch,     \* NameMatch[n]: the id a name matches, or not_found or ambiguous
  ImportCalls,   \* requests under way at once
  MaxImportCalls, \* bound: requests begun
  MaxImportFaults \* bound: calls that fail

VARIABLES
  draft,         \* draft[f]: none, draft, committed, discarded
  importRows,    \* importRows[f]: the rows, empty until they are saved
  eventMap,      \* eventMap[e]: a lesson type or none
  classes,       \* the classes that imports have created
  ended,         \* the lessons of the export are over
  request,       \* request[q]
  begun,
  chosen,        \* history: chosen[f][n]: what the reviewer chose last
  crossed,       \* history: imports of which a row was saved over a newer one, or late
  importFaults

importVars == <<draft, importRows, eventMap, classes, ended, request, begun, chosen, crossed, importFaults>>

None == "none"
Fields == {"instructor", "lesson_type"}
Blocking == {"instructor_not_found", "instructor_ambiguous", "lesson_type_unmapped",
             "invalid_row", "duplicate_row"}
Imports == DOMAIN Files

\* A file is a sequence of lines, and an external id is what a line is known by.
ASSUME ImportFiles ==
  \A f \in Imports : /\ Len(Files[f]) \in Nat
                      /\ \A n \in 1 .. Len(Files[f]) : Files[f][n].id # None

Events == UNION {{Files[f][n].event : n \in 1 .. Len(Files[f])} : f \in Imports}
NoRequest == [pc |-> "idle", kind |-> None, f |-> None, read |-> <<>>, save |-> <<>>, left |-> {}]
NoChoice == [instructor |-> None, lesson_type |-> None]

ImportsInit ==
  /\ draft = [f \in Imports |-> "none"] /\ importRows = [f \in Imports |-> <<>>]
  /\ eventMap \in [Events -> LessonTypes \cup {None}] /\ classes = {} /\ ended = FALSE
  /\ request = [q \in ImportCalls |-> NoRequest] /\ begun = 0 /\ crossed = {} /\ importFaults = 0
  /\ chosen = [f \in Imports |-> [n \in 1 .. Len(Files[f]) |-> NoChoice]]

ImportFault == importFaults < MaxImportFaults /\ importFaults' = importFaults + 1
To(q, r) == request' = [request EXCEPT ![q] = r]
Start(q) == request[q].pc = "idle" /\ begun < MaxImportCalls /\ begun' = begun + 1

------------------------------------------------------------------------------
(* What the queries answer *)

(* loadDraft, listRows *)
IsDraft(f) == draft[f] = "draft"
RowsAreSaved(f) == importRows[f] # <<>>

(* instructors and calendars; eventMap; importedExternalIds: read together for a match. *)
Instructor(name) == IF NameMatch[name] \in Instructors THEN NameMatch[name] ELSE None
LessonOf(e) == eventMap[e]
Imported(id) == \E c \in classes : c.id = id

(* assertExists, existingIds *)
Exists(field, value) == value \in IF field = "instructor" THEN Instructors ELSE LessonTypes

(* createImport, discardDraft, saveEventMap; a draft that goes takes its rows with it. *)
Created(f) == draft' = [draft EXCEPT ![f] = "draft"]
Deleted(f) == draft' = [draft EXCEPT ![f] = "none"]
Discarded(f) == IsDraft(f) /\ draft' = [draft EXCEPT ![f] = "discarded"]
Mapped(e, lesson) == eventMap' = [eventMap EXCEPT ![e] = lesson]

------------------------------------------------------------------------------
(* Matching *)

(* duplicateRowNos: an earlier row has the id. *)
Duplicate(f, n) == \E k \in 1 .. n - 1 : Files[f][k].id = Files[f][n].id

MatchInstructor(f, n, row) ==
  IF "instructor" \in row.manual THEN row.instructor
  ELSE Instructor(Files[f][n].name)
MatchLesson(f, n, row) ==
  IF "lesson_type" \in row.manual THEN row.lesson_type ELSE LessonOf(Files[f][n].event)

(* matchRow *)
Problems(f, n, row, instructor, lesson) ==
  {p \in Blocking \cup {"already_imported"} :
     \/ p = "invalid_row" /\ ~Files[f][n].valid
     \/ p = "duplicate_row" /\ Duplicate(f, n)
     \/ p = NameMatch[Files[f][n].name] /\ "instructor" \notin row.manual
     \/ p = "lesson_type_unmapped" /\ lesson = None
     \/ p = "already_imported" /\ row.class = None /\ Imported(Files[f][n].id)}
Status(f, n) ==
  IF ~Files[f][n].valid THEN None ELSE IF Files[f][n].deleted THEN "cancelled"
  ELSE IF ended THEN "completed" ELSE "scheduled"
Matched(f, n, row) ==
  LET instructor == MatchInstructor(f, n, row)
      lesson == MatchLesson(f, n, row)
  IN [row EXCEPT !.instructor = instructor, !.lesson_type = lesson, !.status = Status(f, n),
        !.problems = Problems(f, n, row, instructor, lesson)]
NewRow == [instructor |-> None, lesson_type |-> None, manual |-> {}, problems |-> {},
           status |-> None, class |-> None]

(* saveRows: an upsert of whole rows, whatever is there by now. *)
Saved(f, read, save) ==
  /\ importRows' = [importRows EXCEPT ![f] =
       [n \in 1 .. Len(Files[f]) |-> IF n \in DOMAIN save THEN save[n] ELSE @[n]]]
  /\ crossed' = IF \/ draft[f] # "draft"
                   \/ \E n \in DOMAIN save : importRows[f] # <<>> /\ importRows[f][n] # read[n]
                THEN crossed \cup {f} ELSE crossed

------------------------------------------------------------------------------
(* upload: match, create the draft, save the rows; the draft goes when they are not saved. *)

Upload(q, f) ==
  /\ Start(q) /\ draft[f] = "none"
  /\ Created(f)
  /\ To(q, [NoRequest EXCEPT !.pc = "rows", !.kind = "upload", !.f = f,
              !.save = [n \in 1 .. Len(Files[f]) |-> Matched(f, n, NewRow)]])
  /\ UNCHANGED <<importRows, eventMap, classes, ended, chosen, crossed, importFaults>>

SaveUpload(q) ==
  /\ request[q].pc = "rows" /\ request[q].kind = "upload"
  /\ LET f == request[q].f IN
     \/ Saved(f, importRows[f], request[q].save) /\ UNCHANGED <<draft, importFaults>>
     \/ /\ ImportFault /\ Deleted(f)
        /\ UNCHANGED <<importRows, crossed>>
  /\ To(q, NoRequest)
  /\ UNCHANGED <<eventMap, classes, ended, begun, chosen>>

(* updateRow: it loads the draft and its rows, then saves the one it matched. *)
ReadRow(q, f, n, field, value) ==
  /\ Start(q) /\ IsDraft(f) /\ RowsAreSaved(f)
  /\ Exists(field, value)
  /\ LET picked == [importRows[f][n] EXCEPT ![field] = value, !.manual = @ \cup {field}]
     IN To(q, [NoRequest EXCEPT !.pc = "rows", !.kind = "row", !.f = f, !.read = importRows[f],
                 !.save = [k \in {n} |-> Matched(f, n, picked)], !.left = {field}])
  /\ UNCHANGED <<draft, importRows, eventMap, classes, ended, chosen, crossed, importFaults>>

SaveRow(q) ==
  /\ request[q].pc = "rows" /\ request[q].kind = "row"
  /\ LET r == request[q] IN
     /\ Saved(r.f, r.read, r.save)
     /\ chosen' = [chosen EXCEPT ![r.f] = [n \in DOMAIN @ |->
                     IF n \in DOMAIN r.save
                     THEN [x \in Fields |-> IF x \in r.left THEN r.save[n][x] ELSE @[n][x]] ELSE @[n]]]
  /\ To(q, NoRequest)
  /\ UNCHANGED <<draft, eventMap, classes, ended, begun, importFaults>>

(* setEventMap, then rematch of every draft that was listed. *)
SetEventMap(q, e, lesson) ==
  /\ Start(q) /\ LessonOf(e) # lesson
  /\ Mapped(e, lesson)
  /\ To(q, [NoRequest EXCEPT !.pc = "drafts", !.kind = "map"])
  /\ UNCHANGED <<draft, importRows, classes, ended, chosen, crossed, importFaults>>

ListDrafts(q) ==
  /\ request[q].pc = "drafts"
  /\ To(q, [request[q] EXCEPT !.pc = "next", !.left = {f \in Imports : IsDraft(f)}])
  /\ UNCHANGED <<draft, importRows, eventMap, classes, ended, begun, chosen, crossed, importFaults>>

(* Mutation: a manual choice does not survive a rematch. *)
RematchedAfresh(f, n, row) == Matched(f, n, [row EXCEPT !.manual = {}])
Rematched(f, n, row) == Matched(f, n, row)
Rematch(q, f) ==
  /\ request[q].pc = "next" /\ f \in request[q].left
  /\ To(q, IF ~RowsAreSaved(f) THEN [request[q] EXCEPT !.left = @ \ {f}]
           ELSE [request[q] EXCEPT !.pc = "rows", !.f = f, !.left = @ \ {f}, !.read = importRows[f],
                   !.save = [n \in DOMAIN importRows[f] |-> Rematched(f, n, importRows[f][n])]])
  /\ UNCHANGED <<draft, importRows, eventMap, classes, ended, begun, chosen, crossed, importFaults>>

SaveRematch(q) ==
  /\ request[q].pc = "rows" /\ request[q].kind = "map"
  /\ LET r == request[q] IN
     \/ Saved(r.f, r.read, r.save) /\ To(q, [r EXCEPT !.pc = "next"]) /\ UNCHANGED importFaults
     \/ ImportFault /\ To(q, NoRequest) /\ UNCHANGED <<importRows, crossed>>
  /\ UNCHANGED <<draft, eventMap, classes, ended, begun, chosen>>

EndRematch(q) ==
  /\ request[q].pc = "next" /\ request[q].left = {}
  /\ To(q, NoRequest)
  /\ UNCHANGED <<draft, importRows, eventMap, classes, ended, begun, chosen, crossed, importFaults>>

------------------------------------------------------------------------------
(* commit_class_import, under the lock of the import *)

Ready(f) ==
  {n \in DOMAIN importRows[f] :
     /\ importRows[f][n].instructor # None /\ importRows[f][n].lesson_type # None
     /\ importRows[f][n].status # None /\ importRows[f][n].problems \cap Blocking = {}}
FirstReady(f) ==
  {n \in Ready(f) : \A k \in Ready(f) : Files[f][k].id = Files[f][n].id => n <= k}

(* on conflict do nothing; Mutation: what another import has created comes again. *)
NewAlways(f, n) == TRUE
New(f, n) == ~Imported(Files[f][n].id)
Class(f, n) ==
  LET row == importRows[f][n] IN
  [id |-> Files[f][n].id, f |-> f, n |-> n, instructor |-> row.instructor,
   lesson_type |-> row.lesson_type,
   status |-> IF row.status = "scheduled" /\ ended THEN "completed" ELSE row.status, late |-> ended]
Commit(f) ==
  /\ begun < MaxImportCalls /\ begun' = begun + 1
  /\ IsDraft(f)
  /\ draft' = [draft EXCEPT ![f] = "committed"]
  /\ classes' = classes \cup {Class(f, n) : n \in {k \in FirstReady(f) : New(f, k)}}
  /\ importRows' = [importRows EXCEPT ![f] = [n \in DOMAIN @ |->
                IF n \in FirstReady(f) THEN [@[n] EXCEPT !.class = Files[f][n].id] ELSE @[n]]]
  /\ UNCHANGED <<eventMap, ended, request, chosen, crossed, importFaults>>

(* discardDraft *)
Discard(f) ==
  /\ begun < MaxImportCalls /\ begun' = begun + 1
  /\ Discarded(f)
  /\ UNCHANGED <<importRows, eventMap, classes, ended, request, chosen, crossed, importFaults>>

LessonsEnd ==
  /\ ~ended /\ ended' = TRUE
  /\ UNCHANGED <<draft, importRows, eventMap, classes, request, begun, chosen, crossed, importFaults>>

ImportsNext ==
  \/ LessonsEnd
  \/ \E f \in Imports : Commit(f) \/ Discard(f)
  \/ \E q \in ImportCalls :
       \/ \E f \in Imports :
            \/ Upload(q, f) \/ Rematch(q, f)
            \/ \E n \in 1 .. Len(Files[f]), field \in Fields, v \in Instructors \cup LessonTypes :
                 ReadRow(q, f, n, field, v)
       \/ \E e \in Events, lesson \in LessonTypes \cup {None} : SetEventMap(q, e, lesson)
       \/ SaveUpload(q) \/ SaveRow(q) \/ ListDrafts(q) \/ SaveRematch(q) \/ EndRematch(q)

ImportsSpec == ImportsInit /\ [][ImportsNext]_importVars

------------------------------------------------------------------------------

(* An external id becomes one class, however many exports have it and however they are   *)
(* committed, and only from the row of a committed import; a lesson that is over is not   *)
(* imported as scheduled; and as long as no row was saved over a newer one or after the   *)
(* draft had ended, the classes are what the reviewer chose, and the rows of a committed   *)
(* import stay linked to them.                                                            *)
ImportedAsReviewed ==
  /\ \A c, d \in classes : c.id = d.id => c = d
  /\ \A c \in classes :
       /\ draft[c.f] = "committed" /\ Files[c.f][c.n].valid
       /\ ~(c.late /\ c.status = "scheduled")
       /\ c.f \notin crossed =>
            \A x \in Fields : chosen[c.f][c.n][x] \in {None, c[x]}
  /\ \A f \in Imports : draft[f] = "committed" /\ f \notin crossed =>
       \A n \in Ready(f) : importRows[f][n].class # None
====
