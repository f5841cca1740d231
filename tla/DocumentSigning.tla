--------------------------- MODULE DocumentSigning ---------------------------
(***************************************************************************)
(* Signing one document template: src/documents (signing, the template's   *)
(* PDF and fields, archive, delete) with its rows, the private bucket and  *)
(* the queue that runs PDF jobs one at a time in the API process.          *)
(*                                                                         *)
(* A PDF is known by its layout of pages; fields are placed for a layout.  *)
(* The hash of a file stands for its content.  The template has one object *)
(* for its PDF, which a new PDF overwrites, and every assignment has one   *)
(* for its signed copy, which a new attempt overwrites.                    *)
(***************************************************************************)
EXTENDS Integers, FiniteSets

CONSTANTS
  Assignments,  \* ids of assignments
  Owner,        \* [Assignments -> instructors]
  Pdfs,         \* PDFs an admin may upload
  Layout,       \* [Pdfs -> layouts]
  None,         \* no file, no fields, no row
  Sessions,     \* requests the API serves at a time
  MaxOps,       \* bound: requests
  MaxFaults     \* bound: requests that die half way

ASSUME BoundsAssumption == {MaxOps, MaxFaults} \subseteq Nat
ASSUME LayoutAssumption == DOMAIN Layout = Pdfs
ASSUME NoneAssumption ==
  None \notin {"assigned", "viewed", "completed", "archived"}
              \cup Pdfs \cup {Layout[p] : p \in Pdfs}

VARIABLES
  kind,       \* document_templates.kind
  template,   \* set with the row of the template, empty once it is deleted
  rows,       \* rows of document_assignments, by id
  source,     \* bucket: the PDF of the template
  upload,     \* bucket: the PDF waiting for confirm
  copies,     \* bucket: signed copies, by assignment
  op,         \* what each session is doing
  locked,     \* session that holds the lock of the template row
  raced,      \* an edit met a signature or another edit, or died half way
  ops, faults \* bounds

vars == <<kind, template, rows, source, upload, copies, op, locked, raced,
          ops, faults>>
bucket == <<source, upload, copies>>
bounds == <<ops, faults>>

-----------------------------------------------------------------------------
Layouts == {Layout[p] : p \in Pdfs}

\* What is stamped: the PDF, the fields, and whose ink (of which request).
Copy == [pdf : Pdfs, fields : Layouts, by : 1..MaxOps]

\* The row of an assignment.  `proof` is the evidence of a completion: the hash
\* of the PDF and of the copy.
Missing == [status |-> None]
Fresh == [status |-> "assigned", proof |-> None]

Exists(a) == rows[a].status # None
Open(a) == rows[a].status \in {"assigned", "viewed"}
Proven(a) == Exists(a) /\ rows[a].proof # None

\* hasCompleted: completed, or completed before it was archived.
HasCompleted == \E a \in Assignments : Proven(a)

At(s, pc) == op[s].pc = pc
Idle == [pc |-> "idle"]
Goes(s, request) == op' = [op EXCEPT ![s] = request]
Ends(s) == Goes(s, Idle)

Edits == {"check", "normalise", "put", "update", "discard", "fields"}
Signs == {"queue", "stamp", "mark", "acknowledge"}

\* PdfWorkQueue: a job is running.
Stamping(s) == op[s].pc \in {"stamp", "mark"}
Working == \E s \in Sessions : Stamping(s)

\* A request arrives; it races if it meets an edit, or edits what is met.
Starts(s, edits) ==
  /\ At(s, "idle")
  /\ ops < MaxOps
  /\ ops' = ops + 1
  /\ raced' = (raced \/ \E r \in Sessions :
                 \/ op[r].pc \in Edits
                 \/ edits /\ op[r].pc \in Signs)
  /\ UNCHANGED faults

-----------------------------------------------------------------------------
(* Editing the template.                                                    *)

\* The browser puts a file where sourceUploadUrl told it to.
Upload ==
  /\ ops < MaxOps
  /\ ops' = ops + 1
  /\ \E p \in Pdfs : upload' = p
  /\ UNCHANGED <<kind, template, rows, source, copies, op, locked, raced,
                 faults>>

\* loadEditable, its first half: the row.
RequestEdit(s) ==
  /\ Starts(s, TRUE)
  /\ \E t \in template, to \in {"normalise", "fields"} :
       Goes(s, [pc |-> "check", to |-> to, before |-> t])
  /\ UNCHANGED <<kind, template, rows, bucket, locked>>

\* loadEditable, its second half: 409 once an assignment is completed.
Check(s) ==
  /\ At(s, "check")
  /\ IF HasCompleted THEN Ends(s)
     ELSE Goes(s, [pc |-> op[s].to, before |-> op[s].before])
  /\ UNCHANGED <<kind, template, rows, bucket, locked, raced, bounds>>

\* normaliseUpload, which has the queue to itself.
Normalise(s) ==
  /\ At(s, "normalise") /\ ~Working
  /\ IF upload = None THEN Ends(s)
     ELSE Goes(s, [pc |-> "put", before |-> op[s].before, pdf |-> upload])
  /\ UNCHANGED <<kind, template, rows, bucket, locked, raced, bounds>>

\* confirmSource: the object is overwritten before the row.
PutSource(s) ==
  /\ At(s, "put")
  /\ source' = op[s].pdf
  /\ Goes(s, [op[s] EXCEPT !.pc = "update"])
  /\ UNCHANGED <<kind, template, rows, upload, copies, locked, raced, bounds>>

\* Mutation: the placed fields are always kept.
UpdateKeepingFields(s) ==
  LET o == op[s] IN
  /\ At(s, "update") /\ locked = None
  /\ template' = {[pdf |-> o.pdf, pages |-> Layout[o.pdf],
                   fields |-> t.fields] : t \in template}
  /\ Goes(s, IF template = {} THEN Idle ELSE [pc |-> "discard"])
  /\ UNCHANGED <<kind, rows, bucket, locked, raced, bounds>>

\* confirmSource: the placed fields are kept if the pages have not changed since
\* the row was loaded.
UpdateSource(s) ==
  LET o == op[s]
      clears == o.before.fields # None /\ o.before.pages # Layout[o.pdf] IN
  /\ At(s, "update") /\ locked = None
  /\ template' = {[pdf |-> o.pdf, pages |-> Layout[o.pdf],
                   fields |-> IF clears THEN None ELSE t.fields]
                  : t \in template}
  /\ Goes(s, IF template = {} THEN Idle ELSE [pc |-> "discard"])
  /\ UNCHANGED <<kind, rows, bucket, locked, raced, bounds>>

DiscardUpload(s) ==
  /\ At(s, "discard")
  /\ upload' = None
  /\ Ends(s)
  /\ UNCHANGED <<kind, template, rows, source, copies, locked, raced, bounds>>

\* putFields: the fields, if any, fit the pages that were loaded.
PutFields(s) ==
  LET o == op[s] IN
  /\ At(s, "fields") /\ locked = None
  /\ \E fields \in {None, o.before.pages} :
       template' = {[t EXCEPT !.fields = fields] : t \in template}
  /\ Ends(s)
  /\ UNCHANGED <<kind, rows, bucket, locked, raced, bounds>>

-----------------------------------------------------------------------------
(* Signing.                                                                 *)

\* open: the assignment is loaded.
RequestOpen(s) ==
  /\ Starts(s, FALSE)
  /\ \E a \in Assignments :
       /\ rows[a].status = "assigned"
       /\ Goes(s, [pc |-> "view", a |-> a])
  /\ UNCHANGED <<kind, template, rows, bucket, locked>>

\* Mutation: whatever became of it in the meantime is viewed.
ViewAlways(s) ==
  LET a == op[s].a IN
  /\ At(s, "view")
  /\ rows' = IF Exists(a) THEN [rows EXCEPT ![a].status = "viewed"] ELSE rows
  /\ Ends(s)
  /\ UNCHANGED <<kind, template, bucket, locked, raced, bounds>>

\* open: it is viewed if it is still assigned.
View(s) ==
  LET a == op[s].a IN
  /\ At(s, "view")
  /\ rows' = IF rows[a].status = "assigned"
             THEN [rows EXCEPT ![a].status = "viewed"] ELSE rows
  /\ Ends(s)
  /\ UNCHANGED <<kind, template, bucket, locked, raced, bounds>>

\* complete: the assignment must be open, and a document to sign have fields.
RequestComplete(s) ==
  /\ Starts(s, FALSE)
  /\ \E a \in Assignments, t \in template :
       /\ Open(a)
       /\ kind = "sign" => t.fields # None
       /\ Goes(s, [pc |-> IF kind = "sign" THEN "queue" ELSE "acknowledge",
                   a |-> a, seen |-> t, by |-> ops + 1])
  /\ UNCHANGED <<kind, template, rows, bucket, locked>>

\* Mutation: the assignment is not loaded again.
ReadUnchecked(s) ==
  LET o == op[s] IN
  /\ At(s, "queue") /\ ~Working
  /\ Goes(s, IF source # None
             THEN [pc |-> "stamp", a |-> o.a,
                   copy |-> [pdf |-> source, fields |-> o.seen.fields,
                             by |-> o.by]]
             ELSE Idle)
  /\ UNCHANGED <<kind, template, rows, bucket, locked, raced, bounds>>

\* signAndStore, in the queue: the assignment must still be open, and whatever
\* PDF is stored now is stamped with the fields that were loaded before.
ReadSource(s) ==
  LET o == op[s] IN
  /\ At(s, "queue") /\ ~Working
  /\ Goes(s, IF Open(o.a) /\ source # None
             THEN [pc |-> "stamp", a |-> o.a,
                   copy |-> [pdf |-> source, fields |-> o.seen.fields,
                             by |-> o.by]]
             ELSE Idle)
  /\ UNCHANGED <<kind, template, rows, bucket, locked, raced, bounds>>

\* signAndStore: the copy is stored before the row tells of it.
PutCopy(s) ==
  LET o == op[s] IN
  /\ At(s, "stamp")
  /\ copies' = [copies EXCEPT ![o.a] = o.copy]
  /\ Goes(s, [pc |-> "mark", a |-> o.a, copy |-> o.copy])
  /\ UNCHANGED <<kind, template, rows, source, upload, locked, raced, bounds>>

\* The completion of a by markCompleted, which the row allows while it is open.
Completes(a, proof) ==
  rows' = IF Open(a)
          THEN [rows EXCEPT ![a] = [status |-> "completed", proof |-> proof]]
          ELSE rows

MarkSigned(s) ==
  LET o == op[s] IN
  /\ At(s, "mark")
  /\ Completes(o.a, [pdf |-> o.copy.pdf, copy |-> o.copy])
  /\ Ends(s)
  /\ UNCHANGED <<kind, template, bucket, locked, raced, bounds>>

\* complete of a document to read: the hash is that of the row that was loaded.
MarkRead(s) ==
  LET o == op[s] IN
  /\ At(s, "acknowledge")
  /\ Completes(o.a, [pdf |-> o.seen.pdf, copy |-> None])
  /\ Ends(s)
  /\ UNCHANGED <<kind, template, bucket, locked, raced, bounds>>

-----------------------------------------------------------------------------
(* Assigning, archiving and deleting.                                       *)

\* insertMany: an instructor holds one assignment that is not archived.  The
\* foreign key waits for the lock of the template row.
Assign ==
  /\ ops < MaxOps
  /\ ops' = ops + 1
  /\ template # {} /\ locked = None
  /\ \E a \in Assignments :
       /\ ~Exists(a)
       /\ \A b \in Assignments :
            Exists(b) /\ Owner[b] = Owner[a] => rows[b].status = "archived"
       /\ rows' = [rows EXCEPT ![a] = Fresh]
  /\ UNCHANGED <<kind, template, bucket, op, locked, raced, faults>>

\* archive writes the status over whatever it is by then.
Archive ==
  /\ ops < MaxOps
  /\ ops' = ops + 1
  /\ \E a \in Assignments :
       /\ Exists(a)
       /\ rows' = [rows EXCEPT ![a].status = "archived"]
  /\ UNCHANGED <<kind, template, bucket, op, locked, raced, faults>>

\* delete_document_template: the row is locked and nothing is completed yet.
RequestDelete(s) ==
  /\ Starts(s, FALSE)
  /\ template # {} /\ locked = None /\ ~HasCompleted
  /\ locked' = s
  /\ Goes(s, [pc |-> "delete"])
  /\ UNCHANGED <<kind, template, rows, bucket>>

\* Mutation: the assignments go whether they are completed or not.
DeleteAll(s) ==
  /\ At(s, "delete")
  /\ locked' = None
  /\ rows' = [a \in Assignments |-> Missing]
  /\ template' = {}
  /\ Goes(s, [pc |-> "clean"])
  /\ UNCHANGED <<kind, bucket, raced, bounds>>

\* delete_document_template: open and archived assignments are deleted, and if
\* one has been completed in the meantime the foreign key undoes it all.
Delete(s) ==
  /\ At(s, "delete")
  /\ locked' = None
  /\ \/ /\ ~HasCompleted
        /\ rows' = [a \in Assignments |-> Missing]
        /\ template' = {}
        /\ Goes(s, [pc |-> "clean"])
     \/ /\ HasCompleted
        /\ Ends(s)
        /\ UNCHANGED <<rows, template>>
  /\ UNCHANGED <<kind, bucket, raced, bounds>>

\* remove: the objects of the template are deleted.
Clean(s) ==
  /\ At(s, "clean")
  /\ source' = None /\ upload' = None
  /\ Ends(s)
  /\ UNCHANGED <<kind, template, rows, copies, locked, raced, bounds>>

-----------------------------------------------------------------------------
\* A call throws: the request ends where it is, and so does its transaction.
Dies(s) ==
  /\ ~At(s, "idle")
  /\ faults < MaxFaults
  /\ faults' = faults + 1
  /\ raced' = (raced \/ At(s, "update"))
  /\ locked' = IF locked = s THEN None ELSE locked
  /\ Ends(s)
  /\ UNCHANGED <<kind, template, rows, bucket, ops>>

\* The template has been published and assigned to some.
Init ==
  /\ kind \in {"sign", "read"}
  /\ source \in Pdfs
  /\ template = {[pdf |-> source, pages |-> Layout[source],
                  fields |-> IF kind = "sign" THEN Layout[source] ELSE None]}
  /\ upload = None
  /\ rows \in [Assignments -> {Fresh, Missing}]
  /\ \A a, b \in Assignments :
       Open(a) /\ Open(b) /\ Owner[a] = Owner[b] => a = b
  /\ copies = [a \in Assignments |-> None]
  /\ op = [s \in Sessions |-> Idle]
  /\ locked = None
  /\ raced = FALSE
  /\ ops = 0 /\ faults = 0

Next ==
  \/ Upload \/ Assign \/ Archive
  \/ \E s \in Sessions :
       \/ RequestEdit(s) \/ Check(s) \/ Normalise(s) \/ PutSource(s)
       \/ UpdateSource(s) \/ DiscardUpload(s) \/ PutFields(s)
       \/ RequestOpen(s) \/ View(s)
       \/ RequestComplete(s) \/ ReadSource(s) \/ PutCopy(s)
       \/ MarkSigned(s) \/ MarkRead(s)
       \/ RequestDelete(s) \/ Delete(s) \/ Clean(s)
       \/ Dies(s)

Spec == Init /\ [][Next]_vars

-----------------------------------------------------------------------------
(* Properties.                                                              *)

Template == [pdf : Pdfs, pages : Layouts, fields : Layouts \cup {None}]
Proof == [pdf : Pdfs, copy : Copy \cup {None}]
Row == {Missing}
       \cup [status : {"assigned", "viewed"}, proof : {None}]
       \cup [status : {"completed"}, proof : Proof]
       \cup [status : {"archived"}, proof : Proof \cup {None}]

Request ==
  [pc : {"idle", "discard", "delete", "clean"}]
  \cup [pc : {"check"}, to : {"normalise", "fields"}, before : Template]
  \cup [pc : {"normalise", "fields"}, before : Template]
  \cup [pc : {"put", "update"}, before : Template, pdf : Pdfs]
  \cup [pc : {"view"}, a : Assignments]
  \cup [pc : {"queue", "acknowledge"}, a : Assignments, seen : Template,
        by : 1..MaxOps]
  \cup [pc : {"stamp", "mark"}, a : Assignments, copy : Copy]

\* Every variable has its type, in which an open assignment has no evidence and
\* a completed one has; there is one template, and nothing is left of its
\* assignments once it is deleted.
TypeOK ==
  /\ kind \in {"sign", "read"}
  /\ template \subseteq Template
  /\ \A t, u \in template : t = u
  /\ rows \in [Assignments -> Row]
  /\ \A a \in Assignments : Exists(a) => template # {}
  /\ {source, upload} \subseteq Pdfs \cup {None}
  /\ copies \in [Assignments -> Copy \cup {None}]
  /\ op \in [Sessions -> Request]
  /\ \A s \in Sessions : At(s, "queue") => op[s].seen.fields # None
  /\ locked \in Sessions \cup {None}
  /\ raced \in BOOLEAN
  /\ ops \in 0..MaxOps /\ faults \in 0..MaxFaults

\* Of two completions of one assignment one wins, and the copy that stays in the
\* bucket is its: the stored copy has the recorded hash, and it was stamped on
\* the PDF whose hash is recorded.
CopyIsAsRecorded ==
  \A a \in Assignments :
    Proven(a) /\ kind = "sign" =>
      /\ copies[a] = rows[a].proof.copy
      /\ copies[a].pdf = rows[a].proof.pdf

\* Evidence is for ever: no request, and no deletion of the template, removes or
\* changes what was recorded when an assignment was completed.
EvidenceStays ==
  [][\A a \in Assignments :
       Proven(a) => Proven(a)' /\ rows[a].proof = rows[a].proof']_vars

\* As long as no edit has met a signature or another edit, or died between the
\* object and the row: the stored PDF is the one of the row, the fields fit it,
\* and every signed copy has its fields where they were placed.
FieldsFitUnlessRaced ==
  ~raced =>
    /\ \A t \in template : t.fields \in {None, Layout[t.pdf]}
    /\ (\A s \in Sessions : ~At(s, "update")) =>
         \A t \in template : t.pdf = source \/ source = None
    /\ \A a \in Assignments :
         Proven(a) /\ kind = "sign" =>
           rows[a].proof.copy.fields = Layout[rows[a].proof.pdf]
=============================================================================
