---------------------------- MODULE SigningProofs ----------------------------
(***************************************************************************)
(* What is proved of documents and of what is uploaded beside them: the    *)
(* signing (DocumentSigning), the versions of templates (DocumentVersions) *)
(* and the uploads of certifications (CertificationUploads), in this       *)
(* order.                                                                  *)
(*                                                                         *)
(* DocumentSigning, for any assignments, owners, PDFs, layouts, sessions   *)
(* and bounds: the types hold, the stored copy is the recorded one,        *)
(* evidence stays, and the fields fit unless something raced.  What makes  *)
(* the second inductive is `OneAtATime`: the PDF queue has one job, and    *)
(* what the job stamps is not completed.  The last rests on `AllFit`: an   *)
(* edit that has not raced is alone, and what it loaded is still so.       *)
(***************************************************************************)
EXTENDS DocumentSigning, DocumentVersions, CertificationUploads, TLAPS, FiniteSetTheorems

Steps(s) ==
  \/ RequestEdit(s) \/ Check(s) \/ Normalise(s) \/ PutSource(s)
  \/ UpdateSource(s) \/ DiscardUpload(s) \/ PutFields(s)
  \/ RequestOpen(s) \/ View(s)
  \/ RequestComplete(s) \/ ReadSource(s) \/ PutCopy(s)
  \/ MarkSigned(s) \/ MarkRead(s)
  \/ RequestDelete(s) \/ Delete(s) \/ Clean(s)
  \/ Dies(s)

\* What the pc of a request says of its fields.
LEMMA Fields ==
  ASSUME TypeOK, NEW s \in Sessions
  PROVE  /\ At(s, "check") =>
              op[s].to \in {"normalise", "fields"} /\ op[s].before \in Template
         /\ op[s].pc \in {"normalise", "fields", "put", "update"} =>
              op[s].before \in Template
         /\ op[s].pc \in {"put", "update"} => op[s].pdf \in Pdfs
         /\ op[s].pc \in {"view", "queue", "acknowledge", "stamp", "mark"} =>
              op[s].a \in Assignments
         /\ op[s].pc \in {"queue", "acknowledge"} =>
              op[s].seen \in Template /\ op[s].by \in 1..MaxOps
         /\ op[s].pc \in {"stamp", "mark"} => op[s].copy \in Copy
  BY DEF TypeOK, Request, At

\* What the status of an assignment says of its evidence.
LEMMA RowFields ==
  ASSUME TypeOK, NEW a \in Assignments
  PROVE  /\ Open(a) => ~Proven(a) /\ Exists(a)
         /\ Exists(a) => rows[a].proof \in Proof \cup {None}
  BY NoneAssumption DEF TypeOK, Row, Missing, Open, Proven, Exists

\* The types hold in every state (the rows of document_templates and
\* document_assignments, the objects in the bucket, and the requests).
THEOREM TypeCorrect == Spec => []TypeOK
<1>l. Layouts = {Layout[p] : p \in Pdfs} /\ \A p \in Pdfs : Layout[p] \in Layouts
  BY DEF Layouts
<1>1. Init => TypeOK
  <2> SUFFICES ASSUME Init PROVE TypeOK
    OBVIOUS
  <2>1. template \subseteq Template /\ (\A t, u \in template : t = u) /\ template # {}
    BY <1>l DEF Init, Template
  <2>2. rows \in [Assignments -> Row]
    BY DEF Init, Row, Fresh
  <2>3. op \in [Sessions -> Request] /\ \A s \in Sessions : ~At(s, "queue")
    BY DEF Init, Request, Idle, At
  <2>4. /\ {source, upload} \subseteq Pdfs \cup {None}
        /\ copies \in [Assignments -> Copy \cup {None}]
        /\ ops \in 0..MaxOps /\ faults \in 0..MaxFaults
    BY BoundsAssumption DEF Init
  <2>5. kind \in {"sign", "read"} /\ locked \in Sessions \cup {None} /\ raced \in BOOLEAN
    BY DEF Init
  <2> QED BY <2>1, <2>2, <2>3, <2>4, <2>5 DEF TypeOK
<1>2. TypeOK /\ [Next]_vars => TypeOK'
  <2> SUFFICES ASSUME TypeOK, [Next]_vars PROVE TypeOK'
    OBVIOUS
  <2>0. CASE UNCHANGED vars
    BY <2>0 DEF vars, TypeOK, Exists, At
  <2>1. CASE Upload
    BY <2>1, BoundsAssumption DEF Upload, TypeOK, Exists, At
  <2>2. CASE Assign
    <3>1. rows' \in [Assignments -> Row]
      BY <2>2 DEF Assign, TypeOK, Row, Fresh
    <3> QED BY <2>2, <3>1, BoundsAssumption DEF Assign, TypeOK, Exists, At, bucket
  <2>3. CASE Archive
    <3>1. PICK a \in Assignments :
            Exists(a) /\ rows' = [rows EXCEPT ![a].status = "archived"]
      BY <2>3 DEF Archive
    <3>2. rows[a] \in Row /\ rows[a] # Missing
      BY <3>1 DEF TypeOK, Exists, Missing
    <3>3. [rows[a] EXCEPT !.status = "archived"]
            \in [status : {"archived"}, proof : Proof \cup {None}]
      BY <3>2 DEF Row
    <3>4. rows' \in [Assignments -> Row]
      BY <3>1, <3>3 DEF TypeOK, Row
    <3>5. \A b \in Assignments : Exists(b)' => Exists(b)
      BY <3>1 DEF Exists, TypeOK
    <3> QED BY <2>3, <3>4, <3>5, BoundsAssumption DEF Archive, TypeOK, At, bucket
  <2> SUFFICES ASSUME NEW s \in Sessions, Steps(s) PROVE TypeOK'
    BY <2>0, <2>1, <2>2, <2>3 DEF Next, Steps
  <2> DEFINE Goods(r) == r \in Request /\ (r.pc = "queue" => r.seen.fields # None)
  <2>o. ASSUME NEW r, Goes(s, r), Goods(r)
        PROVE  /\ op' \in [Sessions -> Request]
               /\ \A q \in Sessions : At(q, "queue")' => op'[q].seen.fields # None
    BY <2>o DEF Goes, TypeOK, At
  <2>i. Goods(Idle)
    BY DEF Idle, Request
  <2>c. ASSUME UNCHANGED <<kind, template, rows, source, upload, copies>>,
               locked' \in Sessions \cup {None}, raced' \in BOOLEAN,
               ops' \in 0..MaxOps, faults' \in 0..MaxFaults,
               NEW r, Goes(s, r), Goods(r)
        PROVE  TypeOK'
    BY <2>c, <2>o DEF TypeOK, Exists
  <2>s. ASSUME NEW e, Starts(s, e), e \in BOOLEAN
        PROVE  raced' \in BOOLEAN /\ ops' \in 0..MaxOps /\ faults' \in 0..MaxFaults
    BY <2>s, BoundsAssumption DEF Starts, TypeOK
  <2> HIDE DEF Goods
  <2>4. CASE RequestEdit(s)
    <3>1. PICK t \in template, to \in {"normalise", "fields"} :
            Goes(s, [pc |-> "check", to |-> to, before |-> t])
      BY <2>4 DEF RequestEdit
    <3>2. Goods([pc |-> "check", to |-> to, before |-> t])
      BY DEF Goods, Request, TypeOK
    <3> QED BY <2>4, <3>1, <3>2, <2>c, <2>s DEF RequestEdit, bucket, TypeOK
  <2>5. CASE Check(s)
    <3>1. Goods([pc |-> op[s].to, before |-> op[s].before])
      BY <2>5, Fields DEF Check, Goods, Request
    <3> QED BY <2>5, <3>1, <2>c, <2>i DEF Check, Ends, bucket, bounds, TypeOK
  <2>6. CASE Normalise(s)
    <3>1. upload # None =>
            Goods([pc |-> "put", before |-> op[s].before, pdf |-> upload])
      BY <2>6, Fields DEF Normalise, Goods, Request, TypeOK, At
    <3> QED BY <2>6, <3>1, <2>c, <2>i DEF Normalise, Ends, bucket, bounds, TypeOK
  <2>7. CASE PutSource(s)
    <3>1. op[s] \in [pc : {"put", "update"}, before : Template, pdf : Pdfs]
      BY <2>7 DEF PutSource, TypeOK, Request, At
    <3>2. Goods([op[s] EXCEPT !.pc = "update"])
      BY <3>1 DEF Goods, Request
    <3>3. op[s].pdf \in Pdfs
      BY <3>1
    <3> QED BY <2>7, <3>2, <3>3, <2>o DEF PutSource, bounds, TypeOK, Exists
  <2>8. CASE UpdateSource(s)
    <3>1. op[s].pdf \in Pdfs /\ op[s].before \in Template
      BY <2>8, Fields DEF UpdateSource, At
    <3> DEFINE clears == op[s].before.fields # None
                         /\ op[s].before.pages # Layout[op[s].pdf]
               new(t) == [pdf |-> op[s].pdf, pages |-> Layout[op[s].pdf],
                          fields |-> IF clears THEN None ELSE t.fields]
    <3>4. \A t \in Template : new(t) \in Template
      BY <3>1, <1>l DEF Template
    <3>5. template' = {new(t) : t \in template}
      BY <2>8 DEF UpdateSource
    <3> HIDE DEF new
    <3>2. /\ template' \subseteq Template /\ (\A t, u \in template' : t = u)
          /\ (template # {} => template' # {})
      BY <3>4, <3>5 DEF TypeOK
    <3>3. Goods([pc |-> "discard"])
      BY DEF Goods, Request
    <3> QED BY <2>8, <3>2, <3>3, <2>i, <2>o
            DEF UpdateSource, bucket, bounds, TypeOK, Exists
  <2>9. CASE DiscardUpload(s)
    BY <2>9, <2>i, <2>o DEF DiscardUpload, Ends, bounds, TypeOK, Exists
  <2>10. CASE PutFields(s)
    <3>1. op[s].before.pages \in Layouts
      BY <2>10, Fields DEF PutFields, At, Template
    <3>2. PICK f \in {None, op[s].before.pages} :
            template' = {[t EXCEPT !.fields = f] : t \in template}
      BY <2>10 DEF PutFields
    <3> DEFINE new(t) == [t EXCEPT !.fields = f]
    <3>3. \A t \in Template : new(t) \in Template
      BY <3>1 DEF Template
    <3>5. template' = {new(t) : t \in template}
      BY <3>2
    <3> HIDE DEF new
    <3>4. /\ template' \subseteq Template /\ (\A t, u \in template' : t = u)
          /\ (template # {} => template' # {})
      BY <3>3, <3>5 DEF TypeOK
    <3> QED BY <2>10, <3>4, <2>i, <2>o
            DEF PutFields, Ends, bucket, bounds, TypeOK, Exists
  <2>11. CASE RequestOpen(s)
    <3>1. PICK a \in Assignments : Goes(s, [pc |-> "view", a |-> a])
      BY <2>11 DEF RequestOpen
    <3>2. Goods([pc |-> "view", a |-> a])
      BY DEF Goods, Request
    <3> QED BY <2>11, <3>1, <3>2, <2>c, <2>s DEF RequestOpen, bucket, TypeOK
  <2>12. CASE View(s)
    <3>1. op[s].a \in Assignments
      BY <2>12, Fields DEF View, At
    <3>2. rows' \in [Assignments -> Row]
          /\ \A b \in Assignments : Exists(b)' => Exists(b)
      <4>1. CASE rows[op[s].a].status = "assigned"
        <5>1. rows[op[s].a] \in [status : {"assigned", "viewed"}, proof : {None}]
          BY <3>1, <4>1, NoneAssumption DEF TypeOK, Row, Missing
        <5>2. [rows[op[s].a] EXCEPT !.status = "viewed"]
                \in [status : {"assigned", "viewed"}, proof : {None}]
          BY <5>1
        <5>3. rows' = [rows EXCEPT ![op[s].a] =
                         [rows[op[s].a] EXCEPT !.status = "viewed"]]
          BY <2>12, <4>1, <3>1 DEF View, TypeOK
        <5>4. [rows[op[s].a] EXCEPT !.status = "viewed"] \in Row
          BY <5>2 DEF Row
        <5>5. Exists(op[s].a)
          BY <4>1, NoneAssumption DEF Exists
        <5> QED BY <5>3, <5>4, <5>5, <3>1 DEF TypeOK, Exists
      <4>2. CASE rows[op[s].a].status # "assigned"
        BY <2>12, <4>2 DEF View, TypeOK, Exists
      <4> QED BY <4>1, <4>2
    <3> QED BY <2>12, <3>2, <2>i, <2>o DEF View, Ends, bucket, bounds, TypeOK
  <2>13. CASE RequestComplete(s)
    <3>1. PICK a \in Assignments, t \in template :
            /\ kind = "sign" => t.fields # None
            /\ Goes(s, [pc |-> IF kind = "sign" THEN "queue" ELSE "acknowledge",
                        a |-> a, seen |-> t, by |-> ops + 1])
      BY <2>13 DEF RequestComplete
    <3>2. ops + 1 \in 1..MaxOps
      BY <2>13, BoundsAssumption DEF RequestComplete, Starts, TypeOK
    <3>3. Goods([pc |-> IF kind = "sign" THEN "queue" ELSE "acknowledge",
                 a |-> a, seen |-> t, by |-> ops + 1])
      BY <3>1, <3>2 DEF Goods, Request, TypeOK
    <3> QED BY <2>13, <3>1, <3>3, <2>c, <2>s DEF RequestComplete, bucket, TypeOK
  <2>14. CASE ReadSource(s)
    <3> DEFINE r == [pc |-> "stamp", a |-> op[s].a,
                     copy |-> [pdf |-> source, fields |-> op[s].seen.fields,
                               by |-> op[s].by]]
    <3>1. source # None => Goods(r)
      <4> SUFFICES ASSUME source # None PROVE Goods(r)
        OBVIOUS
      <4>1. /\ op[s].a \in Assignments /\ op[s].seen \in Template
            /\ op[s].by \in 1..MaxOps /\ op[s].seen.fields # None
        BY <2>14, Fields DEF ReadSource, At, TypeOK
      <4>2. source \in Pdfs /\ op[s].seen.fields \in Layouts
        BY <4>1 DEF TypeOK, Template
      <4>3. [pdf |-> source, fields |-> op[s].seen.fields, by |-> op[s].by] \in Copy
        BY <4>1, <4>2 DEF Copy
      <4> QED BY <4>1, <4>3 DEF Goods, Request
    <3>2. (Goes(s, r) /\ source # None) \/ Goes(s, Idle)
      BY <2>14 DEF ReadSource
    <3> HIDE DEF r
    <3> QED BY <2>14, <3>1, <3>2, <2>c, <2>i DEF ReadSource, bucket, bounds, TypeOK
  <2>15. CASE PutCopy(s)
    <3>1. op[s].a \in Assignments /\ op[s].copy \in Copy
      BY <2>15, Fields DEF PutCopy, At
    <3>2. Goods([pc |-> "mark", a |-> op[s].a, copy |-> op[s].copy])
      BY <3>1 DEF Goods, Request
    <3>3. copies' \in [Assignments -> Copy \cup {None}]
      BY <2>15, <3>1 DEF PutCopy, TypeOK
    <3> QED BY <2>15, <3>2, <3>3, <2>o DEF PutCopy, bounds, TypeOK, Exists
  <2>m. ASSUME NEW a \in Assignments, NEW p \in Proof, Completes(a, p)
        PROVE  rows' \in [Assignments -> Row]
               /\ \A b \in Assignments : Exists(b)' => Exists(b)
    <3>1. [status |-> "completed", proof |-> p] \in Row
      BY DEF Row
    <3> QED BY <2>m, <3>1, RowFields DEF Completes, TypeOK, Exists
  <2>16. CASE MarkSigned(s)
    <3>1. op[s].a \in Assignments /\ op[s].copy \in Copy
      BY <2>16, Fields DEF MarkSigned, At
    <3>2. [pdf |-> op[s].copy.pdf, copy |-> op[s].copy] \in Proof
      BY <3>1 DEF Proof, Copy
    <3>3. Completes(op[s].a, [pdf |-> op[s].copy.pdf, copy |-> op[s].copy])
      BY <2>16 DEF MarkSigned
    <3> QED BY <2>16, <3>1, <3>2, <3>3, <2>m, <2>i, <2>o
            DEF MarkSigned, Ends, bucket, bounds, TypeOK
  <2>17. CASE MarkRead(s)
    <3>1. op[s].a \in Assignments /\ op[s].seen \in Template
      BY <2>17, Fields DEF MarkRead, At
    <3>2. [pdf |-> op[s].seen.pdf, copy |-> None] \in Proof
      BY <3>1 DEF Proof, Template
    <3>3. Completes(op[s].a, [pdf |-> op[s].seen.pdf, copy |-> None])
      BY <2>17 DEF MarkRead
    <3> QED BY <2>17, <3>1, <3>2, <3>3, <2>m, <2>i, <2>o
            DEF MarkRead, Ends, bucket, bounds, TypeOK
  <2>18. CASE RequestDelete(s)
    <3>1. Goods([pc |-> "delete"])
      BY DEF Goods, Request
    <3> QED BY <2>18, <3>1, <2>c, <2>s DEF RequestDelete, bucket
  <2>19. CASE Delete(s)
    <3>1. Goods([pc |-> "clean"])
      BY DEF Goods, Request
    <3>2. CASE HasCompleted
      BY <2>19, <3>2, <2>c, <2>i DEF Delete, Ends, bucket, bounds, TypeOK
    <3>3. CASE ~HasCompleted
      <4>1. rows' = [a \in Assignments |-> Missing] /\ template' = {}
            /\ Goes(s, [pc |-> "clean"]) /\ locked' = None
            /\ UNCHANGED <<kind, bucket, raced, bounds>>
        BY <2>19, <3>3 DEF Delete
      <4>2. rows' \in [Assignments -> Row]
            /\ \A a \in Assignments : ~Exists(a)'
        BY <4>1 DEF Row, Exists, Missing
      <4> QED BY <4>1, <4>2, <3>1, <2>o DEF bucket, bounds, TypeOK
    <3> QED BY <3>2, <3>3
  <2>20. CASE Clean(s)
    BY <2>20, <2>i, <2>o DEF Clean, Ends, bounds, TypeOK, Exists
  <2>21. CASE Dies(s)
    <3>1. faults' \in 0..MaxFaults
      BY <2>21, BoundsAssumption DEF Dies, TypeOK
    <3> QED BY <2>21, <3>1, <2>c, <2>i DEF Dies, Ends, bucket, TypeOK
  <2> QED
    BY <2>4, <2>5, <2>6, <2>7, <2>8, <2>9, <2>10, <2>11, <2>12, <2>13, <2>14,
       <2>15, <2>16, <2>17, <2>18, <2>19, <2>20, <2>21 DEF Steps
<1>3. QED
  BY <1>1, <1>2, PTL DEF Spec

-----------------------------------------------------------------------------
\* A completion adds evidence to one assignment, as the row of the request says;
\* nothing else adds any, and nothing takes any away.
Signed(a) ==
  \E s \in Sessions :
    /\ MarkSigned(s) /\ op[s].a = a
    /\ rows'[a].proof = [pdf |-> op[s].copy.pdf, copy |-> op[s].copy]

LEMMA Evidence ==
  ASSUME TypeOK, [Next]_vars, NEW a \in Assignments
  PROVE  /\ Proven(a) => Proven(a)' /\ rows'[a].proof = rows[a].proof
         /\ Proven(a)' => \/ Proven(a)
                           \/ Signed(a)
                           \/ \E s \in Sessions : At(s, "acknowledge")
<1> DEFINE Goal == /\ Proven(a) => Proven(a)' /\ rows'[a].proof = rows[a].proof
                   /\ Proven(a)' => \/ Proven(a)
                                     \/ Signed(a)
                                     \/ \E s \in Sessions : At(s, "acknowledge")
<1>1. rows \in [Assignments -> Row]
  BY DEF TypeOK
<1>2. CASE UNCHANGED rows
  BY <1>2 DEF Proven, Exists
<1>3. CASE Assign
  <2>1. PICK b \in Assignments : ~Exists(b) /\ rows' = [rows EXCEPT ![b] = Fresh]
    BY <1>3 DEF Assign
  <2> QED BY <2>1, <1>1 DEF Proven, Exists, Fresh
<1>4. CASE Archive
  <2>1. PICK b \in Assignments :
          Exists(b) /\ rows' = [rows EXCEPT ![b].status = "archived"]
    BY <1>4 DEF Archive
  <2>2. rows[b] \in Row /\ rows[b] # Missing
    BY <2>1, <1>1 DEF Exists, Missing
  <2>3. /\ [rows[b] EXCEPT !.status = "archived"].proof = rows[b].proof
        /\ [rows[b] EXCEPT !.status = "archived"].status = "archived"
    BY <2>2 DEF Row
  <2> QED BY <2>1, <2>3, <1>1, NoneAssumption DEF Proven, Exists
<1>5. ASSUME NEW s \in Sessions, View(s) PROVE Goal
  <2>1. CASE UNCHANGED rows
    BY <2>1, <1>2
  <2>2. CASE rows' # rows
    <3>1. /\ rows[op[s].a].status = "assigned"
          /\ rows' = [rows EXCEPT ![op[s].a].status = "viewed"]
      BY <1>5, <2>2 DEF View
    <3>2. op[s].a \in Assignments
      BY <1>5, Fields DEF View, At
    <3>3. rows[op[s].a] \in [status : {"assigned", "viewed"}, proof : {None}]
      BY <3>1, <3>2, <1>1, NoneAssumption DEF Row, Missing
    <3>4. [rows[op[s].a] EXCEPT !.status = "viewed"].proof = None
      BY <3>3
    <3> QED BY <3>1, <3>2, <3>3, <3>4, <1>1 DEF Proven, Exists
  <2> QED BY <2>1, <2>2
<1>6. ASSUME NEW s \in Sessions, MarkSigned(s) PROVE Goal
  <2>1. CASE UNCHANGED rows
    BY <2>1, <1>2
  <2>2. CASE rows' # rows
    <3> DEFINE proof == [pdf |-> op[s].copy.pdf, copy |-> op[s].copy]
    <3>1. op[s].a \in Assignments
      BY <1>6, Fields DEF MarkSigned, At
    <3>2. Open(op[s].a)
          /\ rows' = [rows EXCEPT ![op[s].a] = [status |-> "completed", proof |-> proof]]
      BY <1>6, <2>2 DEF MarkSigned, Completes
    <3>3. ~Proven(op[s].a)
      BY <3>1, <3>2, RowFields
    <3>4. CASE a = op[s].a
      <4>1. rows'[a].proof = proof
        BY <3>1, <3>2, <3>4, <1>1
      <4>2. Signed(a)
        BY <4>1, <3>4, <1>6 DEF Signed
      <4> QED BY <4>2, <3>3, <3>4
    <3>5. CASE a # op[s].a
      BY <3>2, <3>5, <1>1 DEF Proven, Exists
    <3> QED BY <3>4, <3>5
  <2> QED BY <2>1, <2>2
<1>7. ASSUME NEW s \in Sessions, MarkRead(s) PROVE Goal
  <2>1. At(s, "acknowledge")
    BY <1>7 DEF MarkRead
  <2>2. op[s].a \in Assignments
    BY <1>7, Fields DEF MarkRead, At
  <2>3. Proven(a) => a # op[s].a \/ ~Open(op[s].a)
    BY <2>2, RowFields
  <2>4. Proven(a) => rows'[a] = rows[a]
    BY <2>3, <1>7, <1>1 DEF MarkRead, Completes
  <2> QED BY <2>1, <2>4 DEF Proven, Exists
<1>8. ASSUME NEW s \in Sessions, Delete(s) PROVE Goal
  <2>1. CASE HasCompleted
    <3>1. UNCHANGED rows
      BY <1>8, <2>1 DEF Delete
    <3> QED BY <3>1, <1>2
  <2>2. CASE ~HasCompleted
    <3>1. rows' = [b \in Assignments |-> Missing]
      BY <1>8, <2>2 DEF Delete
    <3>2. ~Exists(a)'
      BY <3>1 DEF Exists, Missing
    <3>3. ~Proven(a)
      BY <2>2 DEF HasCompleted
    <3> QED BY <3>2, <3>3 DEF Proven
  <2> QED BY <2>1, <2>2
<1>9. ASSUME NEW s \in Sessions, Steps(s) PROVE Goal
  <2>1. \/ View(s) \/ MarkSigned(s) \/ MarkRead(s) \/ Delete(s)
        \/ UNCHANGED rows
    BY <1>9
       DEF Steps, RequestEdit, Check, Normalise, PutSource, UpdateSource,
           DiscardUpload, PutFields, RequestOpen, RequestComplete, ReadSource,
           PutCopy, RequestDelete, Clean, Dies
  <2> QED BY <2>1, <1>2, <1>5, <1>6, <1>7, <1>8
<1>10. Goal
  <2>1. CASE Upload
    BY <2>1, <1>2 DEF Upload
  <2>2. CASE UNCHANGED vars
    BY <2>2, <1>2 DEF vars
  <2> QED BY <2>1, <2>2, <1>3, <1>4, <1>9 DEF Next, Steps, Goal
<1> QED BY <1>10 DEF Goal

\* What was recorded when an assignment was completed is never removed or
\* changed, whatever the other requests do (EvidenceStays, markCompleted and
\* delete_document_template).
THEOREM NothingLost == Spec => EvidenceStays
<1>1. TypeOK /\ [Next]_vars =>
        [\A a \in Assignments :
           Proven(a) => Proven(a)' /\ rows[a].proof = rows[a].proof']_vars
  BY Evidence
<1> QED BY <1>1, TypeCorrect, PTL DEF Spec, EvidenceStays

-----------------------------------------------------------------------------
\* What CopyIsAsRecorded rests on: documents are either signed or read, the
\* queue has one job, and the job overwrites the copy of an assignment without
\* evidence, which it then records.
OneAtATime ==
  /\ \A s \in Sessions :
       /\ op[s].pc \in {"queue", "stamp", "mark"} => kind = "sign"
       /\ At(s, "acknowledge") => kind = "read"
       /\ Stamping(s) => ~Proven(op[s].a)
       /\ At(s, "mark") => copies[op[s].a] = op[s].copy
  /\ \A r, s \in Sessions : Stamping(r) /\ Stamping(s) => r = s

\* The assignment of a job that goes on stays without evidence: the one action
\* that could give it some is the end of the job.
LEMMA JobGoesOn ==
  ASSUME TypeOK, OneAtATime, [Next]_vars,
         NEW s \in Sessions, Stamping(s), Stamping(s)', op'[s].a = op[s].a
  PROVE  ~Proven(op[s].a)'
<1>1. op[s].a \in Assignments /\ ~Proven(op[s].a) /\ kind = "sign"
  BY Fields DEF Stamping, OneAtATime
<1>2. \A r \in Sessions : ~At(r, "acknowledge")
  BY <1>1 DEF OneAtATime
<1>3. ~Signed(op[s].a)
  <2>1. SUFFICES ASSUME NEW r \in Sessions, MarkSigned(r) PROVE FALSE
    BY DEF Signed
  <2>2. r = s
    BY <2>1 DEF MarkSigned, At, Stamping, OneAtATime
  <2>3. op'[s] = Idle
    BY <2>1, <2>2 DEF MarkSigned, Ends, Goes, TypeOK
  <2> QED BY <2>3 DEF Stamping, Idle
<1>4. Proven(op[s].a)' => Proven(op[s].a)
  BY <1>1, <1>2, <1>3, Evidence
<1> QED BY <1>1, <1>4

\* Kinds of document do not change, and a job starts when there is none.
LEMMA Starting ==
  ASSUME TypeOK, OneAtATime, [Next]_vars
  PROVE  /\ UNCHANGED kind
         /\ \/ UNCHANGED op
            \/ \E s \in Sessions : \E r : Goes(s, r) /\ r.pc \notin Signs
            \/ \E s \in Sessions : \/ RequestComplete(s) \/ PutCopy(s)
                                    \/ ReadSource(s)
         /\ UNCHANGED copies \/ \E s \in Sessions : PutCopy(s)
<1>1. CASE UNCHANGED vars
  BY <1>1 DEF vars
<1>2. CASE Upload \/ Assign \/ Archive
  BY <1>2 DEF Upload, Assign, Archive, bucket
<1>3. ASSUME NEW s \in Sessions, Steps(s)
      PROVE  /\ UNCHANGED kind
             /\ UNCHANGED copies \/ PutCopy(s)
  BY <1>3
     DEF Steps, RequestEdit, Check, Normalise, PutSource, UpdateSource,
         DiscardUpload, PutFields, RequestOpen, View, RequestComplete,
         ReadSource, PutCopy, MarkSigned, MarkRead, RequestDelete, Delete,
         Clean, Dies, bucket
<1>4. ASSUME NEW s \in Sessions, Steps(s)
      PROVE  \/ \E r : Goes(s, r) /\ r.pc \notin Signs
             \/ RequestComplete(s) \/ PutCopy(s) \/ ReadSource(s)
  <2> DEFINE Away == \E r : Goes(s, r) /\ r.pc \notin Signs
  <2>1. ASSUME Ends(s) PROVE Away
    BY <2>1 DEF Ends, Idle, Signs
  <2>2. ASSUME NEW pc \in {"discard", "delete", "clean"}, Goes(s, [pc |-> pc])
        PROVE  Away
    BY <2>2 DEF Signs
  <2>3. CASE RequestEdit(s)
    BY <2>3 DEF RequestEdit, Signs
  <2>4. CASE Check(s)
    <3>1. op[s].to \notin Signs
      BY <2>4, Fields DEF Check, Signs
    <3> QED BY <2>4, <3>1, <2>1 DEF Check
  <2>5. CASE Normalise(s)
    BY <2>5, <2>1 DEF Normalise, Signs
  <2>6. CASE PutSource(s)
    <3>1. op[s] \in [pc : {"put", "update"}, before : Template, pdf : Pdfs]
      BY <2>6 DEF PutSource, TypeOK, Request, At
    <3>2. [op[s] EXCEPT !.pc = "update"].pc = "update"
      BY <3>1
    <3> QED BY <2>6, <3>2 DEF PutSource, Signs
  <2>7. CASE UpdateSource(s)
    BY <2>7, <2>1, <2>2 DEF UpdateSource, Ends
  <2>8. CASE RequestOpen(s)
    BY <2>8 DEF RequestOpen, Signs
  <2>9. CASE RequestDelete(s)
    BY <2>9, <2>2 DEF RequestDelete
  <2>10. CASE Delete(s)
    BY <2>10, <2>1, <2>2 DEF Delete
  <2>11. CASE DiscardUpload(s) \/ PutFields(s) \/ View(s) \/ MarkSigned(s)
              \/ MarkRead(s) \/ Clean(s) \/ Dies(s)
    <3>1. Ends(s)
      BY <2>11 DEF DiscardUpload, PutFields, View, MarkSigned, MarkRead, Clean,
                   Dies
    <3> QED BY <3>1, <2>1
  <2> QED BY <1>4, <2>3, <2>4, <2>5, <2>6, <2>7, <2>8, <2>9, <2>10, <2>11
          DEF Steps
<1> QED BY <1>1, <1>2, <1>3, <1>4 DEF Next, Steps

Inductive == OneAtATime /\ CopyIsAsRecorded

LEMMA AlwaysInductive == Spec => []Inductive
<1>1. Init /\ TypeOK => Inductive
  <2> SUFFICES ASSUME Init, TypeOK PROVE Inductive
    OBVIOUS
  <2>1. \A a \in Assignments : ~Proven(a)
    <3> SUFFICES ASSUME NEW a \in Assignments PROVE ~Proven(a)
      OBVIOUS
    <3>1. rows[a] = Fresh \/ rows[a] = Missing
      BY DEF Init
    <3> QED BY <3>1 DEF Proven, Exists, Fresh, Missing
  <2>2. \A s \in Sessions : op[s].pc = "idle"
    BY DEF Init, Idle
  <2> QED BY <2>1, <2>2 DEF Inductive, OneAtATime, CopyIsAsRecorded, At, Stamping
<1>2. TypeOK /\ TypeOK' /\ Inductive /\ [Next]_vars => Inductive'
  <2> SUFFICES ASSUME TypeOK, TypeOK', Inductive, [Next]_vars PROVE Inductive'
    OBVIOUS
  <2>0. OneAtATime /\ CopyIsAsRecorded /\ kind' = kind
    BY Starting DEF Inductive
  <2>1. CopyIsAsRecorded'
    <3> SUFFICES ASSUME NEW a \in Assignments, Proven(a)', kind = "sign"
                 PROVE  /\ copies'[a] = rows'[a].proof.copy
                        /\ copies'[a].pdf = rows'[a].proof.pdf
      BY <2>0 DEF CopyIsAsRecorded
    <3>1. \A s \in Sessions : ~At(s, "acknowledge")
      BY <2>0 DEF OneAtATime
    <3>2. CASE UNCHANGED copies
      <4>1. CASE Proven(a)
        BY <4>1, <3>2, <2>0, Evidence DEF CopyIsAsRecorded
      <4>2. CASE Signed(a)
        BY <4>2, <3>2, <2>0 DEF Signed, MarkSigned, OneAtATime
      <4> QED BY <4>1, <4>2, <3>1, Evidence
    <3>3. ASSUME NEW s \in Sessions, PutCopy(s)
          PROVE  Proven(a) /\ copies'[a] = copies[a] /\ rows'[a] = rows[a]
      <4>1. rows' = rows /\ Proven(a)
        BY <3>3 DEF PutCopy, Proven, Exists
      <4>2. op[s].a # a
        BY <4>1, <3>3, <2>0 DEF PutCopy, At, Stamping, OneAtATime
      <4> QED BY <4>1, <4>2, <3>3 DEF PutCopy, TypeOK
    <3> QED BY <3>2, <3>3, <2>0, Starting DEF CopyIsAsRecorded
  <2>2. OneAtATime'
    <3> DEFINE Fits(q) ==
          /\ op[q].pc \in {"queue", "stamp", "mark"} => kind = "sign"
          /\ At(q, "acknowledge") => kind = "read"
          /\ Stamping(q) => ~Proven(op[q].a)
          /\ At(q, "mark") => copies[op[q].a] = op[q].copy
    <3>f. \A q \in Sessions : Fits(q)
      BY <2>0 DEF OneAtATime
    <3>a. ASSUME NEW q \in Sessions, op'[q] = op[q],
                 UNCHANGED copies \/ ~Stamping(q)
          PROVE  Fits(q)'
      <4>1. Stamping(q) => ~Proven(op[q].a)'
        <5>1. Stamping(q)' = Stamping(q) /\ op'[q].a = op[q].a
          BY <3>a DEF Stamping
        <5> QED BY <5>1, <2>0, JobGoesOn
      <4>2. Stamping(q)' => ~Proven(op[q].a)'
        BY <4>1, <3>a DEF Stamping
      <4>3. /\ op'[q].pc \in {"queue", "stamp", "mark"} => kind' = "sign"
            /\ op'[q].pc = "acknowledge" => kind' = "read"
        BY <3>a, <3>f, <2>0 DEF At
      <4>4. At(q, "mark")' => (copies[op[q].a] = op[q].copy)'
        BY <3>a, <3>f DEF At, Stamping
      <4> QED BY <4>2, <4>3, <4>4 DEF At
    <3>1. CASE UNCHANGED op
      <4>1. UNCHANGED copies
        <5>1. ASSUME NEW s \in Sessions, PutCopy(s) PROVE FALSE
          BY <5>1, <3>1 DEF PutCopy, At, Goes, TypeOK
        <5> QED BY <5>1, <2>0, Starting
      <4>2. \A q \in Sessions : Fits(q)'
        BY <4>1, <3>1, <3>a
      <4>3. \A r, q \in Sessions : Stamping(r)' /\ Stamping(q)' => r = q
        BY <3>1, <2>0 DEF OneAtATime, Stamping
      <4> QED BY <4>2, <4>3 DEF OneAtATime
    <3>g. ASSUME NEW s \in Sessions, NEW r, Goes(s, r), Fits(s)',
                 UNCHANGED copies \/ Stamping(s),
                 r.pc \in {"stamp", "mark"} => Stamping(s) \/ ~Working
          PROVE  OneAtATime'
      <4>1. op' = [op EXCEPT ![s] = r] /\ op'[s] = r
        BY <3>g DEF Goes, TypeOK
      <4>2. \A q \in Sessions : q # s => op'[q] = op[q]
        BY <4>1
      <4>3. \A q \in Sessions : Fits(q)'
        <5> SUFFICES ASSUME NEW q \in Sessions, q # s PROVE Fits(q)'
          BY <3>g
        <5>1. UNCHANGED copies \/ ~Stamping(q)
          BY <3>g, <2>0 DEF OneAtATime
        <5> QED BY <5>1, <4>2, <3>a
      <4>4. \A q \in Sessions : Stamping(s)' /\ Stamping(q)' => s = q
        BY <4>1, <4>2, <3>g, <2>0 DEF Stamping, Working, OneAtATime
      <4>5. \A t, q \in Sessions : t # s /\ q # s /\ Stamping(t)' /\ Stamping(q)' => t = q
        BY <4>2, <2>0 DEF Stamping, OneAtATime
      <4>6. \A t, q \in Sessions : Stamping(t)' /\ Stamping(q)' => t = q
        BY <4>4, <4>5
      <4> QED BY <4>3, <4>6 DEF OneAtATime
    <3>2. ASSUME NEW s \in Sessions, NEW r, Goes(s, r), r.pc \notin Signs
          PROVE  OneAtATime'
      <4>1. op'[s] = r
        BY <3>2 DEF Goes, TypeOK
      <4>2. UNCHANGED copies
        <5>1. ASSUME NEW q \in Sessions, PutCopy(q) PROVE FALSE
          <6>1. op'[q].pc = "mark" /\ At(q, "stamp") /\ op'[q] # op[q]
            BY <5>1 DEF PutCopy, Goes, At, TypeOK
          <6>2. q = s
            BY <6>1, <3>2 DEF Goes, TypeOK
          <6> QED BY <6>1, <6>2, <4>1, <3>2 DEF Signs
        <5> QED BY <5>1, <2>0, Starting
      <4>3. Fits(s)'
        BY <4>1, <3>2 DEF Signs, At, Stamping
      <4> QED BY <4>2, <4>3, <3>2, <3>g DEF Signs
    <3>3. ASSUME NEW s \in Sessions, RequestComplete(s) PROVE OneAtATime'
      <4>1. PICK a \in Assignments, t \in template :
              Goes(s, [pc |-> IF kind = "sign" THEN "queue" ELSE "acknowledge",
                       a |-> a, seen |-> t, by |-> ops + 1])
        BY <3>3 DEF RequestComplete
      <4>2. op'[s].pc = IF kind = "sign" THEN "queue" ELSE "acknowledge"
        BY <4>1 DEF Goes, TypeOK
      <4>3. kind \in {"sign", "read"}
        BY DEF TypeOK
      <4>4. Fits(s)'
        BY <4>2, <4>3, <2>0 DEF At, Stamping
      <4>5. UNCHANGED copies
        BY <3>3 DEF RequestComplete, bucket
      <4> QED BY <4>1, <4>4, <4>5, <3>g
    <3>4. ASSUME NEW s \in Sessions, ReadSource(s) PROVE OneAtATime'
      <4>1. UNCHANGED <<copies, rows>> /\ At(s, "queue") /\ ~Working
        BY <3>4 DEF ReadSource, bucket
      <4>2. CASE Goes(s, Idle)
        BY <4>2, <3>2 DEF Idle, Signs
      <4>3. CASE ~Goes(s, Idle)
        <5> DEFINE r == [pc |-> "stamp", a |-> op[s].a,
                         copy |-> [pdf |-> source, fields |-> op[s].seen.fields,
                                   by |-> op[s].by]]
        <5>1. Goes(s, r) /\ Open(op[s].a)
          BY <3>4, <4>3 DEF ReadSource
        <5>2. op[s].a \in Assignments
          BY <4>1, Fields DEF At
        <5>3. ~Proven(op[s].a)
          BY <5>1, <5>2, RowFields
        <5>4. op'[s] = r
          BY <5>1 DEF Goes, TypeOK
        <5>5. ~Proven(op[s].a)'
          BY <5>3, <5>4, <4>1 DEF Proven, Exists
        <5>6. kind = "sign"
          BY <4>1, <3>f DEF At
        <5>7. Fits(s)'
          BY <5>4, <5>5, <5>6, <2>0 DEF At, Stamping
        <5> QED BY <5>1, <5>7, <4>1, <3>g
      <4> QED BY <4>2, <4>3
    <3>5. ASSUME NEW s \in Sessions, PutCopy(s) PROVE OneAtATime'
      <4> DEFINE r == [pc |-> "mark", a |-> op[s].a, copy |-> op[s].copy]
      <4>1. Goes(s, r) /\ UNCHANGED rows /\ At(s, "stamp")
            /\ copies' = [copies EXCEPT ![op[s].a] = op[s].copy]
        BY <3>5 DEF PutCopy
      <4>2. op'[s] = r
        BY <4>1 DEF Goes, TypeOK
      <4>3. op[s].a \in Assignments
        BY <4>1, Fields DEF At
      <4>4. Stamping(s) /\ kind = "sign" /\ ~Proven(op[s].a)
        BY <4>1, <3>f DEF At, Stamping
      <4>5. copies'[op'[s].a] = op'[s].copy /\ ~Proven(op[s].a)'
        BY <4>1, <4>2, <4>3, <4>4 DEF TypeOK, Proven, Exists
      <4>6. Fits(s)'
        BY <4>2, <4>4, <4>5, <2>0 DEF At, Stamping
      <4> QED BY <4>1, <4>4, <4>6, <3>g
    <3> QED BY <3>1, <3>2, <3>3, <3>4, <3>5, <2>0, Starting
  <2> QED BY <2>1, <2>2 DEF Inductive
<1>3. QED
  BY <1>1, <1>2, TypeCorrect, PTL DEF Spec

\* The copy that stays in the bucket is the one whose hash was recorded, for any
\* number of assignments and of completions that race (signAndStore).
THEOREM CopyRecorded == Spec => []CopyIsAsRecorded
<1>1. Inductive => CopyIsAsRecorded
  BY DEF Inductive
<1> QED BY <1>1, AlwaysInductive, PTL

-----------------------------------------------------------------------------
(* What FieldsFitUnlessRaced rests on: as long as nothing has raced, an edit is   *)
(* alone, and what it loaded, like what a signature loaded, is still so.          *)

Loaded == {"check", "normalise", "fields", "put", "update"}

\* An edit meets neither another edit nor a signature.
EditsApart ==
  \A r, s \in Sessions :
    op[r].pc \in Edits /\ op[s].pc \in Edits \cup Signs => r = s

\* The row of the template is what the request loaded.
LoadedStands ==
  \A s \in Sessions :
    /\ op[s].pc \in Loaded => \A t \in template : op[s].before = t
    /\ At(s, "queue") => \A t \in template : op[s].seen = t

\* The stored PDF is the one of the row, or the one that the edit has put there.
SourceFits ==
  /\ \A s \in Sessions : At(s, "update") => source \in {op[s].pdf, None}
  /\ (\A s \in Sessions : ~At(s, "update")) =>
       \A t \in template : t.pdf = source \/ source = None

TemplateFits ==
  \A t \in template : t.pages = Layout[t.pdf] /\ t.fields \in {None, Layout[t.pdf]}

CopiesFit ==
  \A s \in Sessions : Stamping(s) => op[s].copy.fields = Layout[op[s].copy.pdf]

EvidenceFits ==
  \A a \in Assignments :
    Proven(a) /\ kind = "sign" =>
      rows[a].proof.copy.fields = Layout[rows[a].proof.pdf]

AllFit ==
  /\ EditsApart /\ LoadedStands /\ SourceFits
  /\ TemplateFits /\ CopiesFit /\ EvidenceFits

\* Evidence fits as the copies do that are recorded.
LEMMA EvidenceGoesOn ==
  ASSUME TypeOK, OneAtATime, AllFit, [Next]_vars
  PROVE  EvidenceFits'
<1> SUFFICES ASSUME NEW a \in Assignments, Proven(a)', kind' = "sign"
             PROVE  rows'[a].proof.copy.fields = Layout[rows'[a].proof.pdf]
  BY DEF EvidenceFits
<1>1. kind = "sign" /\ \A s \in Sessions : ~At(s, "acknowledge")
  BY Starting DEF OneAtATime
<1>2. CASE Proven(a)
  BY <1>1, <1>2, Evidence DEF AllFit, EvidenceFits
<1>3. CASE Signed(a)
  <2>1. PICK s \in Sessions :
          /\ MarkSigned(s)
          /\ rows'[a].proof = [pdf |-> op[s].copy.pdf, copy |-> op[s].copy]
    BY <1>3 DEF Signed
  <2>2. op[s].copy.fields = Layout[op[s].copy.pdf]
    BY <2>1 DEF MarkSigned, At, Stamping, AllFit, CopiesFit
  <2> QED BY <2>1, <2>2
<1> QED BY <1>1, <1>2, <1>3, Evidence

\* What a request may come to be while the template, if it is not deleted, and
\* the stored PDF stay.
Following(s, r) ==
  /\ r.pc \in Edits => \/ op[s].pc \in Edits
                       \/ \A q \in Sessions : op[q].pc \notin Edits \cup Signs
  /\ r.pc \in Signs => \/ op[s].pc \in Signs
                       \/ \A q \in Sessions : op[q].pc \notin Edits
  /\ r.pc \in Loaded => \A t \in template : r.before = t
  /\ r.pc = "queue" => \A t \in template : r.seen = t
  /\ r.pc \in {"stamp", "mark"} => r.copy.fields = Layout[r.copy.pdf]
  /\ r.pc # "update" /\ op[s].pc # "update"

LEMMA FollowingFits ==
  ASSUME TypeOK, OneAtATime, AllFit, [Next]_vars, NEW s \in Sessions, NEW r, Goes(s, r),
         Following(s, r), template' \in {template, {}}, source' \in {source, None}
  PROVE  AllFit'
<1>1. op'[s] = r /\ \A q \in Sessions \ {s} : op'[q] = op[q]
  BY DEF Goes, TypeOK
<1>2. EditsApart'
  <2> SUFFICES ASSUME NEW q1 \in Sessions, NEW q2 \in Sessions,
                      op'[q1].pc \in Edits, op'[q2].pc \in Edits \cup Signs, q1 # q2
               PROVE  FALSE
    BY DEF EditsApart
  <2>1. CASE q1 = s
    BY <2>1, <1>1 DEF Following, AllFit, EditsApart
  <2>2. CASE q2 = s
    BY <2>2, <1>1 DEF Following, AllFit, EditsApart
  <2>3. CASE q1 # s /\ q2 # s
    BY <2>3, <1>1 DEF AllFit, EditsApart
  <2> QED BY <2>1, <2>2, <2>3
<1>3. LoadedStands'
  BY <1>1 DEF AllFit, LoadedStands, Following, At
<1>4. SourceFits'
  BY <1>1 DEF AllFit, SourceFits, Following, At
<1>5. TemplateFits'
  BY DEF AllFit, TemplateFits
<1>6. CopiesFit'
  BY <1>1 DEF AllFit, CopiesFit, Following, Stamping
<1> QED BY <1>2, <1>3, <1>4, <1>5, <1>6, EvidenceGoesOn DEF AllFit

\* An edit that writes is alone.
LEMMA AloneFits ==
  ASSUME TypeOK, OneAtATime, AllFit, [Next]_vars, NEW s \in Sessions, NEW r, Goes(s, r),
         op[s].pc \in Edits, TemplateFits',
         r.pc \in {"idle", "discard", "update"},
         r.pc = "update" => source' = r.pdf /\ \A t \in template' : r.before = t,
         r.pc # "update" => \A t \in template' : t.pdf = source' \/ source' = None
  PROVE  AllFit'
<1>1. op'[s] = r /\ \A q \in Sessions \ {s} : op'[q] = op[q]
  BY DEF Goes, TypeOK
<1>2. \A q \in Sessions \ {s} : op[q].pc \notin Edits \cup Signs
  BY DEF AllFit, EditsApart
<1>3. EditsApart'
  BY <1>1, <1>2 DEF EditsApart
<1>4. LoadedStands'
  BY <1>1, <1>2 DEF LoadedStands, At, Edits, Signs, Loaded
<1>5. SourceFits'
  BY <1>1, <1>2 DEF SourceFits, At, Edits
<1>6. CopiesFit'
  BY <1>1, <1>2 DEF CopiesFit, Stamping, Signs
<1> QED BY <1>3, <1>4, <1>5, <1>6, EvidenceGoesOn DEF AllFit

LEMMA StaysUnraced ==
  ASSUME TypeOK, [Next]_vars, ~raced'
  PROVE  ~raced
<1>1. ASSUME NEW s \in Sessions, Steps(s) PROVE ~raced
  BY <1>1 DEF Steps, RequestEdit, Check, Normalise, PutSource, UpdateSource,
       DiscardUpload, PutFields, RequestOpen, View, RequestComplete, ReadSource,
       PutCopy, MarkSigned, MarkRead, RequestDelete, Delete, Clean, Dies, Starts
<1> QED BY <1>1 DEF Next, Steps, Upload, Assign, Archive, vars

LEMMA EditsFit ==
  ASSUME TypeOK, OneAtATime, AllFit, [Next]_vars, ~raced', NEW s \in Sessions,
         \/ RequestEdit(s) \/ Check(s) \/ Normalise(s) \/ PutSource(s)
         \/ UpdateSource(s) \/ DiscardUpload(s) \/ PutFields(s)
  PROVE  AllFit'
<1>t. /\ \A t, u \in template : t = u
      /\ op[s] \in Request
  BY DEF TypeOK
<1>i. Idle.pc = "idle"
  BY DEF Idle
<1>1. CASE RequestEdit(s)
  <2>1. PICK t \in template, to \in {"normalise", "fields"} :
          Goes(s, [pc |-> "check", to |-> to, before |-> t])
    BY <1>1 DEF RequestEdit
  <2>2. /\ op[s].pc = "idle" /\ UNCHANGED <<template, source>>
        /\ \A q \in Sessions : op[q].pc \notin Edits \cup Signs
    BY <1>1 DEF RequestEdit, Starts, At, bucket
  <2>3. Following(s, [pc |-> "check", to |-> to, before |-> t])
    BY <2>2, <1>t DEF Following, Signs
  <2> QED BY <2>1, <2>2, <2>3, FollowingFits
<1>2. CASE Check(s)
  <2>1. /\ op[s] \in [pc : {"check"}, to : {"normalise", "fields"}, before : Template]
        /\ UNCHANGED <<template, source>>
    BY <1>2, <1>t DEF Check, At, Request, bucket
  <2> DEFINE r == [pc |-> op[s].to, before |-> op[s].before]
  <2>2. Following(s, r) /\ Following(s, Idle)
    BY <2>1, <1>i DEF Following, AllFit, LoadedStands, Edits, Signs, Loaded
  <2>3. Goes(s, r) \/ Goes(s, Idle)
    BY <1>2 DEF Check, Ends
  <2> QED BY <2>1, <2>2, <2>3, FollowingFits
<1>3. CASE Normalise(s)
  <2>1. op[s].pc = "normalise" /\ UNCHANGED <<template, source>>
    BY <1>3 DEF Normalise, At, bucket
  <2> DEFINE r == [pc |-> "put", before |-> op[s].before, pdf |-> upload]
  <2>2. Following(s, r) /\ Following(s, Idle)
    BY <2>1, <1>i DEF Following, AllFit, LoadedStands, Edits, Signs, Loaded
  <2>3. Goes(s, r) \/ Goes(s, Idle)
    BY <1>3 DEF Normalise, Ends
  <2> QED BY <2>1, <2>2, <2>3, FollowingFits
<1>4. CASE PutSource(s)
  <2>1. /\ op[s] \in [pc : {"put", "update"}, before : Template, pdf : Pdfs]
        /\ op[s].pc = "put"
    BY <1>4, <1>t DEF PutSource, At, Request
  <2> DEFINE r == [op[s] EXCEPT !.pc = "update"]
  <2>2. /\ Goes(s, r) /\ template' = template /\ source' = r.pdf
        /\ r.pc = "update" /\ r.before = op[s].before
    BY <1>4, <2>1 DEF PutSource
  <2>3. \A t \in template' : r.before = t
    BY <2>1, <2>2 DEF AllFit, LoadedStands, Loaded
  <2>4. TemplateFits' /\ op[s].pc \in Edits
    BY <2>1, <2>2 DEF AllFit, TemplateFits, Edits
  <2> QED BY <2>2, <2>3, <2>4, AloneFits
<1>5. CASE UpdateSource(s)
  <2> DEFINE o == op[s]
             clears == o.before.fields # None /\ o.before.pages # Layout[o.pdf]
             new(t) == [pdf |-> o.pdf, pages |-> Layout[o.pdf],
                        fields |-> IF clears THEN None ELSE t.fields]
             r == IF template = {} THEN Idle ELSE [pc |-> "discard"]
  <2>1. /\ At(s, "update") /\ op[s].pc = "update" /\ Goes(s, r) /\ source' = source
        /\ template' = {new(t) : t \in template}
    BY <1>5 DEF UpdateSource, At, bucket
  <2>2. \A t \in template : o.before = t /\ t.pages = Layout[t.pdf]
                            /\ t.fields \in {None, Layout[t.pdf]}
    BY <2>1 DEF AllFit, LoadedStands, TemplateFits, Loaded
  <2>3. \A t \in template : new(t).pdf = o.pdf /\ new(t).pages = Layout[o.pdf]
                            /\ new(t).fields \in {None, Layout[o.pdf]}
    BY <2>2
  <2>4. TemplateFits'
    <3> HIDE DEF new
    <3> QED BY <2>1, <2>3 DEF TemplateFits
  <2>5. \A t \in template' : t.pdf = source' \/ source' = None
    <3>1. source \in {o.pdf, None}
      BY <2>1 DEF AllFit, SourceFits
    <3> HIDE DEF new
    <3> QED BY <2>1, <2>3, <3>1
  <2>6. r.pc \in {"idle", "discard"} /\ op[s].pc \in Edits
    BY <2>1, <1>i DEF Edits
  <2> HIDE DEF r
  <2> QED BY <2>1, <2>4, <2>5, <2>6, AloneFits
<1>6. CASE DiscardUpload(s)
  <2>1. op[s].pc = "discard" /\ UNCHANGED <<template, source>> /\ Goes(s, Idle)
    BY <1>6 DEF DiscardUpload, At, Ends
  <2>2. Following(s, Idle)
    BY <2>1, <1>i DEF Following, Edits, Signs, Loaded
  <2> QED BY <2>1, <2>2, FollowingFits
<1>7. CASE PutFields(s)
  <2>1. /\ op[s].pc = "fields" /\ source' = source /\ Goes(s, Idle)
        /\ op[s] \in [pc : {"normalise", "fields"}, before : Template]
    BY <1>7, <1>t DEF PutFields, At, Ends, bucket, Request
  <2>2. PICK fields \in {None, op[s].before.pages} :
          template' = {[t EXCEPT !.fields = fields] : t \in template}
    BY <1>7 DEF PutFields
  <2>3. \A t \in template :
          /\ t \in Template /\ op[s].before = t /\ t.pages = Layout[t.pdf]
          /\ t.pdf = source \/ source = None
    <3>1. \A q \in Sessions : ~At(q, "update")
      BY <2>1 DEF AllFit, EditsApart, At, Edits
    <3> QED BY <2>1, <3>1 DEF AllFit, LoadedStands, TemplateFits, SourceFits, Loaded, TypeOK
  <2>4. \A t \in template : /\ [t EXCEPT !.fields = fields].pdf = t.pdf
                            /\ [t EXCEPT !.fields = fields].pages = t.pages
                            /\ [t EXCEPT !.fields = fields].fields = fields
    BY <2>3 DEF Template
  <2>5. \A u \in template' : \E t \in template :
          u.pdf = t.pdf /\ u.pages = t.pages /\ u.fields \in {None, t.pages}
    <3> SUFFICES ASSUME NEW u \in template'
                 PROVE  \E t \in template :
                          u.pdf = t.pdf /\ u.pages = t.pages /\ u.fields \in {None, t.pages}
      OBVIOUS
    <3>1. PICK t \in template : u = [t EXCEPT !.fields = fields]
      BY <2>2
    <3>2. fields \in {None, t.pages}
      BY <2>2, <2>3
    <3> QED BY <3>1, <3>2, <2>4
  <2>6. TemplateFits' /\ \A t \in template' : t.pdf = source' \/ source' = None
    BY <2>1, <2>3, <2>5 DEF TemplateFits
  <2>7. op[s].pc \in Edits
    BY <2>1 DEF Edits
  <2> QED BY <2>1, <2>6, <2>7, <1>i, AloneFits
<1> QED BY <1>1, <1>2, <1>3, <1>4, <1>5, <1>6, <1>7

LEMMA OthersFit ==
  ASSUME TypeOK, OneAtATime, AllFit, [Next]_vars, ~raced', NEW s \in Sessions,
         \/ RequestOpen(s) \/ View(s)
         \/ RequestComplete(s) \/ ReadSource(s) \/ PutCopy(s)
         \/ MarkSigned(s) \/ MarkRead(s)
         \/ RequestDelete(s) \/ Delete(s) \/ Clean(s)
         \/ Dies(s)
  PROVE  AllFit'
<1>i. Idle.pc = "idle"
  BY DEF Idle
\* A request that ends or goes on to what is neither an edit nor a signature.
<1>q. ASSUME NEW r, Goes(s, r), r.pc \notin Edits \cup Signs, op[s].pc # "update",
             template' \in {template, {}}, source' \in {source, None}
      PROVE  AllFit'
  <2>1. Following(s, r)
    BY <1>q DEF Following, Edits, Signs, Loaded
  <2> QED BY <1>q, <2>1, FollowingFits
<1>e. Idle.pc \notin Edits \cup Signs
  BY <1>i DEF Edits, Signs
<1>1. CASE RequestOpen(s)
  <2>1. PICK a \in Assignments : Goes(s, [pc |-> "view", a |-> a])
    BY <1>1 DEF RequestOpen
  <2> QED BY <1>1, <1>q, <2>1 DEF RequestOpen, Starts, At, bucket, Edits, Signs
<1>2. CASE View(s) \/ MarkSigned(s) \/ MarkRead(s) \/ Clean(s)
  <2>1. /\ op[s].pc # "update" /\ Goes(s, Idle) /\ template' = template
        /\ source' \in {source, None}
    BY <1>2 DEF View, MarkSigned, MarkRead, Clean, At, Ends, bucket
  <2> QED BY <2>1, <1>e, <1>q
<1>3. CASE Dies(s)
  <2>1. op[s].pc # "update" /\ Goes(s, Idle) /\ template' = template /\ source' = source
    BY <1>3 DEF Dies, At, Ends, bucket
  <2> QED BY <2>1, <1>e, <1>q
<1>4. CASE RequestDelete(s)
  BY <1>4, <1>q DEF RequestDelete, Starts, At, bucket, Edits, Signs
<1>5. CASE Delete(s)
  <2>1. /\ op[s].pc # "update" /\ template' \in {template, {}} /\ source' = source
        /\ Goes(s, [pc |-> "clean"]) \/ Goes(s, Idle)
    BY <1>5 DEF Delete, At, Ends, bucket
  <2>2. [pc |-> "clean"].pc \notin Edits \cup Signs
    BY DEF Edits, Signs
  <2> QED BY <2>1, <2>2, <1>e, <1>q
<1>6. CASE RequestComplete(s)
  <2>1. PICK a \in Assignments, t \in template, pc \in {"queue", "acknowledge"} :
          Goes(s, [pc |-> pc, a |-> a, seen |-> t, by |-> ops + 1])
    BY <1>6 DEF RequestComplete
  <2>2. /\ op[s].pc = "idle" /\ UNCHANGED <<template, source>>
        /\ \A q \in Sessions : op[q].pc \notin Edits
    BY <1>6 DEF RequestComplete, Starts, At, bucket
  <2>3. \A u \in template : u = t
    BY DEF TypeOK
  <2>4. Following(s, [pc |-> pc, a |-> a, seen |-> t, by |-> ops + 1])
    BY <2>2, <2>3 DEF Following, Edits, Signs, Loaded
  <2> QED BY <2>1, <2>2, <2>4, FollowingFits
<1>7. CASE ReadSource(s)
  <2> DEFINE r == [pc |-> "stamp", a |-> op[s].a,
                   copy |-> [pdf |-> source, fields |-> op[s].seen.fields,
                             by |-> op[s].by]]
  <2>1. op[s].pc = "queue" /\ UNCHANGED <<template, source>>
        /\ ((Goes(s, r) /\ Open(op[s].a) /\ source # None) \/ Goes(s, Idle))
    BY <1>7 DEF ReadSource, At, bucket
  <2>2. CASE Goes(s, r) /\ Open(op[s].a) /\ source # None
    <3>1. op[s].a \in Assignments
      BY <2>1, Fields
    <3>2. PICK t \in template : TRUE
      BY <2>2, <3>1, RowFields DEF TypeOK
    <3>3. op[s].seen = t /\ op[s].seen.fields # None
      BY <2>1 DEF AllFit, LoadedStands, TypeOK, At
    <3>4. \A q \in Sessions : ~At(q, "update")
      BY <2>1 DEF AllFit, EditsApart, At, Edits, Signs
    <3>5. t.pdf = source /\ t.fields \in {None, Layout[t.pdf]}
      BY <2>2, <3>4 DEF AllFit, SourceFits, TemplateFits
    <3>6. r.copy.fields = Layout[r.copy.pdf]
      BY <3>3, <3>5
    <3>7. Following(s, r)
      BY <2>1, <3>6 DEF Following, Edits, Signs, Loaded
    <3> QED BY <2>1, <2>2, <3>7, FollowingFits
  <2>3. CASE Goes(s, Idle)
    BY <2>1, <2>3, <1>e, <1>q
  <2> QED BY <2>1, <2>2, <2>3
<1>8. CASE PutCopy(s)
  <2> DEFINE r == [pc |-> "mark", a |-> op[s].a, copy |-> op[s].copy]
  <2>1. op[s].pc = "stamp" /\ UNCHANGED <<template, source>> /\ Goes(s, r)
    BY <1>8 DEF PutCopy, At
  <2>2. Following(s, r)
    BY <2>1 DEF Following, AllFit, CopiesFit, Stamping, Edits, Signs, Loaded
  <2> QED BY <2>1, <2>2, FollowingFits
<1> QED BY <1>1, <1>2, <1>3, <1>4, <1>5, <1>6, <1>7, <1>8

\* As long as no edit has met a signature or another edit, or died between the
\* object and the row, the stored PDF is that of the row, the fields fit it, and
\* every signed copy has its fields where they were placed (confirmSource,
\* putFields, signAndStore).
THEOREM FieldsFit == Spec => []FieldsFitUnlessRaced
<1> DEFINE Fitting == ~raced => AllFit
<1>1. Init /\ TypeOK => Fitting
  <2> SUFFICES ASSUME Init, TypeOK PROVE AllFit
    OBVIOUS
  <2>1. \A s \in Sessions : op[s].pc = "idle"
    BY DEF Init, Idle
  <2>2. EditsApart /\ LoadedStands /\ CopiesFit
    BY <2>1 DEF EditsApart, LoadedStands, CopiesFit, Edits, Loaded, At, Stamping
  <2>3. SourceFits /\ TemplateFits
    BY <2>1 DEF SourceFits, TemplateFits, At, Init
  <2>4. EvidenceFits
    <3>1. \A a \in Assignments : rows[a] = Fresh \/ rows[a] = Missing
      BY DEF Init
    <3> QED BY <3>1 DEF EvidenceFits, Proven, Exists, Fresh, Missing
  <2> QED BY <2>2, <2>3, <2>4 DEF AllFit
<1>2. TypeOK /\ Inductive /\ Fitting /\ [Next]_vars => Fitting'
  <2> SUFFICES ASSUME TypeOK, Inductive, Fitting, [Next]_vars, ~raced' PROVE AllFit'
    OBVIOUS
  <2>1. OneAtATime /\ AllFit
    BY StaysUnraced DEF Inductive
  <2>2. ASSUME UNCHANGED <<template, op, source>> PROVE AllFit'
    <3>1. EditsApart' /\ LoadedStands' /\ SourceFits' /\ TemplateFits' /\ CopiesFit'
      BY <2>1, <2>2 DEF AllFit, EditsApart, LoadedStands, SourceFits, TemplateFits, CopiesFit,
                        At, Stamping
    <3> QED BY <2>1, <3>1, EvidenceGoesOn DEF AllFit
  <2>3. CASE UNCHANGED vars
    BY <2>2, <2>3 DEF vars
  <2>4. CASE Upload \/ Assign \/ Archive
    BY <2>2, <2>4 DEF Upload, Assign, Archive, bucket
  <2>5. ASSUME NEW s \in Sessions, Steps(s) PROVE AllFit'
    BY <2>1, <2>5, EditsFit, OthersFit DEF Steps
  <2> QED BY <2>3, <2>4, <2>5 DEF Next, Steps
<1>3. TypeOK /\ Fitting => FieldsFitUnlessRaced
  BY DEF FieldsFitUnlessRaced, AllFit, TemplateFits, SourceFits, EvidenceFits
<1> QED BY <1>1, <1>2, <1>3, TypeCorrect, AlwaysInductive, PTL DEF Spec

-----------------------------------------------------------------------------
(***************************************************************************)
(* DocumentVersions, for any editors, signers and bounds: the versions of  *)
(* a template stand apart.  `VersionFits` of one version is inductive      *)
(* because it says of everybody at work on that version what they have     *)
(* read of it: a request that edits it is alone (`EditFits`), and one that *)
(* signs it meets only signers (`SignFits`).  `Elsewhere` carries it       *)
(* across every step that is about another version.                        *)
(***************************************************************************)
Version == [there : BOOLEAN, pdf : 0..3, pages : 0..2, fields : 0..2]
EditKinds == {"source", "fields", "remove"}
Edit == [pc : {"idle", "check", "put", "write", "discardSource"},
         kind : {"none", "language"} \cup EditKinds, key : Keys, before : Version, pdf : 0..3,
         to : Langs \cup {"none"}]
SignedCopy == [key : Keys \cup {"none"}, language : Langs \cup {"none"}, pdf : 0..3, fields : 0..2]
Signing == [pc : {"idle", "read", "mark"}, key : Keys, language : Langs \cup {"none"},
            read : Version, copy : SignedCopy]
VersionTypes ==
  /\ lang \in Langs \cup {"none"} /\ version \in [Keys -> Version] /\ object \in [Keys -> 0..3]
  /\ copy \in SignedCopy /\ edit \in [Editors -> Edit] /\ sign \in [Signers -> Signing]
  /\ mixed \subseteq Keys /\ clash \in BOOLEAN

EditsVersion(e, k) == edit[e].pc # "idle" /\ edit[e].kind # "language" /\ edit[e].key = k
SignsVersion(s, k) == sign[s].pc # "idle" /\ sign[s].key = k

\* What an edit knows that has met no other request.
EditFits(e, k) ==
  LET o == edit[e] v == version[k] IN
  /\ o.kind \in EditKinds
  /\ \A u \in Editors : EditsVersion(u, k) => u = e
  /\ \A s \in Signers : ~SignsVersion(s, k)
  /\ o.pc \in {"check", "put", "write"} => o.before = v
  /\ o.kind = "fields" => v.pages # 0
  /\ o.pc = "put" => o.kind = "source"
  /\ o.pc # "check" => copy.key # k
  /\ IF o.pc = "write" /\ o.kind = "source" THEN o.pdf # 0 /\ object[k] = o.pdf
     ELSE v.pdf # 0 => object[k] = v.pdf
  /\ o.pc = "discardSource" => v.pdf = 0

SignFits(s, k) ==
  LET r == sign[s] v == version[k] IN
  /\ r.read = v /\ v.pdf # 0 /\ v.fields # 0
  /\ k # Main => r.language = k
  /\ r.pc = "mark" => r.copy = [key |-> k, language |-> r.language, pdf |-> v.pdf, fields |-> v.fields]

VersionFits(k) ==
  LET v == version[k] IN
  /\ v.fields \in {0, v.pages}
  /\ v.pdf # 0 => v.pages = PageSizes(v.pdf)
  /\ v.pages # 0 => v.pdf # 0
  /\ v.pdf # 0 /\ (\A e \in Editors : ~EditsVersion(e, k)) => object[k] = v.pdf
  /\ copy.key = k =>
       /\ v.pdf = copy.pdf /\ v.fields = copy.fields /\ v.pages = copy.fields
       /\ k # Main => copy.language = k
  /\ \A e \in Editors : EditsVersion(e, k) => EditFits(e, k)
  /\ \A s \in Signers : SignsVersion(s, k) => SignFits(s, k)

LanguagesFit ==
  /\ \A l \in Langs : version[l].there => lang \notin {l, "none"}
  /\ \A e \in Editors, l \in Langs : EditsVersion(e, l) => lang \notin {l, "none"}
  /\ \A e \in Editors : edit[e].pc # "idle" /\ edit[e].kind = "language" =>
       /\ edit[e].pc = "write"
       /\ \A u \in Editors : edit[u].pc # "idle" /\ u # e => edit[u].kind # "language" /\ edit[u].key = Main
       /\ \A l \in Langs : version[l].there => edit[e].to \notin {l, "none"}

VersionsInv ==
  /\ VersionTypes
  /\ \A e \in Editors : edit[e].pc \in {"check", "put", "discardSource"} => edit[e].kind \in EditKinds
  /\ \A e \in Editors : edit[e].pc = "write" => edit[e].kind # "none"
  /\ \A s \in Signers : sign[s].pc = "mark" => sign[s].copy.key = sign[s].key
  /\ \A k \in Keys \ mixed : VersionFits(k)
  /\ ~clash => LanguagesFit

-----------------------------------------------------------------------------
LEMMA PagesAre == \A pdf \in 0..3 : PageSizes(pdf) \in 1..2
BY DEF PageSizes

LEMMA KeysAre == Keys = {"main", "en", "zh"} /\ Langs = {"en", "zh"} /\ Main = "main"
BY DEF Keys, Langs, Main

LEMMA EmptyIs == Empty \in Version /\ Empty.there = FALSE /\ Empty.pdf = 0 /\ Empty.pages = 0 /\ Empty.fields = 0
BY DEF Empty, Version

LEMMA NoEditIs == NoEdit \in Edit /\ NoEdit.pc = "idle" /\ NoEdit.pdf = 0 /\ NoEdit.key = Main
BY EmptyIs DEF NoEdit, Edit, Keys

LEMMA NoSignIs == NoSign \in Signing /\ NoSign.pc = "idle"
BY EmptyIs DEF NoSign, NoCopy, Signing, SignedCopy, Keys

LEMMA ReadyIs == /\ Ready(1) \in Version /\ Ready(1).there = TRUE /\ Ready(1).pdf = 1
                 /\ Ready(1).pages = PageSizes(1) /\ Ready(1).fields = PageSizes(1)
BY PagesAre DEF Ready, Version

LEMMA InitVersions == VersionsInit => VersionsInv
<1> SUFFICES ASSUME VersionsInit PROVE VersionsInv
  OBVIOUS
<1> PICK blank : blank = [Empty EXCEPT !.there = TRUE]
  OBVIOUS
<1> PICK none : none = [Empty EXCEPT !.there = FALSE]
  OBVIOUS
<1>1. /\ blank \in Version /\ blank.pdf = 0 /\ blank.pages = 0 /\ blank.fields = 0 /\ blank.there = TRUE
      /\ none = Empty
  BY EmptyIs DEF Empty, Version
<1>2. \A k \in Keys : \/ version[k] = Empty
                      \/ version[k] = blank /\ k = Main
                      \/ version[k] = Ready(1) /\ object[k] = 1 /\ lang = "en" /\ k # "en"
  <2>1. CASE version = [k \in Keys |-> [Empty EXCEPT !.there = (k = Main)]]
    <3> TAKE k \in Keys
    <3>1. CASE k = Main
      BY <2>1, <3>1
    <3>2. CASE k # Main
      BY <1>1, <2>1, <3>2
    <3> QED BY <3>1, <3>2
  <2>2. CASE lang = "en" /\ object = [k \in Keys |-> IF k = "en" THEN 0 ELSE 1]
             /\ version = [k \in Keys |-> IF k = "en" THEN Empty ELSE Ready(1)]
    BY <2>2
  <2> QED BY <2>1, <2>2 DEF VersionsInit
<1>3. /\ copy \in SignedCopy /\ copy.key = "none" /\ mixed = {} /\ clash = FALSE
      /\ \A e \in Editors : edit[e].pc = "idle"
      /\ \A s \in Signers : sign[s].pc = "idle"
      /\ edit \in [Editors -> Edit] /\ sign \in [Signers -> Signing]
  BY NoEditIs, NoSignIs DEF VersionsInit, NoCopy, SignedCopy
<1>4. VersionTypes
  <2>1. lang \in Langs \cup {"none"} /\ object \in [Keys -> 0..3] /\ version = [k \in Keys |-> version[k]]
    BY DEF VersionsInit, Langs
  <2>2. \A k \in Keys : version[k] \in Version
    BY <1>1, <1>2, EmptyIs, ReadyIs
  <2>3. version \in [Keys -> Version]
    BY <2>1, <2>2
  <2> QED BY <1>3, <2>1, <2>3 DEF VersionTypes
<1>5. ASSUME NEW k \in Keys PROVE VersionFits(k)
  <2>1. /\ version[k].fields \in {0, version[k].pages} /\ (version[k].pages # 0 => version[k].pdf # 0)
        /\ version[k].pdf # 0 => version[k].pages = PageSizes(version[k].pdf) /\ object[k] = version[k].pdf
    <3>1. CASE version[k] \in {Empty, blank}
      BY <1>1, <3>1, EmptyIs
    <3>2. CASE version[k] = Ready(1) /\ object[k] = 1
      <4> PICK v : v = version[k]
        OBVIOUS
      <4>1. v.pdf = 1 /\ v.pages = PageSizes(1) /\ v.fields = PageSizes(1)
        BY <3>2, ReadyIs
      <4> QED BY <3>2, <4>1
    <3> QED BY <1>2, <3>1, <3>2
  <2>2. copy.key # k
    BY <1>3, KeysAre
  <2> QED BY <1>3, <2>1, <2>2 DEF VersionFits, EditsVersion, SignsVersion
<1>6. LanguagesFit
  <2>1. \A l \in Langs : version[l].there => lang \notin {l, "none"}
    BY <1>2, EmptyIs, KeysAre
  <2> QED BY <1>3, <2>1 DEF LanguagesFit, EditsVersion
<1> QED BY <1>3, <1>4, <1>5, <1>6 DEF VersionsInv

-----------------------------------------------------------------------------
\* What happens to other versions leaves this one as it is.
LEMMA Elsewhere ==
  ASSUME NEW k \in Keys, VersionFits(k), version'[k] = version[k], object'[k] = object[k],
         copy' = copy \/ (copy'.key # k /\ copy.key # k),
         \A e \in Editors : (EditsVersion(e, k) <=> EditsVersion(e, k)') /\ (EditsVersion(e, k) => edit'[e] = edit[e]),
         \A s \in Signers : (SignsVersion(s, k) <=> SignsVersion(s, k)') /\ (SignsVersion(s, k) => sign'[s] = sign[s])
  PROVE  VersionFits(k)'
<1>1. ASSUME NEW e \in Editors, EditsVersion(e, k)' PROVE EditFits(e, k)'
  <2>1. EditsVersion(e, k) /\ EditFits(e, k) /\ edit'[e] = edit[e]
    BY <1>1 DEF VersionFits
  <2> QED BY <2>1 DEF EditFits
<1>2. ASSUME NEW s \in Signers, SignsVersion(s, k)' PROVE SignFits(s, k)'
  <2>1. SignFits(s, k) /\ sign'[s] = sign[s]
    BY <1>2 DEF VersionFits
  <2> QED BY <2>1 DEF SignFits
<1> QED BY <1>1, <1>2 DEF VersionFits

\* A step of the edit of one version.
LEMMA EditMoves ==
  ASSUME VersionsInv, NEW e \in Editors, NEW k, k = edit[e].key,
         edit[e].pc # "idle", edit[e].kind \in EditKinds,
         NEW o \in Edit, edit' = [edit EXCEPT ![e] = o],
         o.pc = "idle" \/ (o.key = k /\ o.kind = edit[e].kind),
         UNCHANGED <<copy, sign, lang, clash>>, mixed' \in {mixed, mixed \cup {k}},
         version' \in [Keys -> Version], object' \in [Keys -> 0..3],
         \A l \in Keys \ {k} : version'[l] = version[l] /\ object'[l] = object[l],
         k \in mixed' \/ VersionFits(k)'
  PROVE  VersionsInv'
<1>1. /\ k \in Keys /\ edit'[e] = o /\ \A u \in Editors \ {e} : edit'[u] = edit[u]
      /\ edit' \in [Editors -> Edit]
  BY DEF VersionsInv, VersionTypes, Edit
<1>2. VersionTypes'
  BY <1>1 DEF VersionsInv, VersionTypes
<1>3. ASSUME NEW l \in Keys, l \notin mixed' PROVE VersionFits(l)'
  <2>1. CASE l # k
    <3>1. VersionFits(l)
      BY <1>3, <2>1 DEF VersionsInv
    <3>2. \A u \in Editors : (EditsVersion(u, l) <=> EditsVersion(u, l)') /\ (EditsVersion(u, l) => edit'[u] = edit[u])
      BY <1>1, <2>1 DEF EditsVersion
    <3>3. \A s \in Signers : (SignsVersion(s, l) <=> SignsVersion(s, l)') /\ (SignsVersion(s, l) => sign'[s] = sign[s])
      BY DEF SignsVersion
    <3> QED BY <2>1, <3>1, <3>2, <3>3, Elsewhere
  <2> QED BY <1>3, <2>1
<1>4. ~clash' => LanguagesFit'
  <2> SUFFICES ASSUME ~clash PROVE LanguagesFit'
    OBVIOUS
  <2>1. LanguagesFit
    BY DEF VersionsInv
  <2>2. k \in Langs => lang \notin {k, "none"}
    BY <2>1 DEF LanguagesFit, EditsVersion, EditKinds
  <2>3. \A l \in Langs : version'[l].there => lang' \notin {l, "none"}
    BY <2>1, <2>2, KeysAre DEF LanguagesFit
  <2>4. \A u \in Editors, l \in Langs : EditsVersion(u, l)' => lang' \notin {l, "none"}
    BY <1>1, <2>1, <2>2 DEF LanguagesFit, EditsVersion
  <2>5. ASSUME NEW f \in Editors, edit'[f].pc # "idle", edit'[f].kind = "language"
        PROVE  /\ edit'[f].pc = "write"
               /\ \A u \in Editors : edit'[u].pc # "idle" /\ u # f =>
                    edit'[u].kind # "language" /\ edit'[u].key = Main
               /\ \A l \in Langs : version'[l].there => edit'[f].to \notin {l, "none"}
    <3>1. f # e /\ edit'[f] = edit[f]
      BY <1>1, <2>5 DEF EditKinds
    <3>2. /\ edit[f].pc = "write" /\ edit[e].key = Main
          /\ \A u \in Editors : edit[u].pc # "idle" /\ u # f => edit[u].kind # "language" /\ edit[u].key = Main
          /\ \A l \in Langs : version[l].there => edit[f].to \notin {l, "none"}
      BY <2>1, <2>5, <3>1 DEF LanguagesFit
    <3>3. \A l \in Langs : version'[l] = version[l]
      BY <3>2, KeysAre
    <3> QED BY <1>1, <3>1, <3>2, <3>3 DEF EditKinds
  <2> QED BY <2>3, <2>4, <2>5 DEF LanguagesFit
<1>5. /\ \A u \in Editors : edit'[u].pc \in {"check", "put", "discardSource"} => edit'[u].kind \in EditKinds
      /\ \A u \in Editors : edit'[u].pc = "write" => edit'[u].kind # "none"
  BY <1>1 DEF VersionsInv, EditKinds
<1> QED BY <1>2, <1>3, <1>4, <1>5 DEF VersionsInv

\* A version that is edited, by the one edit that is at work on it.
LEMMA EditedOnce ==
  ASSUME VersionsInv, NEW e \in Editors, edit[e].pc # "idle", edit[e].kind # "language",
         edit[e].key \notin mixed
  PROVE  VersionFits(edit[e].key) /\ EditFits(e, edit[e].key)
BY DEF VersionsInv, VersionTypes, Edit, VersionFits, EditsVersion

\* What an edit leaves of a version it worked on alone.
LEMMA EditEnds ==
  ASSUME VersionsInv, NEW e \in Editors, NEW k, k = edit[e].key, k \notin mixed,
         edit[e].pc # "idle", edit[e].kind # "language",
         edit' = [edit EXCEPT ![e] = NoEdit], UNCHANGED <<copy, sign>>,
         NEW v, v = version'[k], v = version[k] \/ edit[e].pc # "check",
         v.fields \in {0, v.pages}, v.pages # 0 => v.pdf # 0,
         v.pdf # 0 => v.pages = PageSizes(v.pdf) /\ object'[k] = v.pdf
  PROVE  VersionFits(k)'
<1>1. VersionFits(k) /\ EditFits(e, k)
  BY EditedOnce
<1>2. edit'[e].pc = "idle" /\ \A u \in Editors \ {e} : edit'[u] = edit[u]
  BY NoEditIs DEF VersionsInv, VersionTypes
<1>3. \A u \in Editors : ~EditsVersion(u, k)'
  BY <1>1, <1>2 DEF EditFits, EditsVersion
<1>4. \A s \in Signers : ~SignsVersion(s, k)'
  BY <1>1 DEF EditFits, SignsVersion
<1>5. copy'.key = k => version'[k] = version[k]
  BY <1>1 DEF EditFits
<1> QED BY <1>1, <1>3, <1>4, <1>5 DEF VersionFits

LEMMA CheckEditFits ==
  ASSUME VersionsInv, NEW e \in Editors, CheckEdit(e)
  PROVE  VersionsInv'
<1> PICK k, o : k = edit[e].key /\ o = edit[e]
  OBVIOUS
<1>1. /\ o.pc = "check" /\ o \in Edit /\ o.kind \in EditKinds /\ k \in Keys
      /\ UNCHANGED <<lang, version, object, copy, sign, mixed, clash>>
  BY DEF CheckEdit, VersionsInv, VersionTypes, Edit, versionRows, signing, history
<1>2. CASE IsCompleted
  <2>1. edit' = [edit EXCEPT ![e] = NoEdit]
    BY <1>2 DEF CheckEdit, Refused, Locked, EndEdit, To
  <2>2. k \in mixed \/ VersionFits(k)'
    <3> SUFFICES ASSUME k \notin mixed PROVE VersionFits(k)'
      OBVIOUS
    <3>1. VersionFits(k) /\ EditFits(e, k)
      BY <1>1, EditedOnce DEF EditKinds
    <3> PICK v : v = version[k]
      OBVIOUS
    <3>2. v.fields \in {0, v.pages} /\ (v.pages # 0 => v.pdf # 0) /\ (v.pdf # 0 => v.pages = PageSizes(v.pdf))
      BY <3>1 DEF VersionFits
    <3>3. v.pdf # 0 => object'[k] = v.pdf
      BY <1>1, <1>2, <3>1 DEF EditFits
    <3>4. o.kind # "language" /\ version'[k] = v
      BY <1>1 DEF EditKinds
    <3> QED BY <1>1, <2>1, <3>2, <3>3, <3>4, EditEnds
  <2> QED BY <1>1, <2>1, <2>2, NoEditIs, EditMoves DEF VersionsInv, VersionTypes
<1>3. CASE ~IsCompleted
  <2> PICK pc : pc = IF o.kind = "source" THEN "put" ELSE "write"
    OBVIOUS
  <2> PICK n : n = [o EXCEPT !.pc = pc]
    OBVIOUS
  <2>1. /\ n \in Edit /\ n.pc = pc /\ n.key = k /\ n.kind = o.kind /\ n.before = o.before
        /\ edit' = [edit EXCEPT ![e] = n]
    BY <1>1, <1>3 DEF CheckEdit, Refused, Locked, Step, To, Edit
  <2>2. k \in mixed \/ VersionFits(k)'
    <3> SUFFICES ASSUME k \notin mixed PROVE VersionFits(k)'
      OBVIOUS
    <3>1. VersionFits(k) /\ EditFits(e, k)
      BY <1>1, EditedOnce DEF EditKinds
    <3>2. edit'[e] = n /\ \A u \in Editors \ {e} : edit'[u] = edit[u]
      BY <2>1 DEF VersionsInv, VersionTypes
    <3>3. \A u \in Editors : EditsVersion(u, k)' => u = e
      BY <3>1, <3>2 DEF EditFits, EditsVersion
    <3>4. \A s \in Signers : ~SignsVersion(s, k)'
      BY <1>1, <3>1 DEF EditFits, SignsVersion
    <3>5. copy.key # k
      BY <1>1, <1>3, KeysAre DEF IsCompleted, NoCopy, VersionsInv, VersionTypes
    <3>6. EditFits(e, k)'
      BY <1>1, <2>1, <3>1, <3>2, <3>3, <3>4, <3>5 DEF EditFits
    <3>7. EditsVersion(e, k)'
      BY <1>1, <2>1, <3>2 DEF EditsVersion, EditKinds
    <3> QED BY <1>1, <3>1, <3>3, <3>4, <3>5, <3>6, <3>7 DEF VersionFits
  <2> QED BY <1>1, <2>1, <2>2, EditMoves DEF VersionsInv, VersionTypes
<1> QED BY <1>2, <1>3

LEMMA PutFits ==
  ASSUME VersionsInv, NEW e \in Editors, Put(e)
  PROVE  VersionsInv'
<1> PICK k, o : k = edit[e].key /\ o = edit[e]
  OBVIOUS
<1>1. /\ o.pc = "put" /\ o \in Edit /\ o.kind \in EditKinds /\ k \in Keys
      /\ UNCHANGED <<lang, version, copy, sign, mixed, clash>>
  BY DEF Put, VersionsInv, VersionTypes, Edit, versionRows, signing, history
<1>2. CASE edit' = [edit EXCEPT ![e] = NoEdit] /\ UNCHANGED object
  <2>1. k \in mixed \/ VersionFits(k)'
    <3> SUFFICES ASSUME k \notin mixed PROVE VersionFits(k)'
      OBVIOUS
    <3>1. VersionFits(k) /\ EditFits(e, k)
      BY <1>1, EditedOnce DEF EditKinds
    <3> PICK v : v = version[k]
      OBVIOUS
    <3>2. v.fields \in {0, v.pages} /\ (v.pages # 0 => v.pdf # 0) /\ (v.pdf # 0 => v.pages = PageSizes(v.pdf))
      BY <3>1 DEF VersionFits
    <3>3. v.pdf # 0 => object'[k] = v.pdf
      BY <1>1, <1>2, <3>1 DEF EditFits
    <3>4. o.kind # "language" /\ version'[k] = v
      BY <1>1 DEF EditKinds
    <3> QED BY <1>1, <1>2, <3>2, <3>3, <3>4, EditEnds
  <2> QED BY <1>1, <1>2, <2>1, NoEditIs, EditMoves DEF VersionsInv, VersionTypes
<1>3. ASSUME NEW pdf \in Files, object' = [object EXCEPT ![k] = pdf],
             edit' = [edit EXCEPT ![e] = [o EXCEPT !.pc = "write", !.pdf = pdf]]
      PROVE  VersionsInv'
  <2> PICK n : n = [o EXCEPT !.pc = "write", !.pdf = pdf]
    OBVIOUS
  <2>1. /\ n \in Edit /\ n.pc = "write" /\ n.key = k /\ n.kind = o.kind /\ n.before = o.before
        /\ n.pdf = pdf /\ edit' = [edit EXCEPT ![e] = n]
    <3>1. pdf \in 0..3
      BY DEF Files
    <3>2. n \in Edit /\ n.pc = "write" /\ n.key = k /\ n.kind = o.kind /\ n.before = o.before /\ n.pdf = pdf
      BY <1>1, <3>1 DEF Edit
    <3> QED BY <1>3, <3>2
  <2>2. object' \in [Keys -> 0..3] /\ object'[k] = pdf /\ \A l \in Keys \ {k} : object'[l] = object[l]
    BY <1>1, <1>3 DEF VersionsInv, VersionTypes, Files
  <2>3. k \in mixed \/ VersionFits(k)'
    <3> SUFFICES ASSUME k \notin mixed PROVE VersionFits(k)'
      OBVIOUS
    <3>1. VersionFits(k) /\ EditFits(e, k)
      BY <1>1, EditedOnce DEF EditKinds
    <3>2. edit'[e] = n /\ \A u \in Editors \ {e} : edit'[u] = edit[u]
      BY <2>1 DEF VersionsInv, VersionTypes
    <3>3. \A u \in Editors : EditsVersion(u, k)' => u = e
      BY <3>1, <3>2 DEF EditFits, EditsVersion
    <3>4. \A s \in Signers : ~SignsVersion(s, k)'
      BY <1>1, <3>1 DEF EditFits, SignsVersion
    <3> pdf # 0 /\ o.kind = "source" /\ o.before = version[k] /\ copy.key # k
      BY <1>1, <3>1 DEF EditFits, Files
    <3>5. EditFits(e, k)'
      BY <1>1, <2>1, <2>2, <3>2, <3>3, <3>4 DEF EditFits
    <3>6. EditsVersion(e, k)'
      BY <1>1, <2>1, <3>2 DEF EditsVersion, EditKinds
    <3>7. copy'.key # k
      BY <1>1, <3>1 DEF EditFits
    <3> QED BY <1>1, <3>1, <3>3, <3>4, <3>5, <3>6, <3>7 DEF VersionFits
  <2> QED BY <1>1, <2>1, <2>2, <2>3, EditMoves DEF VersionsInv, VersionTypes
<1> QED BY <1>2, <1>3, <1>1 DEF Put, EndEdit, To, Files

\* The row of a version is written by an edit of it.
LEMMA WriteRowFits ==
  ASSUME VersionsInv, NEW e \in Editors, Write(e), edit[e].kind # "language"
  PROVE  VersionsInv'
<1> PICK k, o : k = edit[e].key /\ o = edit[e]
  OBVIOUS
<1>1. /\ o.pc = "write" /\ o \in Edit /\ o.kind \in EditKinds /\ k \in Keys /\ version[k] \in Version
      /\ UNCHANGED <<lang, object, copy, sign, mixed, clash>>
  BY DEF Write, VersionsInv, VersionTypes, Edit, EditKinds, signing, history
<1>2. CASE o.kind = "source"
  <2> PICK v : v = [there |-> TRUE, pdf |-> o.pdf, pages |-> PageSizes(o.pdf),
                    fields |-> IF Clears(o) \/ ~o.before.there THEN 0 ELSE version[k].fields]
    OBVIOUS
  <2>1. version' = [version EXCEPT ![k] = v] /\ edit' = [edit EXCEPT ![e] = NoEdit]
    BY <1>2 DEF Write, EndEdit, To
  <2>2. v \in Version /\ version'[k] = v /\ version' \in [Keys -> Version]
        /\ \A l \in Keys \ {k} : version'[l] = version[l]
    <3>1. o.pdf \in 0..3 /\ PageSizes(o.pdf) \in 0..2 /\ version[k].fields \in 0..2
      BY <1>1, PagesAre DEF Edit, Version
    <3>2. v \in Version
      BY <3>1 DEF Version
    <3> QED BY <1>1, <2>1, <3>2 DEF VersionsInv, VersionTypes
  <2>3. k \in mixed \/ VersionFits(k)'
    <3> SUFFICES ASSUME k \notin mixed PROVE VersionFits(k)'
      OBVIOUS
    <3>1. VersionFits(k) /\ EditFits(e, k)
      BY <1>1, EditedOnce DEF EditKinds
    <3>2. o.before = version[k] /\ object[k] = o.pdf /\ o.pdf # 0 /\ version[k].fields \in {0, version[k].pages}
      BY <1>1, <1>2, <3>1 DEF EditFits, VersionFits
    <3>3. v.fields \in {0, v.pages} /\ v.pdf = o.pdf /\ v.pages = PageSizes(o.pdf)
      BY <3>2 DEF Clears, FieldsCleared
    <3> QED BY <1>1, <1>2, <2>1, <2>2, <3>2, <3>3, EditEnds
  <2> QED BY <1>1, <2>1, <2>2, <2>3, NoEditIs, EditMoves DEF VersionsInv, VersionTypes
<1>3. CASE o.kind = "fields"
  <2> PICK r, n : r = version[k] /\ n = o.before.pages
    OBVIOUS
  <2> PICK v : v = [r EXCEPT !.there = TRUE, !.fields = n]
    OBVIOUS
  <2>1. version' = [version EXCEPT ![k] = v] /\ edit' = [edit EXCEPT ![e] = NoEdit]
    BY <1>3 DEF Write, EndEdit, To
  <2>2. v \in Version /\ version'[k] = v /\ version' \in [Keys -> Version]
        /\ v.pdf = r.pdf /\ v.pages = r.pages /\ v.fields = n
        /\ \A l \in Keys \ {k} : version'[l] = version[l]
    <3>1. r \in Version /\ n \in 0..2
      BY <1>1 DEF Edit, Version
    <3>2. v \in Version /\ v.pdf = r.pdf /\ v.pages = r.pages /\ v.fields = n
      BY <3>1 DEF Version
    <3> QED BY <1>1, <2>1, <3>2 DEF VersionsInv, VersionTypes
  <2>3. k \in mixed \/ VersionFits(k)'
    <3> SUFFICES ASSUME k \notin mixed PROVE VersionFits(k)'
      OBVIOUS
    <3>1. VersionFits(k) /\ EditFits(e, k)
      BY <1>1, EditedOnce DEF EditKinds
    <3>2. n = r.pages /\ (r.pdf # 0 => object[k] = r.pdf /\ r.pages = PageSizes(r.pdf)) /\ (r.pages # 0 => r.pdf # 0)
      BY <1>1, <1>3, <3>1 DEF EditFits, VersionFits
    <3>3. v.fields \in {0, v.pages} /\ (v.pages # 0 => v.pdf # 0)
          /\ (v.pdf # 0 => v.pages = PageSizes(v.pdf) /\ object'[k] = v.pdf)
      BY <1>1, <2>2, <3>2
    <3> QED BY <1>1, <1>3, <2>1, <2>2, <3>3, EditEnds
  <2> QED BY <1>1, <2>1, <2>2, <2>3, NoEditIs, EditMoves DEF VersionsInv, VersionTypes
<1>4. CASE o.kind = "remove"
  <2>1. version' = [version EXCEPT ![k] = Empty]
    BY <1>4 DEF Write
  <2>2. version'[k] = Empty /\ version' \in [Keys -> Version] /\ \A l \in Keys \ {k} : version'[l] = version[l]
    BY <1>1, <2>1, EmptyIs DEF VersionsInv, VersionTypes
  <2>3. CASE edit' = [edit EXCEPT ![e] = NoEdit]
    <3>1. k \in mixed \/ VersionFits(k)'
      BY <1>1, <1>4, <2>2, <2>3, EmptyIs, EditEnds
    <3> QED BY <1>1, <2>2, <2>3, <3>1, NoEditIs, EditMoves DEF VersionsInv, VersionTypes
  <2>4. CASE Step(e, "discardSource")
    <3> PICK n : n = [o EXCEPT !.pc = "discardSource"]
      OBVIOUS
    <3>1. /\ n \in Edit /\ n.pc = "discardSource" /\ n.key = k /\ n.kind = o.kind
          /\ edit' = [edit EXCEPT ![e] = n]
      BY <1>1, <2>4 DEF Step, To, Edit
    <3>2. k \in mixed \/ VersionFits(k)'
      <4> SUFFICES ASSUME k \notin mixed PROVE VersionFits(k)'
        OBVIOUS
      <4>1. VersionFits(k) /\ EditFits(e, k)
        BY <1>1, EditedOnce DEF EditKinds
      <4>2. edit'[e] = n /\ \A u \in Editors \ {e} : edit'[u] = edit[u]
        BY <3>1 DEF VersionsInv, VersionTypes
      <4>3. \A u \in Editors : EditsVersion(u, k)' => u = e
        BY <4>1, <4>2 DEF EditFits, EditsVersion
      <4>4. \A s \in Signers : ~SignsVersion(s, k)'
        BY <1>1, <4>1 DEF EditFits, SignsVersion
      <4>5. copy'.key # k
        BY <1>1, <4>1 DEF EditFits
      <4>6. EditFits(e, k)'
        BY <1>1, <1>4, <2>2, <3>1, <4>1, <4>2, <4>3, <4>4, <4>5, EmptyIs DEF EditFits
      <4>7. EditsVersion(e, k)'
        BY <1>4, <3>1, <4>2 DEF EditsVersion
      <4> QED BY <2>2, <4>3, <4>4, <4>5, <4>6, <4>7, EmptyIs DEF VersionFits
    <3> QED BY <1>1, <2>2, <3>1, <3>2, EditMoves DEF VersionsInv, VersionTypes
  <2> QED BY <1>4, <2>3, <2>4 DEF Write, EndEdit, To
<1> QED BY <1>1, <1>2, <1>3, <1>4 DEF EditKinds

LEMMA DiscardSourceFits ==
  ASSUME VersionsInv, NEW e \in Editors, DiscardSource(e), edit[e].kind \in EditKinds
  PROVE  VersionsInv'
<1> PICK k, o : k = edit[e].key /\ o = edit[e]
  OBVIOUS
<1>1. /\ o.pc = "discardSource" /\ o \in Edit /\ k \in Keys /\ edit' = [edit EXCEPT ![e] = NoEdit]
      /\ UNCHANGED <<lang, version, copy, sign, mixed, clash>>
  BY DEF DiscardSource, EndEdit, To, VersionsInv, VersionTypes, Edit, versionRows, signing, history
<1>2. object' \in [Keys -> 0..3] /\ \A l \in Keys \ {k} : object'[l] = object[l]
  BY <1>1 DEF DiscardSource, VersionsInv, VersionTypes
<1>3. k \in mixed \/ VersionFits(k)'
  <2> SUFFICES ASSUME k \notin mixed PROVE VersionFits(k)'
    OBVIOUS
  <2>1. VersionFits(k) /\ EditFits(e, k)
    BY <1>1, EditedOnce DEF EditKinds
  <2> PICK v : v = version[k]
    OBVIOUS
  <2>2. v.fields \in {0, v.pages} /\ (v.pages # 0 => v.pdf # 0) /\ (v.pdf # 0 => v.pages = PageSizes(v.pdf))
    BY <2>1 DEF VersionFits
  <2>3. v.pdf = 0
    BY <1>1, <2>1 DEF EditFits
  <2>4. o.kind # "language" /\ version'[k] = v
    BY <1>1 DEF EditKinds
  <2> QED BY <1>1, <2>2, <2>3, <2>4, EditEnds
<1> QED BY <1>1, <1>2, <1>3, NoEditIs, EditMoves DEF VersionsInv, VersionTypes

LEMMA EditDiesFits ==
  ASSUME VersionsInv, NEW e \in Editors, EditDies(e), edit[e].kind \in EditKinds
  PROVE  VersionsInv'
<1> PICK k, o : k = edit[e].key /\ o = edit[e]
  OBVIOUS
<1>1. /\ o.pc # "idle" /\ o \in Edit /\ k \in Keys /\ edit' = [edit EXCEPT ![e] = NoEdit]
      /\ UNCHANGED <<lang, version, object, copy, sign, clash>>
      /\ mixed' = IF o.pdf # 0 /\ o.pc = "write" THEN mixed \cup {k} ELSE mixed
  BY DEF EditDies, EndEdit, To, VersionsInv, VersionTypes, Edit, versionRows, signing
<1>2. k \in mixed' \/ VersionFits(k)'
  <2> SUFFICES ASSUME k \notin mixed' PROVE VersionFits(k)'
    OBVIOUS
  <2>1. k \notin mixed /\ VersionFits(k) /\ EditFits(e, k)
    BY <1>1, EditedOnce DEF EditKinds
  <2>2. version[k].pdf # 0 => object[k] = version[k].pdf
    BY <1>1, <2>1 DEF EditFits
  <2> QED BY <1>1, <2>1, <2>2, EditEnds DEF VersionFits, EditKinds
<1> QED BY <1>1, <1>2, NoEditIs, EditMoves DEF VersionsInv, VersionTypes

\* EditsVersion of the source language: no version changes.
LEMMA NoVersionChanges ==
  ASSUME VersionsInv, UNCHANGED <<version, object, copy, sign>>, mixed \subseteq mixed',
         \A u \in Editors : edit'[u] = edit[u] \/ /\ edit[u].pc = "idle" \/ edit[u].kind = "language"
                                                  /\ edit'[u].pc = "idle" \/ edit'[u].kind = "language"
  PROVE  \A k \in Keys \ mixed' : VersionFits(k)'
<1> SUFFICES ASSUME NEW k \in Keys \ mixed' PROVE VersionFits(k)'
  OBVIOUS
<1>1. VersionFits(k)
  BY DEF VersionsInv
<1>2. \A u \in Editors : (EditsVersion(u, k) <=> EditsVersion(u, k)') /\ (EditsVersion(u, k) => edit'[u] = edit[u])
  BY DEF EditsVersion
<1>3. \A s \in Signers : (SignsVersion(s, k) <=> SignsVersion(s, k)') /\ (SignsVersion(s, k) => sign'[s] = sign[s])
  BY DEF SignsVersion
<1> QED BY <1>1, <1>2, <1>3, Elsewhere

LEMMA StartLanguageFits ==
  ASSUME VersionsInv, NEW e \in Editors, NEW to \in Langs \cup {"none"}, StartLanguage(e, to)
  PROVE  VersionsInv'
<1> PICK b : b = NoEdit
  OBVIOUS
<1> PICK o : o = [b EXCEPT !.pc = "write", !.kind = "language", !.to = to]
  OBVIOUS
<1>1. /\ edit[e].pc = "idle" /\ edit' = [edit EXCEPT ![e] = o] /\ MayBecome(to)
      /\ UNCHANGED <<lang, version, object, copy, sign>>
      /\ clash' = (clash \/ LanguageEdits # {} \/ \E l \in Langs : EditsOn(l) # {})
      /\ mixed' = IF SignsOn(Main) # {} THEN mixed \cup {Main} ELSE mixed
  BY DEF StartLanguage, To, versionRows, signing
<1>2. o \in Edit /\ o.pc = "write" /\ o.kind = "language" /\ o.key = Main /\ o.to = to
  BY NoEditIs DEF Edit
<1>3. edit' \in [Editors -> Edit] /\ edit'[e] = o /\ \A u \in Editors \ {e} : edit'[u] = edit[u]
  BY <1>1, <1>2 DEF VersionsInv, VersionTypes
<1>4. VersionTypes'
  BY <1>1, <1>3, KeysAre DEF VersionsInv, VersionTypes
<1>5. \A k \in Keys \ mixed' : VersionFits(k)'
  BY <1>1, <1>2, <1>3, NoVersionChanges
<1>6. ~clash' => LanguagesFit'
  <2> SUFFICES ASSUME ~clash' PROVE LanguagesFit'
    OBVIOUS
  <2>1. LanguagesFit /\ LanguageEdits = {} /\ \A l \in Langs : EditsOn(l) = {}
    BY <1>1 DEF VersionsInv
  <2>2. \A u \in Editors : edit[u].pc # "idle" => edit[u].kind # "language" /\ edit[u].key = Main
    BY <2>1, KeysAre DEF LanguageEdits, EditsOn, VersionsInv, VersionTypes, Edit
  <2>3. \A l \in Langs : version[l].there => to \notin {l, "none"}
    BY <1>1 DEF MayBecome, LanguageFree
  <2> QED BY <1>1, <1>2, <1>3, <2>1, <2>2, <2>3, KeysAre DEF LanguagesFit, EditsVersion
<1>7. /\ \A u \in Editors : edit'[u].pc \in {"check", "put", "discardSource"} => edit'[u].kind \in EditKinds
      /\ \A u \in Editors : edit'[u].pc = "write" => edit'[u].kind # "none"
  BY <1>2, <1>3 DEF VersionsInv
<1> QED BY <1>1, <1>4, <1>5, <1>6, <1>7 DEF VersionsInv

\* The source language is written, or its edit dies.
LEMMA LanguageEnds ==
  ASSUME VersionsInv, NEW e \in Editors, edit[e].pc # "idle", edit[e].kind = "language",
         edit' = [edit EXCEPT ![e] = NoEdit], UNCHANGED <<version, object, copy, sign, clash>>,
         mixed \subseteq mixed', mixed' \subseteq Keys, lang' \in {lang, edit[e].to}
  PROVE  VersionsInv'
<1>1. edit' \in [Editors -> Edit] /\ edit'[e] = NoEdit /\ \A u \in Editors \ {e} : edit'[u] = edit[u]
  BY NoEditIs DEF VersionsInv, VersionTypes
<1>2. VersionTypes'
  BY <1>1 DEF VersionsInv, VersionTypes, Edit
<1>3. \A k \in Keys \ mixed' : VersionFits(k)'
  BY <1>1, NoEditIs, NoVersionChanges
<1>4. ~clash' => LanguagesFit'
  <2> SUFFICES ASSUME ~clash PROVE LanguagesFit'
    OBVIOUS
  <2>1. LanguagesFit
    BY DEF VersionsInv
  <2>2. /\ \A u \in Editors : edit[u].pc # "idle" /\ u # e => edit[u].kind # "language" /\ edit[u].key = Main
        /\ \A l \in Langs : version[l].there => edit[e].to \notin {l, "none"}
    BY <2>1 DEF LanguagesFit
  <2> QED BY <1>1, <2>1, <2>2, NoEditIs, KeysAre DEF LanguagesFit, EditsVersion
<1>5. /\ \A u \in Editors : edit'[u].pc \in {"check", "put", "discardSource"} => edit'[u].kind \in EditKinds
      /\ \A u \in Editors : edit'[u].pc = "write" => edit'[u].kind # "none"
  BY <1>1, NoEditIs DEF VersionsInv
<1> QED BY <1>2, <1>3, <1>4, <1>5 DEF VersionsInv

\* An edit of a version is begun.
LEMMA StartFits ==
  ASSUME VersionsInv, NEW e \in Editors, NEW what \in EditKinds, NEW k \in Keys, Start(e, what, k)
  PROVE  VersionsInv'
<1> PICK b, v : b = NoEdit /\ v = version[k]
  OBVIOUS
<1> PICK o : o = [b EXCEPT !.pc = "check", !.kind = what, !.key = k, !.before = v]
  OBVIOUS
<1>1. /\ edit[e].pc = "idle" /\ edit' = [edit EXCEPT ![e] = o] /\ Editable(k)
      /\ what = "fields" => v.pages # 0
      /\ UNCHANGED <<lang, version, object, copy, sign>>
      /\ clash' = (clash \/ (k # Main /\ LanguageEdits # {}))
      /\ mixed' = IF EditsOn(k) \cup SignsOn(k) # {} THEN mixed \cup {k} ELSE mixed
  BY DEF Start, To, versionRows, signing
<1>2. o \in Edit /\ o.pc = "check" /\ o.kind = what /\ o.key = k /\ o.before = v
  <2>1. v \in Version
    BY DEF VersionsInv, VersionTypes
  <2> QED BY <2>1, NoEditIs DEF Edit
<1>3. edit' \in [Editors -> Edit] /\ edit'[e] = o /\ \A u \in Editors \ {e} : edit'[u] = edit[u]
  BY <1>1, <1>2 DEF VersionsInv, VersionTypes
<1>4. VersionTypes'
  BY <1>1, <1>3 DEF VersionsInv, VersionTypes
<1>5. ASSUME NEW l \in Keys \ mixed' PROVE VersionFits(l)'
  <2>1. VersionFits(l)
    BY <1>1 DEF VersionsInv
  <2>2. CASE l # k
    <3>1. \A u \in Editors : (EditsVersion(u, l) <=> EditsVersion(u, l)') /\ (EditsVersion(u, l) => edit'[u] = edit[u])
      BY <1>1, <1>2, <1>3, <2>2 DEF EditsVersion
    <3>2. \A s \in Signers : (SignsVersion(s, l) <=> SignsVersion(s, l)') /\ (SignsVersion(s, l) => sign'[s] = sign[s])
      BY <1>1 DEF SignsVersion
    <3> QED BY <1>1, <2>1, <3>1, <3>2, Elsewhere
  <2>3. CASE l = k
    <3>1. /\ \A u \in Editors : ~EditsVersion(u, k)
          /\ \A s \in Signers : ~SignsVersion(s, k)'
      BY <1>1, <2>3 DEF EditsOn, SignsOn, EditsVersion, SignsVersion
    <3>2. \A u \in Editors : EditsVersion(u, k)' => u = e
      BY <1>3, <3>1 DEF EditsVersion
    <3>3. v.pdf # 0 => object[k] = v.pdf
      BY <2>1, <2>3, <3>1 DEF VersionFits
    <3>4. EditFits(e, k)'
      BY <1>1, <1>2, <1>3, <3>1, <3>2, <3>3 DEF EditFits
    <3>5. EditsVersion(e, k)'
      BY <1>2, <1>3 DEF EditsVersion, EditKinds
    <3> QED BY <1>1, <2>1, <2>3, <3>1, <3>2, <3>4, <3>5 DEF VersionFits
  <2> QED BY <2>2, <2>3
<1>6. ~clash' => LanguagesFit'
  <2> SUFFICES ASSUME ~clash' PROVE LanguagesFit'
    OBVIOUS
  <2>1. LanguagesFit /\ (k = Main \/ LanguageEdits = {}) /\ (k = Main \/ lang \notin {"none", k})
    BY <1>1 DEF VersionsInv, Editable
  <2>2. \A u \in Editors, l \in Langs : EditsVersion(u, l)' => lang' \notin {l, "none"}
    BY <1>1, <1>2, <1>3, <2>1, KeysAre DEF LanguagesFit, EditsVersion
  <2>3. \A l \in Langs : version'[l].there => lang' \notin {l, "none"}
    BY <1>1, <2>1 DEF LanguagesFit
  <2>4. ASSUME NEW f \in Editors, edit'[f].pc # "idle", edit'[f].kind = "language"
        PROVE  /\ edit'[f].pc = "write"
               /\ \A u \in Editors : edit'[u].pc # "idle" /\ u # f =>
                    edit'[u].kind # "language" /\ edit'[u].key = Main
               /\ \A l \in Langs : version'[l].there => edit'[f].to \notin {l, "none"}
    <3>1. f # e /\ edit'[f] = edit[f]
      BY <1>2, <1>3, <2>4 DEF EditKinds
    <3>2. k = Main
      BY <2>1, <2>4, <3>1 DEF LanguageEdits
    <3> QED BY <1>1, <1>2, <1>3, <2>1, <2>4, <3>1, <3>2 DEF LanguagesFit, EditKinds
  <2> QED BY <2>2, <2>3, <2>4 DEF LanguagesFit
<1>7. /\ \A u \in Editors : edit'[u].pc \in {"check", "put", "discardSource"} => edit'[u].kind \in EditKinds
      /\ \A u \in Editors : edit'[u].pc = "write" => edit'[u].kind # "none"
  BY <1>2, <1>3 DEF VersionsInv
<1> QED BY <1>1, <1>4, <1>5, <1>6, <1>7 DEF VersionsInv

\* A step of a signer leaves the language rules and the edits as they are.
LEMMA SignMoves ==
  ASSUME VersionsInv, UNCHANGED <<lang, version, object, edit, clash>>, mixed \subseteq mixed',
         mixed' \subseteq Keys, copy' \in SignedCopy, sign' \in [Signers -> Signing],
         \A k \in Keys \ mixed' : VersionFits(k)',
         \A s \in Signers : sign'[s] = sign[s] \/ sign'[s].pc # "mark" \/ sign'[s].copy.key = sign'[s].key
  PROVE  VersionsInv'
<1>1. ~clash' => LanguagesFit'
  BY DEF VersionsInv, LanguagesFit, EditsVersion
<1>2. VersionTypes'
  BY DEF VersionsInv, VersionTypes
<1> QED BY <1>1, <1>2 DEF VersionsInv

LEMMA SignVersionFits ==
  ASSUME VersionsInv, NEW s \in Signers, NEW l \in Langs \cup {"none"}, Sign(s, l)
  PROVE  VersionsInv'
<1> PICK k, b : k = VersionFor(l) /\ b = NoSign
  OBVIOUS
<1> PICK v, language : v = version[k] /\ language = IF k = Main THEN lang ELSE k
  OBVIOUS
<1> PICK r : r = [b EXCEPT !.pc = "read", !.key = k, !.read = v, !.language = language]
  OBVIOUS
<1>1. /\ sign[s].pc = "idle" /\ sign' = [sign EXCEPT ![s] = r] /\ ReadyForSigners(v)
      /\ UNCHANGED <<lang, version, object, copy, edit, clash>>
      /\ mixed' = IF EditsOn(k) # {} \/ (k = Main /\ LanguageEdits # {}) THEN mixed \cup {k} ELSE mixed
  BY DEF Sign, versionRows
<1>2. k \in Keys /\ language \in Langs \cup {"none"} /\ (k # Main => language = k)
  BY KeysAre DEF VersionFor, VersionsInv, VersionTypes
<1>3. r \in Signing /\ r.pc = "read" /\ r.key = k /\ r.read = v /\ r.language = language
  <2>1. v \in Version
    BY <1>2 DEF VersionsInv, VersionTypes
  <2> QED BY <1>2, <2>1, NoSignIs DEF Signing
<1>4. sign' \in [Signers -> Signing] /\ sign'[s] = r /\ \A u \in Signers \ {s} : sign'[u] = sign[u]
  BY <1>1, <1>3 DEF VersionsInv, VersionTypes
<1>5. ASSUME NEW m \in Keys \ mixed' PROVE VersionFits(m)'
  <2>1. VersionFits(m)
    BY <1>1 DEF VersionsInv
  <2>2. CASE m # k
    <3>1. \A u \in Editors : (EditsVersion(u, m) <=> EditsVersion(u, m)') /\ (EditsVersion(u, m) => edit'[u] = edit[u])
      BY <1>1 DEF EditsVersion
    <3>2. \A u \in Signers : (SignsVersion(u, m) <=> SignsVersion(u, m)') /\ (SignsVersion(u, m) => sign'[u] = sign[u])
      BY <1>1, <1>3, <1>4, <2>2 DEF SignsVersion
    <3> QED BY <1>1, <2>1, <3>1, <3>2, Elsewhere
  <2>3. CASE m = k
    <3>1. /\ \A u \in Editors : ~EditsVersion(u, k) /\ ~EditsVersion(u, k)'
      BY <1>1, <2>3 DEF EditsOn, EditsVersion
    <3>2. SignFits(s, k)'
      BY <1>1, <1>2, <1>3, <1>4 DEF SignFits, ReadyForSigners
    <3>3. ASSUME NEW u \in Signers, u # s, SignsVersion(u, k)' PROVE SignFits(u, k)'
      <4>1. SignFits(u, k) /\ sign'[u] = sign[u]
        BY <1>4, <2>1, <2>3, <3>3 DEF SignsVersion, VersionFits
      <4> QED BY <1>1, <4>1 DEF SignFits
    <3> QED BY <1>1, <2>1, <2>3, <3>1, <3>2, <3>3 DEF VersionFits
  <2> QED BY <2>2, <2>3
<1> QED BY <1>1, <1>2, <1>3, <1>4, <1>5, SignMoves DEF VersionsInv, VersionTypes

LEMMA StampFits ==
  ASSUME VersionsInv, NEW s \in Signers, Stamp(s)
  PROVE  VersionsInv'
<1> PICK r : r = sign[s]
  OBVIOUS
<1> PICK k : k = r.key
  OBVIOUS
<1> PICK c : c = [key |-> k, language |-> r.language, pdf |-> object[k], fields |-> r.read.fields]
  OBVIOUS
<1> PICK m : m = [r EXCEPT !.pc = "mark", !.copy = c]
  OBVIOUS
<1>1. /\ r.pc = "read" /\ r \in Signing /\ k \in Keys
      /\ UNCHANGED <<lang, version, object, copy, edit, mixed, clash>>
      /\ sign' = [sign EXCEPT ![s] = IF IsCompleted \/ object[k] = 0 THEN NoSign ELSE m]
  BY DEF Stamp, VersionsInv, VersionTypes, Signing, versionRows, history
<1>2. PICK n \in Signing : sign' = [sign EXCEPT ![s] = n] /\ n \in {NoSign, m}
  <2>1. c \in SignedCopy
    BY <1>1 DEF SignedCopy, Signing, Version, VersionsInv, VersionTypes
  <2>2. m \in Signing
    BY <1>1, <2>1 DEF Signing
  <2> QED BY <1>1, <2>2, NoSignIs
<1>3. m.pc = "mark" /\ m.key = k /\ m.copy = c /\ m.read = r.read /\ m.language = r.language
  BY <1>1 DEF Signing
<1>4. sign' \in [Signers -> Signing] /\ sign'[s] = n /\ \A u \in Signers \ {s} : sign'[u] = sign[u]
  BY <1>1, <1>2 DEF VersionsInv, VersionTypes
<1>5. ASSUME NEW l \in Keys \ mixed' PROVE VersionFits(l)'
  <2>1. VersionFits(l)
    BY <1>1 DEF VersionsInv
  <2>2. CASE l # k
    <3>1. \A u \in Editors : (EditsVersion(u, l) <=> EditsVersion(u, l)') /\ (EditsVersion(u, l) => edit'[u] = edit[u])
      BY <1>1 DEF EditsVersion
    <3>2. \A u \in Signers : (SignsVersion(u, l) <=> SignsVersion(u, l)') /\ (SignsVersion(u, l) => sign'[u] = sign[u])
      BY <1>1, <1>2, <1>3, <1>4, <2>2, NoSignIs DEF SignsVersion
    <3> QED BY <1>1, <2>1, <3>1, <3>2, Elsewhere
  <2>3. CASE l = k
    <3>1. SignFits(s, k)
      BY <1>1, <2>1, <2>3 DEF SignsVersion, VersionFits
    <3>2. \A u \in Editors : ~EditsVersion(u, k) /\ ~EditsVersion(u, k)'
      BY <1>1, <2>1, <2>3 DEF VersionFits, EditFits, EditsVersion, SignsVersion
    <3>3. object[k] = version[k].pdf
      BY <2>1, <2>3, <3>1, <3>2 DEF VersionFits, SignFits
    <3> PICK v : v = version[k]
      OBVIOUS
    <3>4. n = m => SignFits(s, k)'
      <4>1. /\ r.read = v /\ v.pdf # 0 /\ v.fields # 0 /\ object[k] = v.pdf /\ version'[k] = v
            /\ k # Main => m.language = k
        BY <1>1, <1>3, <3>1, <3>3 DEF SignFits
      <4>2. c = [key |-> k, language |-> m.language, pdf |-> v.pdf, fields |-> v.fields]
        BY <1>3, <4>1
      <4> QED BY <1>3, <1>4, <4>1, <4>2 DEF SignFits
    <3>5. SignsVersion(s, k)' => n = m
      BY <1>2, <1>4, NoSignIs DEF SignsVersion
    <3>6. ASSUME NEW u \in Signers, u # s, SignsVersion(u, k)' PROVE SignFits(u, k)'
      <4>1. SignFits(u, k) /\ sign'[u] = sign[u]
        BY <1>4, <2>1, <2>3, <3>6 DEF SignsVersion, VersionFits
      <4> QED BY <1>1, <4>1 DEF SignFits
    <3> QED BY <1>1, <2>1, <2>3, <3>2, <3>4, <3>5, <3>6 DEF VersionFits
  <2> QED BY <2>2, <2>3
<1>6. \A u \in Signers : sign'[u] = sign[u] \/ sign'[u].pc # "mark" \/ sign'[u].copy.key = sign'[u].key
  <2>1. c.key = k /\ (n.pc # "mark" \/ n = m)
    BY <1>2, NoSignIs
  <2> SUFFICES ASSUME NEW u \in Signers PROVE sign'[u] = sign[u] \/ sign'[u].pc # "mark" \/ sign'[u].copy.key = sign'[u].key
    OBVIOUS
  <2>2. CASE u = s
    <3>1. sign'[u] = n
      BY <1>4, <2>2
    <3> QED BY <1>3, <2>1, <3>1
  <2>3. CASE u # s
    BY <1>4, <2>3
  <2> QED BY <2>2, <2>3
<1> QED BY <1>1, <1>4, <1>5, <1>6, SignMoves DEF VersionsInv, VersionTypes

LEMMA MarkFits ==
  ASSUME VersionsInv, NEW s \in Signers, Mark(s)
  PROVE  VersionsInv'
<1> PICK r, n : r = sign[s] /\ n = NoSign
  OBVIOUS
<1> PICK k : k = r.key
  OBVIOUS
<1>1. /\ r.pc = "mark" /\ r \in Signing /\ k \in Keys /\ r.copy \in SignedCopy
      /\ UNCHANGED <<lang, version, object, edit, mixed, clash>>
      /\ copy' = IF IsCompleted THEN copy ELSE r.copy
      /\ sign' = [sign EXCEPT ![s] = n]
  BY DEF Mark, VersionsInv, VersionTypes, Signing, versionRows, history
<1>2. sign' \in [Signers -> Signing] /\ sign'[s] = n /\ n.pc = "idle" /\ \A u \in Signers \ {s} : sign'[u] = sign[u]
  BY <1>1, NoSignIs DEF VersionsInv, VersionTypes
<1>3. /\ copy' \in SignedCopy /\ copy \in SignedCopy
      /\ copy' = copy \/ (copy' = r.copy /\ copy.key = "none")
      /\ r.copy.key = k
  BY <1>1 DEF IsCompleted, NoCopy, VersionsInv, VersionTypes
<1>4. ASSUME NEW l \in Keys \ mixed' PROVE VersionFits(l)'
  <2>1. VersionFits(l) /\ l # "none"
    BY <1>1, KeysAre DEF VersionsInv
  <2>2. CASE l # k
    <3>1. \A u \in Editors : (EditsVersion(u, l) <=> EditsVersion(u, l)') /\ (EditsVersion(u, l) => edit'[u] = edit[u])
      BY <1>1 DEF EditsVersion
    <3>2. \A u \in Signers : (SignsVersion(u, l) <=> SignsVersion(u, l)') /\ (SignsVersion(u, l) => sign'[u] = sign[u])
      BY <1>1, <1>2, <2>2 DEF SignsVersion
    <3>3. copy' = copy \/ (copy'.key # l /\ copy.key # l)
      BY <1>3, <2>1, <2>2
    <3> QED BY <1>1, <2>1, <3>1, <3>2, <3>3, Elsewhere
  <2>3. CASE l = k
    <3>1. SignFits(s, k)
      BY <1>1, <2>1, <2>3 DEF SignsVersion, VersionFits
    <3>2. \A u \in Editors : ~EditsVersion(u, k) /\ ~EditsVersion(u, k)'
      BY <1>1, <2>1, <2>3 DEF VersionFits, EditFits, EditsVersion, SignsVersion
    <3> PICK v, language : v = version[k] /\ language = r.language
      OBVIOUS
    <3>3. /\ v.fields \in {0, v.pages} /\ v.fields # 0 /\ (k # Main => language = k)
          /\ r.copy = [key |-> k, language |-> language, pdf |-> v.pdf, fields |-> v.fields]
      BY <1>1, <2>1, <2>3, <3>1 DEF VersionFits, SignFits
    <3>4. /\ r.copy.pdf = v.pdf /\ r.copy.fields = v.fields /\ r.copy.fields = v.pages
          /\ k # Main => r.copy.language = k
      BY <3>3
    <3>5. copy'.key = k => /\ v.pdf = copy'.pdf /\ v.fields = copy'.fields /\ v.pages = copy'.fields
                           /\ k # Main => copy'.language = k
      BY <1>3, <2>1, <2>3, <3>4 DEF VersionFits
    <3>6. ASSUME NEW u \in Signers, SignsVersion(u, k)' PROVE SignFits(u, k)'
      <4>1. u # s /\ SignFits(u, k) /\ sign'[u] = sign[u]
        BY <1>2, <2>1, <2>3, <3>6 DEF SignsVersion, VersionFits
      <4> QED BY <1>1, <4>1 DEF SignFits
    <3> QED BY <1>1, <2>1, <2>3, <3>2, <3>5, <3>6 DEF VersionFits
  <2> QED BY <2>2, <2>3
<1>5. \A u \in Signers : sign'[u] = sign[u] \/ sign'[u].pc # "mark" \/ sign'[u].copy.key = sign'[u].key
  BY <1>2
<1> QED BY <1>1, <1>2, <1>3, <1>4, <1>5, SignMoves DEF VersionsInv, VersionTypes

LEMMA VersionsStep == VersionsInv /\ [VersionsNext]_versionVars => VersionsInv'
<1> SUFFICES ASSUME VersionsInv, [VersionsNext]_versionVars PROVE VersionsInv'
  OBVIOUS
<1>1. CASE UNCHANGED versionVars
  <2>1. UNCHANGED <<lang, version, object, copy, edit, sign, mixed, clash>>
    BY <1>1 DEF versionVars
  <2> QED BY <2>1, SignMoves, NoVersionChanges DEF VersionsInv, VersionTypes
<1>2. ASSUME NEW e \in Editors,
             \/ CheckEdit(e) \/ Put(e) \/ Write(e) \/ DiscardSource(e) \/ EditDies(e)
             \/ \E to \in Langs \cup {"none"} : StartLanguage(e, to)
             \/ \E what \in EditKinds, k \in Keys : Start(e, what, k)
      PROVE  VersionsInv'
  <2>1. /\ edit[e].pc \in {"check", "put", "discardSource"} => edit[e].kind \in EditKinds
        /\ edit[e].pc = "write" => edit[e].kind # "none"
        /\ edit[e].kind \in {"none", "language"} \cup EditKinds
        /\ edit[e].pc \in {"idle", "check", "put", "write", "discardSource"}
    BY DEF VersionsInv, VersionTypes, Edit
  <2>2. CASE Write(e)
    <3>1. CASE edit[e].kind = "language"
      <4>1. /\ edit[e].pc = "write" /\ edit' = [edit EXCEPT ![e] = NoEdit] /\ lang' = edit[e].to
            /\ UNCHANGED <<version, object, copy, sign, mixed, clash>>
        BY <2>2, <3>1 DEF Write, EndEdit, To, signing, history
      <4> QED BY <3>1, <4>1, LanguageEnds DEF VersionsInv, VersionTypes
    <3>2. CASE edit[e].kind # "language"
      BY <2>2, <3>2, WriteRowFits
    <3> QED BY <3>1, <3>2
  <2>3. CASE EditDies(e)
    <3>1. CASE edit[e].kind = "language"
      <4>1. /\ edit[e].pc # "idle" /\ edit' = [edit EXCEPT ![e] = NoEdit]
            /\ UNCHANGED <<lang, version, object, copy, sign, clash>>
            /\ mixed' \in {mixed, mixed \cup {edit[e].key}} /\ edit[e].key \in Keys
        BY <2>3 DEF EditDies, EndEdit, To, versionRows, signing, VersionsInv, VersionTypes, Edit
      <4>2. mixed \subseteq mixed' /\ mixed' \subseteq Keys
        BY <4>1 DEF VersionsInv, VersionTypes
      <4> QED BY <3>1, <4>1, <4>2, LanguageEnds
    <3>2. CASE edit[e].kind # "language"
      <4>1. edit[e].kind \in EditKinds
        BY <2>1, <2>3, <3>2 DEF EditDies
      <4> QED BY <2>3, <4>1, EditDiesFits
    <3> QED BY <3>1, <3>2
  <2>4. CASE DiscardSource(e)
    BY <2>1, <2>4, DiscardSourceFits DEF DiscardSource
  <2> QED BY <1>2, <2>2, <2>3, <2>4, CheckEditFits, PutFits, StartLanguageFits, StartFits
<1>3. ASSUME NEW s \in Signers, Stamp(s) \/ Mark(s) \/ \E l \in Langs \cup {"none"} : Sign(s, l)
      PROVE  VersionsInv'
  BY <1>3, StampFits, MarkFits, SignVersionFits
<1> QED BY <1>1, <1>2, <1>3 DEF VersionsNext, EditKinds

LEMMA VersionsHold == VersionsInv => VersionsStandApart
<1> SUFFICES ASSUME VersionsInv PROVE VersionsStandApart
  OBVIOUS
<1>1. ASSUME NEW k \in Keys \ mixed
      PROVE  /\ version[k].fields \in {0, version[k].pages}
             /\ version[k].pdf # 0 /\ EditsOn(k) = {} => object[k] = version[k].pdf
             /\ copy.key = k =>
                  /\ version[k].pdf = copy.pdf /\ version[k].fields = copy.fields
                  /\ version[k].pages = copy.fields
                  /\ copy.language = (IF k = Main THEN copy.language ELSE k)
  <2>1. VersionFits(k)
    BY DEF VersionsInv
  <2>2. EditsOn(k) = {} => \A e \in Editors : ~EditsVersion(e, k)
    BY DEF EditsOn, EditsVersion
  <2> QED BY <2>1, <2>2 DEF VersionFits
<1>2. ~clash => \A l \in Langs : version[l].there => lang \notin {l, "none"}
  BY DEF VersionsInv, LanguagesFit
<1> QED BY <1>1, <1>2 DEF VersionsStandApart

THEOREM VersionsApart == VersionsSpec => []VersionsStandApart
<1>1. VersionsInv => VersionsStandApart
  BY VersionsHold
<1> QED BY <1>1, InitVersions, VersionsStep, PTL DEF VersionsSpec

-----------------------------------------------------------------------------
(***************************************************************************)
(* CertificationUploads, for any uploads, requests, passes, windows and    *)
(* bounds.  A file of an upload is dropped only when the upload is already *)
(* recorded under another file or rejected, and what is rejected stays so  *)
(* (RequestFits).  For the stamps, an email that is about to go out is     *)
(* later than what the stamp it replaced was for (PassFits), and nothing   *)
(* went out that is later than what is recorded, or was when the email     *)
(* under way was claimed (StampsFit).                                      *)
(***************************************************************************)

Mailed == {"expiring", "expired"}
Reminder == [day: Dates \cup {0}, by: Passes \cup {"nobody"}]
UploadRow == [status: Statuses \cup {"none"}, sha: {"none", "x", "y"}, until: Dates \cup {0},
              sent: Reminder, order: Nat, rev: Nat]
CertRequest == [pc: {"idle", "intent", "read", "put", "insert", "winner", "clean", "review", "delete"},
                u: Uploads, until: Dates \cup {0}, status: Statuses \cup {"none"},
                bytes: {"none", "x", "y"}, same: BOOLEAN]
Listed == [u: Uploads, stage: Mailed, sent: Reminder, rev: Nat]
MailPass == [pc: {"idle", "list", "keys", "next", "send", "undo"}, day: Dates \cup {0},
             due: SUBSET Listed, at: Listed \cup {NoPass.at}]

CertTypes ==
  /\ date \in Dates /\ onProfile \in BOOLEAN /\ files \subseteq Uploads \X {"x", "y"}
  /\ certUpload \in [Uploads -> UploadRow]
  /\ intent \in [Uploads -> Dates \cup {0}] /\ staging \in [Uploads -> {"none", "x", "y", "bad"}]
  /\ request \in [Requests -> CertRequest] /\ pass \in [Passes -> MailPass]
  /\ told \subseteq Uploads \X Mailed \X Nat \X {1, 2}

\* An upload gets its place when it is recorded, behind those that are.
Recorded == {v \in Uploads : certUpload[v].status # "none"}
OrdersFit ==
  /\ \A u \in Uploads : IF u \in Recorded THEN certUpload[u].order \in 1 .. Cardinality(Recorded)
                        ELSE certUpload[u] = NoUpload
  /\ \A u, v \in Recorded : certUpload[u].order = certUpload[v].order => u = v

\* The file a confirm has put is kept until the upload is recorded; what is rejected stays so.
RequestFits(r) ==
  /\ r.pc = "insert" /\ r.u \notin Recorded => <<r.u, r.bytes>> \in files
  /\ r.pc \in {"put", "insert"} => r.bytes # "none"
  /\ r.pc \in {"winner", "review"} => r.u \in Recorded
  /\ r.pc = "review" => r.status # "none"
  /\ r.pc = "delete" => certUpload[r.u].status = "rejected"
RequestsFit == \A s \in Requests : RequestFits(request[s])

\* An email that is listed is that of the day, and later than the one its stamp was for.
Level(stage) == IF stage = "none" THEN 0 ELSE IF stage = "expiring" THEN 1 ELSE 2
DueFits(d) ==
  /\ d.rev = certUpload[d.u].rev
  /\ d.stage = SentFor([day |-> date, by |-> "nobody"], certUpload[d.u].until)
  /\ Level(SentFor(d.sent, certUpload[d.u].until)) < Level(d.stage)
ListedFits(d) == d.u \in Recorded /\ (d.u \notin excused => DueFits(d))
PassFits(p, r) ==
  /\ r.pc = "idle" => r = NoPass
  /\ r.pc # "idle" => r.day = date
  /\ r.pc = "list" => r.due = {}
  /\ \A d \in r.due : ListedFits(d)
  /\ IF r.pc \in {"send", "undo"}
     THEN /\ r.at \in Listed /\ ListedFits(r.at)
          /\ r.at.u \notin excused => certUpload[r.at.u].sent = [day |-> date, by |-> p]
     ELSE r.at = NoPass.at
PassesFit == \A p \in Passes : PassFits(p, pass[p])

\* The last email that was told of an upload is the one a stamp is for.
ToldAs(u, sent) ==
  LET stage == SentFor(sent, certUpload[u].until) IN
  /\ \A mail \in told : mail[1] = u /\ mail[3] = certUpload[u].rev => Level(mail[2]) <= Level(stage)
  /\ stage = "none" \/ <<u, stage, certUpload[u].rev, 1>> \in told
StampsFit ==
  /\ \A mail \in told : mail[1] \in Recorded
  /\ \A u \in Uploads \ excused :
       /\ \A mail \in told : mail[1] = u => mail[4] = 1 /\ mail[3] <= certUpload[u].rev
       /\ \A p \in Passes : pass[p].at.u = u => ToldAs(u, pass[p].at.sent)
       /\ ~Sending(u) => ToldAs(u, certUpload[u].sent)

CertInv ==
  CertTypes /\ OrdersFit /\ RequestsFit /\ PassesFit /\ StampsFit /\ FileKept

-----------------------------------------------------------------------------

LEMMA StageIs ==
  ASSUME NEW sent \in Reminder, NEW until \in Dates \cup {0}
  PROVE  SentFor(sent, until) \in {"none", "expiring", "expired"}
BY DEF SentFor

LEMMA LevelIs ==
  ASSUME NEW stage \in {"none", "expiring", "expired"}
  PROVE  Level(stage) \in 0 .. 2 /\ (Level(stage) = 0 <=> stage = "none")
BY DEF Level

LEMMA LevelsApart ==
  ASSUME NEW a \in {"none", "expiring", "expired"}, NEW b \in {"none", "expiring", "expired"},
         Level(a) = Level(b)
  PROVE  a = b
BY DEF Level

\* What is due is the email of the day, and later than the one that was sent.
LEMMA DueIs ==
  ASSUME NEW row \in UploadRow, NEW day \in Dates, DueOn(row, day) # "none"
  PROVE  /\ DueOn(row, day) \in Mailed
         /\ DueOn(row, day) = SentFor([day |-> day, by |-> "nobody"], row.until)
         /\ Level(SentFor(row.sent, row.until)) < Level(DueOn(row, day))
         /\ row.status # "none"
<1> USE CertBounds
<1>1. row.status \in {"pending", "approved"} /\ row.until \in Int /\ day \in Nat \ {0} /\ row.sent \in Reminder
  BY DEF DueOn, UploadRow, Dates
<1>2. SentFor(row.sent, row.until) \in {"none", "expiring", "expired"}
  BY StageIs DEF UploadRow
<1>3. CASE day > row.until
  <2>1. DueOn(row, day) = "expired" /\ SentFor(row.sent, row.until) # "expired"
    BY <1>1, <1>3 DEF DueOn
  <2>2. SentFor([day |-> day, by |-> "nobody"], row.until) = "expired"
    BY <1>1, <1>3 DEF SentFor
  <2> QED BY <1>1, <1>2, <2>1, <2>2 DEF Level, Mailed
<1>4. CASE ~(day > row.until)
  <2>1. DueOn(row, day) = "expiring" /\ SentFor(row.sent, row.until) = "none" /\ row.until <= day + Window
    BY <1>1, <1>4 DEF DueOn
  <2>2. SentFor([day |-> day, by |-> "nobody"], row.until) = "expiring"
    BY <1>1, <1>4, <2>1 DEF SentFor
  <2> QED BY <1>1, <1>2, <2>1, <2>2 DEF Level, Mailed
<1> QED BY <1>3, <1>4

\* Whoever sends an email is the only one to: the stamp of the upload is its own.
LEMMA OneSender ==
  ASSUME CertInv, NEW p \in Passes, NEW q \in Passes, NEW u \in Uploads \ excused,
         pass[p].at.u = u, pass[q].at.u = u
  PROVE  p = q
<1>1. \A t \in Passes : pass[t].at.u = u => certUpload[u].sent = [day |-> date, by |-> t]
  <2> SUFFICES ASSUME NEW t \in Passes, pass[t].at.u = u
               PROVE  certUpload[u].sent = [day |-> date, by |-> t]
    OBVIOUS
  <2>1. pass[t].at # NoPass.at
    BY CertBounds DEF NoPass
  <2> QED BY <2>1 DEF CertInv, PassesFit, PassFits
<1>2. [day |-> date, by |-> p] = [day |-> date, by |-> q]
  BY <1>1
<1>3. [day |-> date, by |-> p].by = p /\ [day |-> date, by |-> q].by = q
  OBVIOUS
<1> QED BY <1>2, <1>3

LEMMA CertInitHolds == CertInit => CertInv
<1> SUFFICES ASSUME CertInit PROVE CertInv
  OBVIOUS
<1> USE CertBounds
<1>1. CertTypes
  <2>1. NoUpload \in UploadRow /\ [NoUpload EXCEPT !.status = "pending", !.sha = "x", !.until = 1, !.order = 1] \in UploadRow
    <3>1. 1 \in Dates /\ NotSent \in Reminder
      BY DEF NotSent, Reminder, Dates
    <3> QED BY <3>1 DEF NoUpload, UploadRow, Statuses
  <2>2. NoRequest \in CertRequest /\ NoPass \in MailPass
    BY DEF NoRequest, CertRequest, NoPass, MailPass
  <2>3. certUpload \in [Uploads -> UploadRow] /\ intent \in [Uploads -> Dates \cup {0}]
        /\ staging \in [Uploads -> {"none", "x", "y", "bad"}] /\ date \in Dates
    BY <2>1 DEF CertInit, Dates
  <2> QED BY <2>2, <2>3 DEF CertInit, CertTypes
<1>2. Recorded = {1}
  BY DEF CertInit, Recorded, NoUpload
<1>3. OrdersFit
  <2>1. Cardinality(Recorded) = 1
    BY <1>2, FS_Singleton
  <2>2. certUpload[1].order = 1 /\ \A u \in Uploads \ {1} : certUpload[u] = NoUpload
    BY DEF CertInit, NoUpload
  <2>3. \A u \in Uploads : u \in Recorded <=> u = 1
    BY <1>2
  <2> QED BY <1>2, <2>1, <2>2, <2>3 DEF OrdersFit
<1>4. RequestsFit
  BY DEF CertInit, RequestsFit, RequestFits, NoRequest
<1>5. PassesFit
  BY DEF CertInit, PassesFit, PassFits, NoPass
<1>6. StampsFit
  <2>1. \A u \in Uploads : certUpload[u].sent = NotSent
    BY DEF CertInit, NoUpload
  <2>2. \A u \in Uploads : ToldAs(u, NotSent)
    BY DEF CertInit, ToldAs, SentFor, NotSent
  <2>3. \A p \in Passes, u \in Uploads : pass[p].at.u # u
    BY DEF CertInit, NoPass
  <2> QED BY <2>1, <2>2, <2>3 DEF CertInit, StampsFit
<1>7. FileKept
  BY DEF FileKept, CertInit, NoUpload
<1> QED BY <1>1, <1>3, <1>4, <1>5, <1>6, <1>7 DEF CertInv

-----------------------------------------------------------------------------
(* Confirms and reviews, before they write.                                 *)

\* A step of a request that records nothing and drops no file that counts.
LEMMA RequestTo ==
  ASSUME CertInv, NEW s \in Requests, NEW r \in CertRequest, ToRequest(s, r),
         UNCHANGED <<date, certUpload, pass, told, excused>>, onProfile' \in BOOLEAN,
         intent' \in [Uploads -> Dates \cup {0}], staging' \in [Uploads -> {"none", "x", "y", "bad"}],
         files' \subseteq Uploads \X {"x", "y"}, RequestFits(r)',
         \A u \in Uploads, b \in {"x", "y"} :
           <<u, b>> \in files =>
             \/ <<u, b>> \in files'
             \/ u \in Recorded /\ (certUpload[u].sha = b => certUpload[u].status = "rejected")
  PROVE  CertInv'
<1>1. Recorded' = Recorded
  BY DEF Recorded
<1>2. CertTypes'
  BY DEF CertInv, CertTypes, ToRequest
<1>3. OrdersFit'
  BY <1>1 DEF CertInv, OrdersFit
<1>4. RequestsFit'
  <2> SUFFICES ASSUME NEW q \in Requests PROVE RequestFits(request[q])'
    BY DEF RequestsFit
  <2>1. CASE q = s
    <3>1. request'[q] = r
      BY <2>1 DEF CertInv, CertTypes, ToRequest
    <3> QED BY <3>1 DEF RequestFits
  <2>2. CASE q # s
    <3>1. request'[q] = request[q] /\ request[q] \in CertRequest /\ RequestFits(request[q])
      BY <2>2 DEF CertInv, CertTypes, RequestsFit, ToRequest
    <3>2. PICK o : o = request[q]
      OBVIOUS
    <3>3. o.pc = "insert" /\ o.u \notin Recorded => <<o.u, o.bytes>> \in files'
      BY <3>1, <3>2 DEF RequestFits, CertRequest
    <3> QED BY <1>1, <3>1, <3>2, <3>3 DEF RequestFits
  <2> QED BY <2>1, <2>2
<1>5. PassesFit'
  BY <1>1 DEF CertInv, PassesFit, PassFits, ListedFits, DueFits
<1>6. StampsFit'
  BY <1>1 DEF CertInv, StampsFit, ToldAs, Sending
<1>7. FileKept'
  <2> SUFFICES ASSUME NEW u \in Uploads, certUpload[u].status \in {"pending", "approved"}
               PROVE  <<u, certUpload[u].sha>> \in files'
    BY DEF FileKept
  <2>1. <<u, certUpload[u].sha>> \in files
    BY DEF CertInv, FileKept
  <2>2. certUpload[u].sha \in {"x", "y"}
    BY <2>1 DEF CertInv, CertTypes
  <2> QED BY <2>1, <2>2
<1> QED BY <1>2, <1>3, <1>4, <1>5, <1>6, <1>7 DEF CertInv

\* What touches neither a request nor a record.
LEMMA ProfileMoves ==
  ASSUME CertInv, UNCHANGED <<date, certUpload, files, request, pass, told, excused>>,
         onProfile' \in BOOLEAN, intent' \in [Uploads -> Dates \cup {0}],
         staging' \in [Uploads -> {"none", "x", "y", "bad"}]
  PROVE  CertInv'
<1>1. Recorded' = Recorded
  BY DEF Recorded
<1>2. CertTypes' /\ OrdersFit' /\ FileKept'
  BY <1>1 DEF CertInv, CertTypes, OrdersFit, FileKept
<1>3. RequestsFit' /\ PassesFit'
  BY <1>1 DEF CertInv, RequestsFit, RequestFits, PassesFit, PassFits, ListedFits, DueFits
<1>4. StampsFit'
  BY <1>1 DEF CertInv, StampsFit, ToldAs, Sending
<1> QED BY <1>2, <1>3, <1>4 DEF CertInv

LEMMA NoRequestFits == NoRequest \in CertRequest /\ RequestFits(NoRequest)
BY CertBounds DEF NoRequest, CertRequest, RequestFits

\* A request, and what it has read.
LEMMA RequestIs ==
  ASSUME CertInv, NEW s \in Requests
  PROVE  request[s] \in CertRequest /\ RequestFits(request[s]) /\ request[s].u \in Uploads
BY DEF CertInv, CertTypes, RequestsFit, CertRequest

LEMMA ProfileSteps ==
  ASSUME CertInv, NEW u \in Uploads, UploadUrl(u) \/ PutFile(u) \/ LeaveProfile
  PROVE  CertInv'
<1>1. date \in Nat /\ LastDate \in Nat /\ \A v \in date .. LastDate : v \in Dates \cup {0}
  BY CertBounds DEF CertInv, CertTypes, Dates
<1>2. intent' \in [Uploads -> Dates \cup {0}]
  BY <1>1 DEF UploadUrl, PutFile, LeaveProfile, objects, CertInv, CertTypes
<1>3. staging' \in [Uploads -> {"none", "x", "y", "bad"}] /\ onProfile' \in BOOLEAN
  BY DEF UploadUrl, PutFile, LeaveProfile, objects, CertInv, CertTypes
<1> QED
  BY <1>2, <1>3, ProfileMoves DEF UploadUrl, PutFile, LeaveProfile, objects, mailing

LEMMA ConfirmSteps ==
  ASSUME CertInv, NEW s \in Requests, NEW u \in Uploads,
         Confirm(s, u) \/ ReadIntent(s) \/ ReadStaged(s) \/ Discard(s) \/ DieRequest(s)
  PROVE  CertInv'
<1>1. PICK o : o = request[s] /\ o \in CertRequest /\ o.u \in Uploads
  BY RequestIs
<1>2. PICK r \in CertRequest : ToRequest(s, r) /\ (r.pc \in {"idle", "intent", "read"} \/ (r.pc = "put" /\ r.bytes # "none"))
  <2>1. CASE Confirm(s, u)
    <3>1. [NoRequest EXCEPT !.pc = "intent", !.u = u] \in CertRequest
      BY NoRequestFits DEF CertRequest
    <3>2. [NoRequest EXCEPT !.pc = "intent", !.u = u].pc = "intent"
      BY DEF NoRequest
    <3> QED BY <2>1, <3>1, <3>2 DEF Confirm
  <2>2. CASE ReadIntent(s)
    <3>1. CASE intent[o.u] = 0
      BY <1>1, <2>2, <3>1, NoRequestFits DEF ReadIntent, NoRequest
    <3>2. CASE intent[o.u] # 0
      <4>1. PICK v : v = intent[o.u] /\ v \in Dates \cup {0}
        BY <1>1 DEF CertInv, CertTypes
      <4>2. [o EXCEPT !.pc = "read", !.until = v] \in CertRequest /\ [o EXCEPT !.pc = "read", !.until = v].pc = "read"
        BY <1>1, <4>1 DEF CertRequest
      <4> QED BY <1>1, <2>2, <3>2, <4>1, <4>2 DEF ReadIntent
    <3> QED BY <3>1, <3>2
  <2>3. CASE ReadStaged(s)
    <3>1. CASE staging[o.u] \in {"none", "bad"}
      BY <1>1, <2>3, <3>1, NoRequestFits DEF ReadStaged, NoRequest
    <3>2. CASE staging[o.u] \notin {"none", "bad"}
      <4>1. PICK b : b = staging[o.u] /\ b \in {"x", "y"}
        BY <1>1, <3>2 DEF CertInv, CertTypes
      <4>2. /\ [o EXCEPT !.pc = "put", !.bytes = b] \in CertRequest
            /\ [o EXCEPT !.pc = "put", !.bytes = b].pc = "put" /\ [o EXCEPT !.pc = "put", !.bytes = b].bytes = b
        BY <1>1, <4>1 DEF CertRequest
      <4>3. ToRequest(s, [o EXCEPT !.pc = "put", !.bytes = b])
        BY <1>1, <2>3, <3>2, <4>1 DEF ReadStaged
      <4> QED BY <4>1, <4>2, <4>3
    <3> QED BY <3>1, <3>2
  <2>4. CASE Discard(s) \/ DieRequest(s)
    BY <2>4, NoRequestFits DEF Discard, DieRequest, NoRequest
  <2> QED BY <2>1, <2>2, <2>3, <2>4
<1>3. /\ intent' \in [Uploads -> Dates \cup {0}] /\ staging' \in [Uploads -> {"none", "x", "y", "bad"}]
      /\ UNCHANGED <<date, certUpload, files, onProfile, pass, told, excused>>
  BY DEF Confirm, ReadIntent, ReadStaged, Discard, DieRequest, objects, mailing, CertInv, CertTypes
<1>4. RequestFits(r)'
  BY <1>2 DEF RequestFits
<1>5. onProfile' \in BOOLEAN /\ files' \subseteq Uploads \X {"x", "y"}
  BY <1>3 DEF CertInv, CertTypes
<1> QED BY <1>2, <1>3, <1>4, <1>5, RequestTo

LEMMA PutFinalSteps ==
  ASSUME CertInv, NEW s \in Requests, PutFinal(s)
  PROVE  CertInv'
<1>1. PICK o : o = request[s] /\ o \in CertRequest /\ RequestFits(o) /\ o.u \in Uploads /\ o.pc = "put"
  BY RequestIs DEF PutFinal
<1>2. o.bytes \in {"x", "y"}
  BY <1>1 DEF RequestFits, CertRequest
<1>3. PICK r : r = [o EXCEPT !.pc = "insert"]
  OBVIOUS
<1>4. r \in CertRequest /\ r.pc = "insert" /\ r.u = o.u /\ r.bytes = o.bytes
  BY <1>1, <1>3 DEF CertRequest
<1>5. ToRequest(s, r) /\ files' = files \cup {<<o.u, o.bytes>>}
  BY <1>1, <1>3 DEF PutFinal
<1>6. RequestFits(r)'
  BY <1>2, <1>4, <1>5 DEF RequestFits
<1>7. /\ files' \subseteq Uploads \X {"x", "y"} /\ UNCHANGED <<date, certUpload, intent, staging, onProfile, pass, told, excused>>
      /\ onProfile \in BOOLEAN /\ intent \in [Uploads -> Dates \cup {0}] /\ staging \in [Uploads -> {"none", "x", "y", "bad"}]
  BY <1>1, <1>2, <1>5 DEF PutFinal, mailing, CertInv, CertTypes
<1> QED BY <1>4, <1>5, <1>6, <1>7, RequestTo

\* The loser of two confirms discards what it has put, unless that is what is recorded.
LEMMA WinnerSteps ==
  ASSUME CertInv, NEW s \in Requests, Winner(s)
  PROVE  CertInv'
<1>1. PICK o : o = request[s] /\ o \in CertRequest /\ RequestFits(o) /\ o.u \in Uploads /\ o.pc = "winner"
  BY RequestIs DEF Winner
<1>2. PICK r : r = [o EXCEPT !.pc = "clean"]
  OBVIOUS
<1>3. r \in CertRequest /\ r.pc = "clean"
  BY <1>1, <1>2 DEF CertRequest
<1>4. /\ ToRequest(s, r)
      /\ files' = IF OwnCopy(o) THEN files \ {<<o.u, o.bytes>>} ELSE files
  BY <1>1, <1>2 DEF Winner
<1>5. RequestFits(r)'
  BY <1>3 DEF RequestFits
<1>6. /\ files' \subseteq Uploads \X {"x", "y"} /\ UNCHANGED <<date, certUpload, intent, staging, onProfile, pass, told, excused>>
      /\ onProfile \in BOOLEAN /\ intent \in [Uploads -> Dates \cup {0}] /\ staging \in [Uploads -> {"none", "x", "y", "bad"}]
  BY <1>4 DEF Winner, mailing, CertInv, CertTypes
<1>7. ASSUME NEW u \in Uploads, NEW b \in {"x", "y"}, <<u, b>> \in files, <<u, b>> \notin files'
      PROVE  u \in Recorded /\ certUpload[u].sha # b
  BY <1>1, <1>4, <1>7 DEF OwnCopy, RequestFits
<1> QED BY <1>3, <1>4, <1>5, <1>6, <1>7, RequestTo

LEMMA LoadSteps ==
  ASSUME CertInv, NEW s \in Requests, NEW u \in Uploads, NEW status \in Statuses,
         NEW until \in Dates \cup {0}, Load(s, u, status, until)
  PROVE  CertInv'
<1>1. PICK same \in BOOLEAN : same <=> until \in {0, certUpload[u].until}
  OBVIOUS
<1>2. PICK r : r = [NoRequest EXCEPT !.pc = "review", !.u = u, !.status = status, !.until = until, !.same = same]
  OBVIOUS
<1>3. /\ r \in CertRequest /\ r.pc = "review" /\ r.u = u /\ r.status = status /\ status # "none"
  BY <1>2, NoRequestFits DEF CertRequest, Statuses
<1>4. ToRequest(s, r)
  BY <1>1, <1>2 DEF Load
<1>5. u \in Recorded
  BY DEF Load, Recorded
<1>6. /\ UNCHANGED <<date, certUpload, intent, staging, files, onProfile, pass, told, excused>>
      /\ onProfile \in BOOLEAN /\ intent \in [Uploads -> Dates \cup {0}] /\ staging \in [Uploads -> {"none", "x", "y", "bad"}]
      /\ files \subseteq Uploads \X {"x", "y"}
  BY DEF Load, objects, mailing, CertInv, CertTypes
<1>7. RequestFits(r)'
  BY <1>3, <1>5, <1>6 DEF RequestFits, Recorded
<1> QED BY <1>3, <1>4, <1>6, <1>7, RequestTo

LEMMA DeleteFileSteps ==
  ASSUME CertInv, NEW s \in Requests, DeleteFile(s)
  PROVE  CertInv'
<1>1. PICK o : o = request[s] /\ o \in CertRequest /\ RequestFits(o) /\ o.u \in Uploads /\ o.pc = "delete"
  BY RequestIs DEF DeleteFile
<1>2. certUpload[o.u].status = "rejected" /\ o.u \in Recorded
  BY <1>1 DEF RequestFits, Recorded
<1>3. ToRequest(s, NoRequest) /\ files \ {<<o.u, certUpload[o.u].sha>>} \subseteq files' /\ files' \subseteq files
  BY <1>1 DEF DeleteFile
<1>4. /\ UNCHANGED <<date, certUpload, intent, staging, onProfile, pass, told, excused>>
      /\ onProfile \in BOOLEAN /\ intent \in [Uploads -> Dates \cup {0}] /\ staging \in [Uploads -> {"none", "x", "y", "bad"}]
      /\ files' \subseteq Uploads \X {"x", "y"}
  BY <1>3 DEF DeleteFile, mailing, CertInv, CertTypes
<1>5. NoRequest \in CertRequest /\ RequestFits(NoRequest)'
  BY NoRequestFits DEF NoRequest, RequestFits
<1>6. ASSUME NEW u \in Uploads, NEW b \in {"x", "y"}, <<u, b>> \in files, <<u, b>> \notin files'
      PROVE  u \in Recorded /\ certUpload[u].status = "rejected"
  BY <1>2, <1>3, <1>6
<1> QED BY <1>3, <1>4, <1>5, <1>6, RequestTo

-----------------------------------------------------------------------------
(* What a confirm records, and a review changes.                            *)

LEMMA RecordedFinite == IsFiniteSet(Recorded) /\ Cardinality(Recorded) \in Nat
<1>1. Recorded \subseteq Uploads
  BY DEF Recorded
<1> QED BY <1>1, CertBounds, FS_Subset, FS_CardinalityType

LEMMA InsertSteps ==
  ASSUME CertInv, NEW s \in Requests, InsertOnce(s)
  PROVE  CertInv'
<1>1. PICK o : o = request[s] /\ o \in CertRequest /\ RequestFits(o) /\ o.u \in Uploads /\ o.pc = "insert"
  BY RequestIs DEF InsertOnce
<1>2. /\ UNCHANGED <<date, intent, staging, files, onProfile, pass, told, excused>>
      /\ onProfile \in BOOLEAN /\ intent \in [Uploads -> Dates \cup {0}] /\ staging \in [Uploads -> {"none", "x", "y", "bad"}]
      /\ files \subseteq Uploads \X {"x", "y"}
  BY DEF InsertOnce, objects, mailing, CertInv, CertTypes
<1>3. CASE o.u \in Recorded
  <2>1. PICK r : r = [o EXCEPT !.pc = "winner"]
    OBVIOUS
  <2>2. r \in CertRequest /\ r.pc = "winner" /\ r.u = o.u
    BY <1>1, <2>1 DEF CertRequest
  <2>3. ToRequest(s, r) /\ UNCHANGED certUpload
    BY <1>1, <1>3, <2>1 DEF InsertOnce, Recorded
  <2>4. RequestFits(r)'
    BY <1>3, <2>2, <2>3 DEF RequestFits, Recorded
  <2> QED BY <1>2, <2>2, <2>3, <2>4, RequestTo
<1>4. CASE o.u \notin Recorded
  <2>1. PICK u, n, r, row :
          /\ u = o.u /\ n = 1 + Cardinality(Recorded) /\ r = [o EXCEPT !.pc = "clean"]
          /\ row = [NoUpload EXCEPT !.status = "pending", !.sha = o.bytes, !.until = o.until, !.order = n]
    OBVIOUS
  <2>2. ToRequest(s, r) /\ certUpload' = [certUpload EXCEPT ![u] = row]
    BY <1>1, <1>4, <2>1 DEF InsertOnce, Recorded
  <2>3. u \in Uploads /\ u \notin Recorded /\ n \in Nat /\ n = 1 + Cardinality(Recorded) /\ NotSent \in Reminder
    BY <1>1, <1>4, <2>1, RecordedFinite DEF NotSent, Reminder
  <2>4. /\ row \in UploadRow /\ row.status = "pending" /\ row.sha = o.bytes /\ row.order = n
        /\ row.sent = NotSent /\ row.rev = 0 /\ row.until = o.until
    BY <1>1, <2>1, <2>3 DEF CertRequest, UploadRow, NoUpload, Statuses
  <2>5. r \in CertRequest /\ r.pc = "clean"
    BY <1>1, <2>1 DEF CertRequest
  <2>6. certUpload'[u] = row /\ \A v \in Uploads \ {u} : certUpload'[v] = certUpload[v]
    BY <2>2, <2>3 DEF CertInv, CertTypes
  <2>7. Recorded' = Recorded \cup {u} /\ Cardinality(Recorded') = n
    <3>1. Recorded' = Recorded \cup {u}
      BY <2>3, <2>4, <2>6 DEF Recorded
    <3>2. Cardinality(Recorded \cup {u}) = 1 + Cardinality(Recorded)
      <4>1. Cardinality(Recorded \cup {u}) = IF u \in Recorded THEN Cardinality(Recorded) ELSE Cardinality(Recorded) + 1
        BY ONLY RecordedFinite, FS_AddElement
      <4> QED BY <2>3, <4>1, RecordedFinite
    <3> QED BY <2>3, <3>1, <3>2
  <2>8. CertTypes'
    BY <1>2, <2>2, <2>3, <2>4, <2>5 DEF CertInv, CertTypes, ToRequest
  <2>9. OrdersFit'
    <3>1. \A v \in Uploads \ {u} : IF v \in Recorded THEN certUpload[v].order \in 1 .. Cardinality(Recorded)
                                   ELSE certUpload[v] = NoUpload
      BY DEF CertInv, OrdersFit
    <3>2. ASSUME NEW v \in Recorded', NEW w \in Recorded', certUpload'[v].order = certUpload'[w].order PROVE v = w
      <4>1. v \in Uploads /\ w \in Uploads
        BY <2>7, <2>3 DEF Recorded
      <4>2. CASE v = u \/ w = u
        BY <2>3, <2>4, <2>6, <2>7, <3>1, <3>2, <4>1, <4>2, RecordedFinite
      <4>3. CASE v # u /\ w # u
        BY <2>6, <2>7, <3>2, <4>1, <4>3 DEF CertInv, OrdersFit
      <4> QED BY <4>2, <4>3
    <3>3. ASSUME NEW v \in Uploads
          PROVE  IF v \in Recorded' THEN certUpload'[v].order \in 1 .. Cardinality(Recorded') ELSE certUpload'[v] = NoUpload
      BY <2>3, <2>4, <2>6, <2>7, <3>1, RecordedFinite
    <3> QED BY <3>2, <3>3 DEF OrdersFit
  <2>10. RequestsFit'
    <3> SUFFICES ASSUME NEW q \in Requests PROVE RequestFits(request[q])'
      BY DEF RequestsFit
    <3>1. CASE q = s
      <4>1. request'[q] = r
        BY <2>2, <3>1 DEF CertInv, CertTypes, ToRequest
      <4> QED BY <2>5, <4>1 DEF RequestFits
    <3>2. CASE q # s
      <4>1. PICK t : t = request[q] /\ request'[q] = t /\ t \in CertRequest /\ RequestFits(t) /\ t.u \in Uploads
        BY <2>2, <3>2, RequestIs DEF CertInv, CertTypes, ToRequest
      <4>2. /\ t.pc = "insert" /\ t.u \notin Recorded' => <<t.u, t.bytes>> \in files'
            /\ t.pc \in {"winner", "review"} => t.u \in Recorded'
            /\ t.pc = "delete" => certUpload'[t.u].status = "rejected"
        BY <1>2, <2>3, <2>6, <2>7, <4>1 DEF RequestFits, Recorded
      <4> QED BY <4>1, <4>2 DEF RequestFits
    <3> QED BY <3>1, <3>2
  <2>11. \A d \in Listed : ListedFits(d) => ListedFits(d)'
    BY <1>2, <2>3, <2>6, <2>7 DEF ListedFits, DueFits, Listed
  <2>12. PassesFit'
    <3> SUFFICES ASSUME NEW p \in Passes PROVE PassFits(p, pass[p])'
      BY DEF PassesFit
    <3>1. PICK t : t = pass[p] /\ pass'[p] = t /\ t \in MailPass /\ PassFits(p, t)
      BY <1>2 DEF CertInv, CertTypes, PassesFit
    <3>2. \A d \in t.due : d \in Listed /\ ListedFits(d)'
      BY <2>11, <3>1 DEF PassFits, MailPass
    <3>3. t.pc \in {"send", "undo"} => ListedFits(t.at)' /\ t.at.u \in Uploads \ {u}
      BY <2>3, <2>11, <3>1 DEF PassFits, ListedFits, Listed
    <3> QED BY <1>2, <2>6, <3>1, <3>2, <3>3 DEF PassFits
  <2>13. StampsFit'
    <3>1. \A v \in Uploads \ {u}, sent \in Reminder : ToldAs(v, sent) => ToldAs(v, sent)'
      BY <1>2, <2>6 DEF ToldAs
    <3>2. \A mail \in told : mail[1] # u
      BY <2>3 DEF CertInv, StampsFit
    <3>3. ToldAs(u, NotSent)'
      BY <1>2, <3>2 DEF ToldAs, SentFor, NotSent
    <3>4. \A p \in Passes : pass[p].at.u # u
      <4> SUFFICES ASSUME NEW p \in Passes PROVE pass[p].at.u # u
        OBVIOUS
      <4>1. pass[p].at = NoPass.at \/ pass[p].at.u \in Recorded
        BY DEF CertInv, PassesFit, PassFits, ListedFits
      <4> QED BY <2>3, <4>1, CertBounds DEF NoPass
    <3>5. ASSUME NEW v \in Uploads \ excused
          PROVE  /\ \A mail \in told : mail[1] = v => mail[4] = 1 /\ mail[3] <= certUpload'[v].rev
                 /\ \A p \in Passes : pass[p].at.u = v => ToldAs(v, pass[p].at.sent)'
                 /\ ~Sending(v) => ToldAs(v, certUpload[v].sent)'
      <4>1. CASE v = u
        BY <2>4, <2>6, <3>2, <3>3, <3>4, <4>1
      <4>2. CASE v # u
        <5>1. /\ \A mail \in told : mail[1] = v => mail[4] = 1 /\ mail[3] <= certUpload[v].rev
              /\ \A p \in Passes : pass[p].at.u = v => ToldAs(v, pass[p].at.sent)
              /\ ~Sending(v) => ToldAs(v, certUpload[v].sent)
          BY DEF CertInv, StampsFit
        <5>2. \A p \in Passes : pass[p].at.u = v => pass[p].at.sent \in Reminder
          BY CertBounds DEF CertInv, CertTypes, MailPass, Listed, NoPass
        <5>3. certUpload[v].sent \in Reminder /\ certUpload'[v] = certUpload[v]
          BY <2>6, <4>2 DEF CertInv, CertTypes, UploadRow
        <5>4. ~Sending(v) => ToldAs(v, certUpload[v].sent)'
          BY <1>2, <3>1, <4>2, <5>1, <5>3 DEF ToldAs
        <5>5. \A p \in Passes : pass[p].at.u = v => ToldAs(v, pass[p].at.sent)'
          BY <1>2, <3>1, <4>2, <5>1, <5>2 DEF ToldAs
        <5> QED BY <5>1, <5>3, <5>4, <5>5
      <4> QED BY <4>1, <4>2
    <3>6. \A mail \in told : mail[1] \in Recorded'
      BY <2>7 DEF CertInv, StampsFit
    <3> QED BY <1>2, <3>5, <3>6 DEF StampsFit, Sending
  <2>14. FileKept'
    <3>1. <<u, o.bytes>> \in files
      BY <1>1, <1>4, <2>1 DEF RequestFits
    <3>2. \A v \in Uploads \ {u} : certUpload[v].status \in {"pending", "approved"} => <<v, certUpload[v].sha>> \in files
      BY DEF CertInv, FileKept
    <3>3. ASSUME NEW v \in Uploads, certUpload'[v].status \in {"pending", "approved"}
          PROVE  <<v, certUpload'[v].sha>> \in files
      BY <2>4, <2>6, <3>1, <3>2, <3>3
    <3> QED BY <1>2, <3>3 DEF FileKept
  <2> QED BY <2>8, <2>9, <2>10, <2>12, <2>13, <2>14 DEF CertInv
<1> QED BY <1>3, <1>4

\* A review changes its upload as it finds it; a new date has no emails yet.
LEMMA ReviewSteps ==
  ASSUME CertInv, NEW s \in Requests, Review(s)
  PROVE  CertInv'
<1>1. PICK o : o = request[s] /\ o \in CertRequest /\ RequestFits(o) /\ o.u \in Uploads /\ o.pc = "review"
  BY RequestIs DEF Review
<1>2. /\ UNCHANGED <<date, intent, staging, files, onProfile, pass, told>>
      /\ onProfile \in BOOLEAN /\ intent \in [Uploads -> Dates \cup {0}] /\ staging \in [Uploads -> {"none", "x", "y", "bad"}]
      /\ files \subseteq Uploads \X {"x", "y"}
  BY DEF Review, objects, CertInv, CertTypes
<1>3. CASE ~Reviewable(certUpload[o.u], o)
  <2>1. ToRequest(s, NoRequest) /\ UNCHANGED <<certUpload, excused>>
    BY <1>1, <1>3 DEF Review
  <2>2. RequestFits(NoRequest)'
    BY DEF RequestFits, NoRequest
  <2> QED BY <1>2, <2>1, <2>2, NoRequestFits, RequestTo
<1>4. CASE Reviewable(certUpload[o.u], o)
  <2>1. PICK u, row : u = o.u /\ row = Reviewed(certUpload[u], o)
    OBVIOUS
  <2>2. /\ u \in Recorded /\ u \in Uploads /\ o.status \in Statuses /\ certUpload[u] \in UploadRow
        /\ o.status # "none" /\ NotSent \in Reminder
    BY <1>1, <2>1 DEF RequestFits, CertInv, CertTypes, CertRequest, NotSent, Reminder
  <2>3. /\ row \in UploadRow /\ row.status = o.status /\ row.sha = certUpload[u].sha
        /\ row.order = certUpload[u].order
        /\ o.same => row.until = certUpload[u].until /\ row.sent = certUpload[u].sent /\ row.rev = certUpload[u].rev
        /\ ~o.same => row.sent = NotSent /\ row.rev = certUpload[u].rev + 1
    <3>1. CASE o.same
      <4>1. row = [certUpload[u] EXCEPT !.status = o.status]
        BY <2>1, <3>1 DEF Reviewed
      <4> QED BY <2>2, <3>1, <4>1 DEF UploadRow
    <3>2. CASE ~o.same
      <4>1. row = [certUpload[u] EXCEPT !.status = o.status, !.until = o.until, !.sent = NotSent, !.rev = certUpload[u].rev + 1]
        BY <2>1, <3>2 DEF Reviewed
      <4>2. o.until \in Dates \cup {0} /\ certUpload[u].rev + 1 \in Nat
        BY <1>1, <2>2 DEF CertRequest, UploadRow
      <4> QED BY <2>2, <3>2, <4>1, <4>2 DEF UploadRow
    <3> QED BY <3>1, <3>2
  <2>4. PICK r \in CertRequest :
          ToRequest(s, r) /\ (r = NoRequest \/ (r.pc = "delete" /\ r.u = u /\ o.status = "rejected"))
    <3>1. CASE o.status = "rejected"
      <4>1. [o EXCEPT !.pc = "delete"] \in CertRequest /\ [o EXCEPT !.pc = "delete"].pc = "delete"
            /\ [o EXCEPT !.pc = "delete"].u = u
        BY <1>1, <2>1 DEF CertRequest
      <4> QED BY <1>1, <1>4, <3>1, <4>1 DEF Review
    <3>2. CASE o.status # "rejected"
      BY <1>1, <1>4, <3>2, NoRequestFits DEF Review
    <3> QED BY <3>1, <3>2
  <2>5. /\ certUpload' = [certUpload EXCEPT ![u] = row]
        /\ excused' = IF Disturbed(u) /\ ~o.same THEN excused \cup {u} ELSE excused
    BY <1>1, <1>4, <2>1 DEF Review
  <2>6. certUpload'[u] = row /\ \A v \in Uploads \ {u} : certUpload'[v] = certUpload[v]
    BY <2>2, <2>5 DEF CertInv, CertTypes
  <2>7. Recorded' = Recorded
    BY <2>2, <2>3, <2>6 DEF Recorded
  <2>8. CertTypes'
    BY <1>2, <2>2, <2>3, <2>4, <2>5 DEF CertInv, CertTypes, ToRequest
  <2>9. OrdersFit'
    <3>1. \A v \in Uploads : certUpload'[v].order = certUpload[v].order /\ (v \notin Recorded => certUpload'[v] = certUpload[v])
      BY <2>2, <2>3, <2>6
    <3>2. \A v \in Recorded : v \in Uploads
      BY DEF Recorded
    <3> QED BY <2>7, <3>1, <3>2 DEF CertInv, OrdersFit
  <2>10. RequestsFit'
    <3> SUFFICES ASSUME NEW q \in Requests PROVE RequestFits(request[q])'
      BY DEF RequestsFit
    <3>1. CASE q = s
      <4>1. request'[q] = r
        BY <2>4, <3>1 DEF CertInv, CertTypes, ToRequest
      <4>2. r.pc = "delete" => certUpload'[r.u].status = "rejected"
        BY <2>3, <2>4, <2>6 DEF NoRequest
      <4> QED BY <2>4, <4>1, <4>2 DEF RequestFits, NoRequest
    <3>2. CASE q # s
      <4>1. PICK t : t = request[q] /\ request'[q] = t /\ t \in CertRequest /\ RequestFits(t) /\ t.u \in Uploads
        BY <2>4, <3>2, RequestIs DEF CertInv, CertTypes, ToRequest
      <4>2. t.pc = "delete" => certUpload'[t.u].status = "rejected"
        BY <1>4, <2>1, <2>3, <2>6, <4>1 DEF RequestFits, Reviewable
      <4> QED BY <1>2, <2>7, <4>1, <4>2 DEF RequestFits
    <3> QED BY <3>1, <3>2
  <2>11. ASSUME NEW p \in Passes, NEW d \in Listed, d \in pass[p].due \/ d = pass[p].at, ListedFits(d)
         PROVE  /\ ListedFits(d)'
                /\ d.u \notin excused' => certUpload'[d.u].sent = certUpload[d.u].sent
    <3>1. d.u \in Uploads
      BY DEF Listed
    <3>2. d.u = u => Disturbed(u)
      BY <2>11 DEF Disturbed
    <3>3. d.u \notin excused' =>
            /\ d.u \notin excused /\ certUpload'[d.u].until = certUpload[d.u].until
            /\ certUpload'[d.u].rev = certUpload[d.u].rev /\ certUpload'[d.u].sent = certUpload[d.u].sent
      BY <2>3, <2>5, <2>6, <3>1, <3>2
    <3> QED BY <1>2, <2>7, <2>11, <3>3 DEF ListedFits, DueFits
  <2>12. PassesFit'
    <3> SUFFICES ASSUME NEW p \in Passes PROVE PassFits(p, pass[p])'
      BY DEF PassesFit
    <3>1. PICK t : t = pass[p] /\ pass'[p] = t /\ t \in MailPass /\ PassFits(p, t)
      BY <1>2 DEF CertInv, CertTypes, PassesFit
    <3>2. \A d \in t.due : ListedFits(d)'
      BY <2>11, <3>1 DEF PassFits, MailPass
    <3>3. t.pc \in {"send", "undo"} =>
            ListedFits(t.at)' /\ (t.at.u \notin excused' => t.at.u \notin excused /\ certUpload'[t.at.u].sent = certUpload[t.at.u].sent)
      BY <2>5, <2>11, <3>1 DEF PassFits
    <3> QED BY <1>2, <3>1, <3>2, <3>3 DEF PassFits
  <2>13. StampsFit'
    <3>1. ASSUME NEW v \in Uploads \ excused'
          PROVE  /\ \A mail \in told : mail[1] = v => mail[4] = 1 /\ mail[3] <= certUpload'[v].rev
                 /\ \A p \in Passes : pass[p].at.u = v => ToldAs(v, pass[p].at.sent)'
                 /\ ~Sending(v) => ToldAs(v, certUpload[v].sent)'
      <4>1. /\ \A mail \in told : mail[1] = v => mail[4] = 1 /\ mail[3] <= certUpload[v].rev
            /\ \A p \in Passes : pass[p].at.u = v => ToldAs(v, pass[p].at.sent)
            /\ ~Sending(v) => ToldAs(v, certUpload[v].sent)
        BY <2>5 DEF CertInv, StampsFit
      <4>2. CASE v = u /\ ~o.same
        <5>1. ~Disturbed(u)
          BY <2>5, <4>2
        <5>2. \A p \in Passes : pass[p].at.u # v
          BY <4>2, <5>1 DEF Disturbed
        <5>3. certUpload'[v].rev = certUpload[v].rev + 1 /\ certUpload'[v].sent = NotSent /\ certUpload[v].rev \in Nat
          BY <2>2, <2>3, <2>6, <4>2 DEF UploadRow
        <5>4. \A mail \in told : mail[3] \in Nat
          BY DEF CertInv, CertTypes
        <5>5. \A mail \in told : mail[1] = v => mail[3] < certUpload'[v].rev
          BY <4>1, <5>3, <5>4
        <5>6. ToldAs(v, NotSent)'
          BY <1>2, <5>4, <5>5, <5>3 DEF ToldAs, SentFor, NotSent
        <5>7. ToldAs(v, certUpload[v].sent)'
          BY <5>3, <5>6 DEF ToldAs
        <5> QED BY <4>1, <5>2, <5>3, <5>4, <5>5, <5>7
      <4>3. CASE ~(v = u /\ ~o.same)
        <5>1. /\ certUpload'[v].rev = certUpload[v].rev /\ certUpload'[v].sent = certUpload[v].sent
              /\ certUpload'[v].until = certUpload[v].until
          BY <2>3, <2>6, <4>3
        <5>2. ~Sending(v) => ToldAs(v, certUpload[v].sent)'
          BY <1>2, <4>1, <5>1 DEF ToldAs
        <5>3. \A p \in Passes : pass[p].at.u = v => ToldAs(v, pass[p].at.sent)'
          BY <1>2, <4>1, <5>1 DEF ToldAs
        <5> QED BY <4>1, <5>1, <5>2, <5>3
      <4> QED BY <4>2, <4>3
    <3>2. \A mail \in told : mail[1] \in Recorded'
      BY <2>7 DEF CertInv, StampsFit
    <3> QED BY <1>2, <3>1, <3>2 DEF StampsFit, Sending
  <2>14. FileKept'
    <3>1. \A v \in Uploads : certUpload[v].status \in {"pending", "approved"} => <<v, certUpload[v].sha>> \in files
      BY DEF CertInv, FileKept
    <3>2. row.status \in {"pending", "approved"} => certUpload[u].status \in {"pending", "approved"}
      BY <1>4, <2>1, <2>2, <2>3 DEF Reviewable, Recorded, UploadRow, Statuses
    <3> QED BY <1>2, <2>3, <2>6, <3>1, <3>2 DEF FileKept
  <2> QED BY <2>8, <2>9, <2>10, <2>12, <2>13, <2>14 DEF CertInv
<1> QED BY <1>3, <1>4

-----------------------------------------------------------------------------
(* The passes of the expiry emails.                                         *)

\* A step of a pass that sends nothing before or after; whoever it leaves unsent is excused.
LEMMA PassTo ==
  ASSUME CertInv, NEW p \in Passes, NEW r \in MailPass, ToPass(p, r), PassFits(p, r), r.at = NoPass.at,
         UNCHANGED <<date, certUpload, intent, staging, files, onProfile, request, told>>,
         excused \subseteq excused', pass[p].at.u \in Uploads => pass[p].at.u \in excused'
  PROVE  CertInv'
<1>1. Recorded' = Recorded
  BY DEF Recorded
<1>2. pass'[p] = r /\ \A q \in Passes \ {p} : pass'[q] = pass[q]
  BY DEF CertInv, CertTypes, ToPass
<1>3. CertTypes'
  BY DEF CertInv, CertTypes, ToPass
<1>4. OrdersFit' /\ FileKept'
  BY <1>1 DEF CertInv, OrdersFit, FileKept
<1>5. RequestsFit'
  BY <1>1 DEF CertInv, RequestsFit, RequestFits
<1>6. \A d \in Listed : ListedFits(d) => ListedFits(d)'
  BY <1>1 DEF ListedFits, DueFits
<1>7. PassesFit'
  <2> SUFFICES ASSUME NEW q \in Passes PROVE PassFits(q, pass[q])'
    BY DEF PassesFit
  <2>1. PICK t : pass'[q] = t /\ t \in MailPass /\ PassFits(q, t)
    BY <1>2 DEF CertInv, CertTypes, PassesFit
  <2>2. \A d \in t.due : ListedFits(d)'
    BY <1>6, <2>1 DEF PassFits, MailPass
  <2>3. t.pc \in {"send", "undo"} => ListedFits(t.at)'
    BY <1>6, <2>1 DEF PassFits
  <2> QED BY <2>1, <2>2, <2>3 DEF PassFits
<1>8. StampsFit'
  <2>1. ASSUME NEW u \in Uploads \ excused'
        PROVE  /\ \A mail \in told : mail[1] = u => mail[4] = 1 /\ mail[3] <= certUpload[u].rev
               /\ \A q \in Passes : pass'[q].at.u = u => ToldAs(u, pass'[q].at.sent)
               /\ ~Sending(u)' => ToldAs(u, certUpload[u].sent)
    <3>1. pass[p].at.u # u /\ pass'[p].at.u # u
      BY <1>2, CertBounds DEF NoPass
    <3>2. Sending(u) => Sending(u)'
      BY <1>2, <3>1 DEF Sending
    <3> QED BY <1>2, <3>1, <3>2 DEF CertInv, StampsFit
  <2>2. \A u \in Uploads, sent \in Reminder : ToldAs(u, sent) => ToldAs(u, sent)'
    BY DEF ToldAs
  <2>3. ASSUME NEW u \in Uploads \ excused'
        PROVE  /\ \A q \in Passes : pass'[q].at.u = u => ToldAs(u, pass[q].at.sent)'
               /\ ~Sending(u)' => ToldAs(u, certUpload[u].sent)'
    BY <2>1 DEF ToldAs
  <2> QED BY <1>1, <2>1, <2>3 DEF CertInv, StampsFit
<1> QED BY <1>3, <1>4, <1>5, <1>7, <1>8 DEF CertInv

LEMMA NoPassFits == \A p \in Passes : NoPass \in MailPass /\ PassFits(p, NoPass)
BY DEF NoPass, MailPass, PassFits

LEMMA PassIs ==
  ASSUME CertInv, NEW p \in Passes
  PROVE  /\ pass[p] \in MailPass /\ PassFits(p, pass[p])
         /\ pass[p].pc \notin {"send", "undo"} => pass[p].at = NoPass.at /\ pass[p].at.u \notin Uploads
BY CertBounds DEF CertInv, CertTypes, PassesFit, PassFits, NoPass

LEMMA ListSteps ==
  ASSUME CertInv, NEW p \in Passes, ListCandidates(p)
  PROVE  CertInv'
<1>1. PICK o : o = pass[p] /\ o \in MailPass /\ PassFits(p, o) /\ o.pc = "list" /\ o.at = NoPass.at
  BY PassIs DEF ListCandidates
<1>2. o.day = date /\ date \in Dates /\ pass[p].at.u \notin Uploads
  BY <1>1, PassIs DEF PassFits, CertInv, CertTypes
<1>3. PICK due :
        due = {[u |-> u, stage |-> DueOn(certUpload[u], date), sent |-> certUpload[u].sent, rev |-> certUpload[u].rev] :
                 u \in {v \in Uploads : onProfile /\ DueOn(certUpload[v], date) # "none"}}
  OBVIOUS
<1>4. \A d \in due : d \in Listed /\ ListedFits(d)
  <2> SUFFICES ASSUME NEW u \in Uploads, DueOn(certUpload[u], date) # "none", NEW d,
                      d = [u |-> u, stage |-> DueOn(certUpload[u], date), sent |-> certUpload[u].sent,
                           rev |-> certUpload[u].rev]
               PROVE  d \in Listed /\ ListedFits(d)
    BY <1>3
  <2>1. certUpload[u] \in UploadRow
    BY DEF CertInv, CertTypes
  <2>2. /\ d.stage \in Mailed /\ d.stage = SentFor([day |-> date, by |-> "nobody"], certUpload[u].until)
        /\ Level(SentFor(certUpload[u].sent, certUpload[u].until)) < Level(d.stage)
        /\ certUpload[u].status # "none"
    BY <1>2, <2>1, DueIs
  <2> QED BY <2>1, <2>2 DEF Listed, UploadRow, ListedFits, DueFits, Recorded
<1>5. PICK r : r = [o EXCEPT !.pc = "keys", !.due = due]
  OBVIOUS
<1>6. r \in MailPass /\ r.pc = "keys" /\ r.due = due /\ r.at = NoPass.at /\ r.day = date
  BY <1>1, <1>2, <1>4, <1>5 DEF MailPass
<1>7. PassFits(p, r)
  BY <1>4, <1>6 DEF PassFits
<1>8. ToPass(p, r)
  BY <1>1, <1>2, <1>3, <1>5 DEF ListCandidates
<1>9. UNCHANGED <<date, certUpload, intent, staging, files, onProfile, request, told, excused>>
  BY DEF ListCandidates, objects
<1> QED BY <1>2, <1>6, <1>7, <1>8, <1>9, PassTo

LEMMA RestingSteps ==
  ASSUME CertInv, NEW p \in Passes, StartPass(p) \/ KeepCurrent(p) \/ EndPass(p) \/ DiePass(p)
  PROVE  CertInv'
<1>1. PICK o : o = pass[p] /\ o \in MailPass /\ PassFits(p, o)
  BY PassIs
<1>2. UNCHANGED <<date, certUpload, intent, staging, files, onProfile, request, told>>
  BY DEF StartPass, KeepCurrent, EndPass, DiePass, objects
<1>3. date \in Dates
  BY DEF CertInv, CertTypes
<1>4. CASE StartPass(p)
  <2>1. PICK r : r = [NoPass EXCEPT !.pc = "list", !.day = date]
    OBVIOUS
  <2>2. r \in MailPass /\ r.pc = "list" /\ r.due = {} /\ r.at = NoPass.at /\ r.day = date
    BY <1>3, <2>1 DEF MailPass, NoPass
  <2>3. PassFits(p, r)
    BY <2>2 DEF PassFits
  <2>4. ToPass(p, r) /\ excused' = excused /\ pass[p].at.u \notin Uploads
    BY <1>4, <2>1, PassIs DEF StartPass
  <2> QED BY <1>2, <2>2, <2>3, <2>4, PassTo
<1>5. CASE KeepCurrent(p)
  <2>1. PICK r, due : due = {d \in o.due : onProfile /\ Current(d.u)} /\ r = [o EXCEPT !.pc = "next", !.due = due]
    OBVIOUS
  <2>2. due \subseteq o.due /\ o.pc = "keys" /\ o.at = NoPass.at /\ pass[p].at.u \notin Uploads
    BY <1>1, <1>5, <2>1, PassIs DEF KeepCurrent
  <2>3. r \in MailPass /\ r.pc = "next" /\ r.due = due /\ r.at = NoPass.at /\ r.day = o.day
    BY <1>1, <2>1, <2>2 DEF MailPass
  <2>4. PassFits(p, r)
    BY <1>1, <2>2, <2>3 DEF PassFits
  <2>5. ToPass(p, r) /\ excused' = excused
    BY <1>1, <1>5, <2>1 DEF KeepCurrent
  <2> QED BY <1>2, <2>2, <2>3, <2>4, <2>5, PassTo
<1>6. CASE EndPass(p)
  <2>1. ToPass(p, NoPass) /\ excused' = excused /\ pass[p].at.u \notin Uploads
    BY <1>6, PassIs DEF EndPass
  <2> QED BY <1>2, <2>1, NoPassFits, PassTo
<1>7. CASE DiePass(p)
  <2>1. ToPass(p, NoPass) /\ excused' = excused \cup {pass[p].at.u}
    BY <1>7 DEF DiePass
  <2> QED BY <1>2, <2>1, NoPassFits, PassTo
<1> QED BY <1>4, <1>5, <1>6, <1>7

\* What a step leaves alone that changes a stamp, and what a pass holds.
LEMMA SentMoves ==
  ASSUME CertInv, NEW u \in Recorded, NEW sent \in Reminder, certUpload' = [certUpload EXCEPT ![u].sent = sent],
         UNCHANGED <<date, intent, staging, files, onProfile, request, told, excused>>,
         pass' \in [Passes -> MailPass]
  PROVE  /\ Recorded' = Recorded /\ CertTypes' /\ OrdersFit' /\ RequestsFit' /\ FileKept'
         /\ certUpload'[u].sent = sent /\ \A v \in Uploads \ {u} : certUpload'[v] = certUpload[v]
         /\ \A v \in Uploads : certUpload'[v].until = certUpload[v].until /\ certUpload'[v].rev = certUpload[v].rev
         /\ \A d \in Listed : ListedFits(d) => ListedFits(d)'
         /\ \A v \in Uploads, x \in Reminder : ToldAs(v, x) => ToldAs(v, x)'
<1>1. u \in Uploads /\ certUpload \in [Uploads -> UploadRow]
  BY DEF Recorded, CertInv, CertTypes
<1>2. /\ certUpload' \in [Uploads -> UploadRow]
      /\ certUpload'[u].sent = sent /\ \A v \in Uploads \ {u} : certUpload'[v] = certUpload[v]
      /\ \A v \in Uploads : /\ certUpload'[v].until = certUpload[v].until /\ certUpload'[v].rev = certUpload[v].rev
                            /\ certUpload'[v].status = certUpload[v].status /\ certUpload'[v].sha = certUpload[v].sha
                            /\ certUpload'[v].order = certUpload[v].order
  <2>1. PICK row : row = [certUpload[u] EXCEPT !.sent = sent]
    OBVIOUS
  <2>2. /\ row \in UploadRow /\ row.sent = sent /\ row.until = certUpload[u].until /\ row.rev = certUpload[u].rev
        /\ row.status = certUpload[u].status /\ row.sha = certUpload[u].sha /\ row.order = certUpload[u].order
    BY <1>1, <2>1 DEF UploadRow
  <2>3. certUpload' = [certUpload EXCEPT ![u] = row]
    BY <1>1, <2>1
  <2> QED BY <1>1, <2>2, <2>3
<1>3. Recorded' = Recorded /\ \A v \in Recorded : v \in Uploads
  BY <1>2 DEF Recorded
<1>4. CertTypes'
  BY <1>2 DEF CertInv, CertTypes
<1>5. OrdersFit'
  BY <1>2, <1>3 DEF CertInv, OrdersFit
<1>6. RequestsFit'
  <2> SUFFICES ASSUME NEW q \in Requests PROVE RequestFits(request[q])'
    BY DEF RequestsFit
  <2>1. PICK t : t = request[q] /\ request'[q] = t /\ t \in CertRequest /\ RequestFits(t) /\ t.u \in Uploads
    BY RequestIs
  <2> QED BY <1>2, <1>3, <2>1 DEF RequestFits
<1>7. FileKept'
  BY <1>2 DEF CertInv, FileKept
<1>8. \A d \in Listed : ListedFits(d) => ListedFits(d)'
  BY <1>2, <1>3 DEF ListedFits, DueFits, Listed
<1>9. \A v \in Uploads, x \in Reminder : ToldAs(v, x) => ToldAs(v, x)'
  BY <1>2 DEF ToldAs
<1> QED BY <1>2, <1>3, <1>4, <1>5, <1>6, <1>7, <1>8, <1>9

\* Who claims replaces the stamp it had listed, so nobody else is sending.
LEMMA ClaimSteps ==
  ASSUME CertInv, NEW p \in Passes, NEW d \in pass[p].due, ClaimMail(p, d)
  PROVE  CertInv'
<1>1. PICK o : o = pass[p] /\ o \in MailPass /\ PassFits(p, o) /\ o.pc = "next" /\ o.at = NoPass.at /\ o.day = date
  BY PassIs DEF ClaimMail, PassFits
<1>2. /\ d \in Listed /\ ListedFits(d) /\ d.u \in Uploads /\ d.u \in Recorded /\ d.sent \in Reminder
      /\ pass[p].at.u \notin Uploads /\ pass \in [Passes -> MailPass]
  <2>1. d \in Listed /\ ListedFits(d)
    BY <1>1 DEF PassFits, MailPass
  <2>2. d.u \in Uploads /\ d.u \in Recorded /\ d.sent \in Reminder
    BY <2>1 DEF ListedFits, Listed
  <2> QED BY <1>1, <2>1, <2>2, PassIs DEF CertInv, CertTypes
<1>3. UNCHANGED <<date, intent, staging, files, onProfile, request, told, excused>>
  BY DEF ClaimMail, objects
<1>4. certUpload' = Swapped(d.u, d.sent, ReminderStamp(p))
  BY DEF ClaimMail
<1>5. PICK due : due = o.due \ {d}
  OBVIOUS
<1>6. CASE certUpload' = certUpload
  <2>1. PICK r : r = [o EXCEPT !.due = due, !.pc = "next"]
    OBVIOUS
  <2>2. r \in MailPass /\ r.pc = "next" /\ r.due = due /\ r.at = NoPass.at /\ r.day = date
    BY <1>1, <1>5, <2>1 DEF MailPass
  <2>3. PassFits(p, r)
    BY <1>1, <1>5, <2>2 DEF PassFits
  <2>4. ToPass(p, r)
    <3>1. r = [o EXCEPT !.due = due, !.pc = "next", !.at = o.at]
      BY <1>1, <2>1 DEF MailPass
    <3> QED BY <1>1, <1>5, <1>6, <3>1 DEF ClaimMail
  <2> QED BY <1>2, <1>3, <1>6, <2>2, <2>3, <2>4, PassTo
<1>7. CASE certUpload' # certUpload
  <2>1. PICK u, stamp : u = d.u /\ stamp = ReminderStamp(p)
    OBVIOUS
  <2>2. stamp = [day |-> date, by |-> p] /\ stamp \in Reminder /\ u \in Recorded /\ u \in Uploads
    BY <1>1, <1>2, <2>1 DEF ReminderStamp, Reminder, CertInv, CertTypes
  <2>3. certUpload[u].sent = d.sent /\ certUpload' = [certUpload EXCEPT ![u].sent = stamp]
    <3>1. certUpload' = [certUpload EXCEPT ![u] = [@ EXCEPT !.sent = IF certUpload[u].sent = d.sent THEN stamp ELSE certUpload[u].sent]]
      BY <1>4, <2>1 DEF Swapped
    <3>2. certUpload[u].sent = d.sent
      <4>1. CASE certUpload[u].sent # d.sent
        <5>1. certUpload[u] \in UploadRow /\ certUpload \in [Uploads -> UploadRow]
          BY <2>2 DEF CertInv, CertTypes
        <5>2. [certUpload[u] EXCEPT !.sent = certUpload[u].sent] = certUpload[u]
          BY <5>1 DEF UploadRow
        <5>3. certUpload' = certUpload
          BY <3>1, <4>1, <5>1, <5>2
        <5> QED BY <1>7, <5>3
      <4> QED BY <4>1
    <3> QED BY <3>1, <3>2
  <2>4. PICK r : r = [o EXCEPT !.due = due, !.pc = "send", !.at = d]
    OBVIOUS
  <2>5. r \in MailPass /\ r.pc = "send" /\ r.due = due /\ r.at = d /\ r.day = date
    BY <1>1, <1>2, <1>5, <2>4 DEF MailPass
  <2>6. ToPass(p, r)
    BY <1>1, <1>5, <1>7, <2>4 DEF ClaimMail
  <2>7. pass' \in [Passes -> MailPass] /\ pass'[p] = r /\ \A q \in Passes \ {p} : pass'[q] = pass[q]
    BY <1>2, <2>5, <2>6 DEF ToPass
  <2>8. /\ Recorded' = Recorded /\ CertTypes' /\ OrdersFit' /\ RequestsFit' /\ FileKept'
        /\ certUpload'[u].sent = stamp /\ \A v \in Uploads \ {u} : certUpload'[v] = certUpload[v]
        /\ \A v \in Uploads : certUpload'[v].until = certUpload[v].until /\ certUpload'[v].rev = certUpload[v].rev
        /\ \A x \in Listed : ListedFits(x) => ListedFits(x)'
        /\ \A v \in Uploads, x \in Reminder : ToldAs(v, x) => ToldAs(v, x)'
    BY <1>3, <2>2, <2>3, <2>7, SentMoves
  <2>9. ASSUME u \notin excused, NEW q \in Passes PROVE pass[q].at.u # u
    <3>1. SUFFICES ASSUME pass[q].at.u = u PROVE FALSE
      OBVIOUS
    <3>2. certUpload[u].sent = [day |-> date, by |-> q]
      <4>1. pass[q].at # NoPass.at
        BY <2>2, <3>1, CertBounds DEF NoPass
      <4> QED BY <2>9, <3>1, <4>1, PassIs DEF PassFits
    <3>3. d.stage = SentFor([day |-> date, by |-> "nobody"], certUpload[u].until)
          /\ Level(SentFor(d.sent, certUpload[u].until)) < Level(d.stage)
      BY <1>2, <2>1, <2>9 DEF ListedFits, DueFits
    <3>4. SentFor(d.sent, certUpload[u].until) = d.stage
      BY <2>3, <3>2, <3>3 DEF SentFor
    <3>5. Level(d.stage) \in Nat
      BY DEF Level
    <3> QED BY <3>3, <3>4, <3>5
  <2>10. PassesFit'
    <3> SUFFICES ASSUME NEW q \in Passes PROVE PassFits(q, pass[q])'
      BY DEF PassesFit
    <3>1. CASE q = p
      <4>1. \A x \in due : ListedFits(x)'
        BY <1>1, <1>5, <2>8 DEF PassFits, MailPass
      <4>2. ListedFits(d)'
        BY <1>2, <2>8
      <4> QED BY <1>2, <1>3, <2>1, <2>2, <2>5, <2>7, <2>8, <3>1, <4>1, <4>2 DEF PassFits
    <3>2. CASE q # p
      <4>1. PICK t : t = pass[q] /\ pass'[q] = t /\ t \in MailPass /\ PassFits(q, t)
        BY <2>7, <3>2, PassIs
      <4>2. \A x \in t.due : ListedFits(x)'
        BY <2>8, <4>1 DEF PassFits, MailPass
      <4>3. t.pc \in {"send", "undo"} => ListedFits(t.at)'
        BY <2>8, <4>1 DEF PassFits
      <4>4. t.pc \in {"send", "undo"} /\ t.at.u \notin excused => certUpload'[t.at.u].sent = [day |-> date, by |-> q]
        <5>1. t.pc \in {"send", "undo"} => t.at.u \in Uploads
          BY <4>1 DEF PassFits, Listed
        <5> QED BY <2>8, <2>9, <4>1, <5>1 DEF PassFits
      <4> QED BY <1>3, <4>1, <4>2, <4>3, <4>4 DEF PassFits
    <3> QED BY <3>1, <3>2
  <2>11. StampsFit'
    <3>1. ASSUME NEW v \in Uploads \ excused
          PROVE  /\ \A mail \in told : mail[1] = v => mail[4] = 1 /\ mail[3] <= certUpload'[v].rev
                 /\ \A q \in Passes : pass'[q].at.u = v => ToldAs(v, pass[q].at.sent)'
                 /\ ~Sending(v)' => ToldAs(v, certUpload[v].sent)'
      <4>1. /\ \A mail \in told : mail[1] = v => mail[4] = 1 /\ mail[3] <= certUpload[v].rev
            /\ \A q \in Passes : pass[q].at.u = v => ToldAs(v, pass[q].at.sent)
            /\ ~Sending(v) => ToldAs(v, certUpload[v].sent)
        BY DEF CertInv, StampsFit
      <4>2. CASE v = u
        <5>1. ToldAs(u, d.sent)
          BY <2>3, <2>9, <4>1, <4>2 DEF Sending
        <5>2. ToldAs(u, d.sent)'
          BY <1>2, <2>2, <2>8, <5>1
        <5>3. \A q \in Passes : pass'[q].at.u = u => q = p
          BY <2>7, <2>9, <4>2
        <5>4. \A q \in Passes : pass'[q].at.u = u => ToldAs(u, pass[q].at.sent)'
          BY <2>5, <2>7, <5>2, <5>3 DEF ToldAs
        <5>5. Sending(u)'
          BY <2>1, <2>5, <2>7 DEF Sending
        <5> QED BY <2>8, <4>1, <4>2, <5>4, <5>5 DEF ToldAs
      <4>3. CASE v # u
        <5>1. \A q \in Passes : pass'[q].at.u = v => q # p /\ pass'[q] = pass[q]
          BY <2>1, <2>5, <2>7, <4>3
        <5>2. Sending(v) => Sending(v)'
          <6>1. \A q \in Passes : pass[q].at.u = v => q # p
            BY <1>2
          <6> QED BY <2>7, <6>1 DEF Sending
        <5>3. \A q \in Passes : pass[q].at.u = v => pass[q].at.sent \in Reminder
          BY <1>2, CertBounds DEF MailPass, Listed, NoPass
        <5>4. \A q \in Passes : pass'[q].at.u = v => ToldAs(v, pass[q].at.sent)'
          <6> SUFFICES ASSUME NEW q \in Passes, pass'[q].at.u = v PROVE ToldAs(v, pass[q].at.sent)'
            OBVIOUS
          <6>1. PICK x : x = pass[q].at.sent /\ x = pass'[q].at.sent /\ x \in Reminder /\ ToldAs(v, x)
            BY <4>1, <5>1, <5>3
          <6>2. ToldAs(v, x)'
            BY <2>8, <6>1
          <6> QED BY <6>1, <6>2 DEF ToldAs
        <5>5. certUpload[v].sent \in Reminder /\ certUpload'[v] = certUpload[v]
          BY <2>8, <4>3 DEF CertInv, CertTypes, UploadRow
        <5>6. ~Sending(v)' => ToldAs(v, certUpload[v].sent)'
          BY <2>8, <4>1, <5>2, <5>5 DEF ToldAs
        <5> QED BY <4>1, <5>4, <5>5, <5>6
      <4> QED BY <4>2, <4>3
    <3>2. \A mail \in told : mail[1] \in Recorded'
      BY <2>8 DEF CertInv, StampsFit
    <3> QED BY <1>3, <3>1, <3>2 DEF StampsFit
  <2> QED BY <2>8, <2>10, <2>11 DEF CertInv
<1> QED BY <1>6, <1>7

\* An email goes out that is later than all that did of its date, and the stamp is its own.
LEMMA SendSteps ==
  ASSUME CertInv, NEW p \in Passes, SendMail(p)
  PROVE  CertInv'
<1>1. PICK o : o = pass[p] /\ o \in MailPass /\ PassFits(p, o) /\ o.pc = "send" /\ o.day = date
  BY PassIs DEF SendMail, PassFits
<1>2. PICK d : d = o.at /\ d \in Listed /\ ListedFits(d)
  BY <1>1 DEF PassFits
<1>3. /\ d.u \in Uploads /\ d.u \in Recorded /\ d.stage \in Mailed /\ d.rev \in Nat /\ pass \in [Passes -> MailPass]
      /\ d.u \notin excused => certUpload[d.u].sent = [day |-> date, by |-> p]
  BY <1>1, <1>2 DEF ListedFits, Listed, CertInv, CertTypes, PassFits
<1>4. UNCHANGED <<date, certUpload, intent, staging, files, onProfile, request, excused>> /\ Recorded' = Recorded
  BY DEF SendMail, objects, Recorded
<1>5. PICK r : /\ ToPass(p, r) /\ r \in MailPass /\ r.due = o.due /\ r.day = date
               /\ \/ /\ r.pc = "next" /\ r.at = NoPass.at
                     /\ told' = told \cup {IF <<d.u, d.stage, d.rev, 1>> \in told THEN <<d.u, d.stage, d.rev, 2>>
                                           ELSE <<d.u, d.stage, d.rev, 1>>}
                  \/ r.pc = "undo" /\ r.at = d /\ told' = told
  <2>1. CASE /\ told' = told \cup {IF <<d.u, d.stage, d.rev, 1>> \in told THEN <<d.u, d.stage, d.rev, 2>>
                                   ELSE <<d.u, d.stage, d.rev, 1>>}
             /\ ToPass(p, [o EXCEPT !.pc = "next", !.at = NoPass.at])
    <3>1. PICK t : t = [o EXCEPT !.pc = "next", !.at = NoPass.at]
      OBVIOUS
    <3>2. t \in MailPass /\ t.due = o.due /\ t.day = date /\ t.pc = "next" /\ t.at = NoPass.at
      BY <1>1, <3>1 DEF MailPass
    <3> QED BY <2>1, <3>1, <3>2
  <2>2. CASE told' = told /\ ToPass(p, [o EXCEPT !.pc = "undo"])
    <3>1. PICK t : t = [o EXCEPT !.pc = "undo"]
      OBVIOUS
    <3>2. t \in MailPass /\ t.due = o.due /\ t.day = date /\ t.pc = "undo" /\ t.at = d
      BY <1>1, <1>2, <3>1 DEF MailPass
    <3> QED BY <2>2, <3>1, <3>2
  <2> QED BY <1>1, <1>2, <2>1, <2>2 DEF SendMail
<1>6. pass' \in [Passes -> MailPass] /\ pass'[p] = r /\ \A q \in Passes \ {p} : pass'[q] = pass[q]
  BY <1>3, <1>5 DEF ToPass
<1>7. CertTypes'
  BY <1>3, <1>4, <1>5, <1>6 DEF CertInv, CertTypes
<1>8. OrdersFit' /\ FileKept' /\ RequestsFit'
  BY <1>4 DEF CertInv, OrdersFit, FileKept, RequestsFit, RequestFits
<1>9. PassesFit'
  <2> SUFFICES ASSUME NEW q \in Passes PROVE PassFits(q, pass[q])'
    BY DEF PassesFit
  <2>1. PICK t : pass'[q] = t /\ t \in MailPass /\ PassFits(q, t)
    <3>1. PassFits(p, r)
      BY <1>1, <1>2, <1>3, <1>5 DEF PassFits
    <3> QED BY <1>5, <1>6, <3>1, PassIs
  <2>2. \A x \in Listed : ListedFits(x) => ListedFits(x)'
    BY <1>4 DEF ListedFits, DueFits
  <2>3. \A x \in t.due : ListedFits(x)'
    BY <2>1, <2>2 DEF PassFits, MailPass
  <2>4. t.pc \in {"send", "undo"} => ListedFits(t.at)'
    BY <2>1, <2>2 DEF PassFits
  <2> QED BY <1>4, <2>1, <2>3, <2>4 DEF PassFits
<1>10. StampsFit'
  <2>1. ASSUME NEW v \in Uploads \ excused
        PROVE  /\ \A mail \in told : mail[1] = v => mail[4] = 1 /\ mail[3] <= certUpload[v].rev
               /\ \A q \in Passes : pass[q].at.u = v => ToldAs(v, pass[q].at.sent)
               /\ ~Sending(v) => ToldAs(v, certUpload[v].sent)
    BY DEF CertInv, StampsFit
  <2>2. \A mail \in told' : mail[1] \in Recorded
    BY <1>3, <1>5 DEF CertInv, StampsFit
  <2>3. ASSUME NEW v \in Uploads \ excused
        PROVE  /\ \A mail \in told' : mail[1] = v => mail[4] = 1 /\ mail[3] <= certUpload[v].rev
               /\ \A q \in Passes : pass'[q].at.u = v => ToldAs(v, pass[q].at.sent)'
               /\ ~Sending(v)' => ToldAs(v, certUpload[v].sent)'
    <3>1. CASE told' = told /\ r.at = d
      <4>1. \A q \in Passes : pass'[q].at = pass[q].at
        BY <1>1, <1>2, <1>6, <3>1
      <4>2. \A q \in Passes : pass'[q].at.u = v => ToldAs(v, pass[q].at.sent)'
        BY <1>4, <2>1, <3>1, <4>1 DEF ToldAs
      <4>3. Sending(v) => Sending(v)'
        BY <4>1 DEF Sending
      <4> QED BY <1>4, <2>1, <3>1, <4>2, <4>3 DEF ToldAs
    <3>2. CASE v # d.u /\ r.at = NoPass.at
      <4>1. \A mail \in told' : mail \in told \/ mail[1] # v
        BY <1>5, <3>2
      <4>2. \A q \in Passes : pass'[q].at.u = v => pass'[q] = pass[q]
        BY <1>6, <3>2, CertBounds DEF NoPass
      <4>3. Sending(v) => Sending(v)'
        <5>1. \A q \in Passes : pass[q].at.u = v => q # p
          BY <1>1, <1>2, <3>2
        <5> QED BY <1>6, <5>1 DEF Sending
      <4>4. \A x \in Reminder : ToldAs(v, x) => ToldAs(v, x)'
        BY <1>4, <1>5, <4>1 DEF ToldAs
      <4>5. \A q \in Passes : pass'[q].at.u = v => ToldAs(v, pass[q].at.sent)'
        <5> SUFFICES ASSUME NEW q \in Passes, pass'[q].at.u = v PROVE ToldAs(v, pass[q].at.sent)'
          OBVIOUS
        <5>1. PICK x : x = pass[q].at.sent /\ x = pass'[q].at.sent /\ x \in Reminder /\ ToldAs(v, x)
          <6>1. pass[q].at.u = v /\ pass[q].at # NoPass.at
            BY <4>2, CertBounds DEF NoPass
          <6> QED BY <1>3, <2>1, <4>2, <6>1 DEF MailPass, Listed
        <5>2. ToldAs(v, x)'
          BY <4>4, <5>1
        <5> QED BY <5>1, <5>2 DEF ToldAs
      <4>6. ~Sending(v)' => ToldAs(v, certUpload[v].sent)'
        <5>1. PICK x : x = certUpload[v].sent /\ x = certUpload'[v].sent /\ x \in Reminder
          BY <1>4 DEF CertInv, CertTypes, UploadRow
        <5>2. ~Sending(v)' => ToldAs(v, x)'
          BY <2>1, <4>3, <4>4, <5>1
        <5> QED BY <5>1, <5>2 DEF ToldAs
      <4> QED BY <2>1, <4>1, <4>5, <4>6
    <3>3. CASE v = d.u /\ r.at = NoPass.at /\ r.pc = "next"
      <4>1. /\ d.rev = certUpload[v].rev /\ d.stage = SentFor([day |-> date, by |-> "nobody"], certUpload[v].until)
            /\ Level(SentFor(d.sent, certUpload[v].until)) < Level(d.stage)
            /\ certUpload[v].sent = [day |-> date, by |-> p]
        BY <1>2, <1>3, <3>3 DEF ListedFits, DueFits
      <4>2. ToldAs(v, d.sent)
        BY <1>1, <1>2, <2>1, <3>3
      <4>3. \A mail \in told : mail[1] = v /\ mail[3] = certUpload[v].rev => Level(mail[2]) < Level(d.stage)
        <5>1. \A mail \in told : Level(mail[2]) \in Nat
          BY DEF Level
        <5>2. Level(SentFor(d.sent, certUpload[v].until)) \in Nat /\ Level(d.stage) \in Nat
          BY DEF Level
        <5> QED BY <4>1, <4>2, <5>1, <5>2 DEF ToldAs
      <4>4. PICK mail : mail = <<v, d.stage, d.rev, 1>> /\ told' = told \cup {mail}
        <5>1. <<v, d.stage, d.rev, 1>> \notin told
          <6>1. Level(d.stage) \in Nat
            BY DEF Level
          <6> QED BY <4>1, <4>3, <6>1
        <5> QED BY <1>5, <3>3, <5>1
      <4>5. mail[1] = v /\ mail[2] = d.stage /\ mail[3] = certUpload[v].rev /\ mail[4] = 1
        BY <4>1, <4>4
      <4>6. SentFor(certUpload[v].sent, certUpload[v].until) = d.stage
        BY <4>1 DEF SentFor
      <4>7. ToldAs(v, certUpload[v].sent)'
        <5>1. \A x \in told' : x[1] = v /\ x[3] = certUpload[v].rev => Level(x[2]) <= Level(d.stage)
          <6>1. Level(d.stage) \in Nat /\ \A x \in told : Level(x[2]) \in Nat
            BY DEF Level
          <6> QED BY <4>3, <4>4, <4>5, <6>1
        <5>2. <<v, d.stage, certUpload[v].rev, 1>> \in told'
          BY <4>1, <4>4
        <5> QED BY <1>4, <4>6, <5>1, <5>2 DEF ToldAs
      <4>8. \A q \in Passes : pass'[q].at.u # v
        <5> SUFFICES ASSUME NEW q \in Passes, pass'[q].at.u = v PROVE FALSE
          OBVIOUS
        <5>1. q # p
          BY <1>6, <3>3, CertBounds DEF NoPass
        <5>2. pass[q].at.u = v /\ pass[p].at.u = v
          BY <1>1, <1>2, <1>6, <3>3, <5>1
        <5> QED BY <5>1, <5>2, OneSender
      <4>9. certUpload[v].rev \in Nat
        BY DEF CertInv, CertTypes, UploadRow
      <4> QED BY <2>1, <4>4, <4>5, <4>7, <4>8, <4>9
    <3> QED BY <1>5, <3>1, <3>2, <3>3
  <2> QED BY <1>4, <2>2, <2>3 DEF StampsFit
<1> QED BY <1>7, <1>8, <1>9, <1>10 DEF CertInv

\* A claim is undone to the stamp it replaced.
LEMMA UnclaimSteps ==
  ASSUME CertInv, NEW p \in Passes, Unclaim(p)
  PROVE  CertInv'
<1>1. PICK o : o = pass[p] /\ o \in MailPass /\ PassFits(p, o) /\ o.pc = "undo" /\ o.day = date
  BY PassIs DEF Unclaim, PassFits
<1>2. PICK d, u : d = o.at /\ d \in Listed /\ ListedFits(d) /\ u = d.u
  BY <1>1 DEF PassFits
<1>3. /\ u \in Uploads /\ u \in Recorded /\ d.sent \in Reminder /\ pass \in [Passes -> MailPass]
      /\ u \notin excused => certUpload[u].sent = [day |-> date, by |-> p]
      /\ certUpload \in [Uploads -> UploadRow] /\ certUpload[u].sent \in Reminder
  BY <1>1, <1>2 DEF ListedFits, Listed, CertInv, CertTypes, PassFits, UploadRow
<1>4. UNCHANGED <<date, intent, staging, files, onProfile, request, told, excused>>
  BY DEF Unclaim, objects
<1>5. PICK sent \in Reminder :
        /\ certUpload' = [certUpload EXCEPT ![u].sent = sent]
        /\ u \notin excused => sent = d.sent
  <2>1. PICK sent : sent = IF certUpload[u].sent = ReminderStamp(p) THEN d.sent ELSE certUpload[u].sent
    OBVIOUS
  <2>2. certUpload' = [certUpload EXCEPT ![u].sent = sent]
    BY <1>1, <1>2, <2>1 DEF Unclaim, Swapped
  <2>3. ReminderStamp(p) = [day |-> date, by |-> p]
    BY <1>1 DEF ReminderStamp
  <2> QED BY <1>3, <2>1, <2>2, <2>3
<1>6. PICK r : r = [o EXCEPT !.pc = "next", !.at = NoPass.at]
  OBVIOUS
<1>7. r \in MailPass /\ r.pc = "next" /\ r.at = NoPass.at /\ r.due = o.due /\ r.day = date
  BY <1>1, <1>6 DEF MailPass
<1>8. pass' \in [Passes -> MailPass] /\ pass'[p] = r /\ \A q \in Passes \ {p} : pass'[q] = pass[q]
  BY <1>1, <1>3, <1>6, <1>7 DEF Unclaim, ToPass
<1>9. /\ Recorded' = Recorded /\ CertTypes' /\ OrdersFit' /\ RequestsFit' /\ FileKept'
      /\ certUpload'[u].sent = sent /\ \A v \in Uploads \ {u} : certUpload'[v] = certUpload[v]
      /\ \A v \in Uploads : certUpload'[v].until = certUpload[v].until /\ certUpload'[v].rev = certUpload[v].rev
      /\ \A x \in Listed : ListedFits(x) => ListedFits(x)'
      /\ \A v \in Uploads, x \in Reminder : ToldAs(v, x) => ToldAs(v, x)'
  BY <1>3, <1>4, <1>5, <1>8, SentMoves
<1>10. ASSUME u \notin excused, NEW q \in Passes, pass[q].at.u = u PROVE q = p
  BY <1>1, <1>2, <1>3, <1>10, OneSender
<1>11. PassesFit'
  <2> SUFFICES ASSUME NEW q \in Passes PROVE PassFits(q, pass[q])'
    BY DEF PassesFit
  <2>1. CASE q = p
    <3>1. \A x \in r.due : ListedFits(x)'
      BY <1>1, <1>7, <1>9 DEF PassFits, MailPass
    <3> QED BY <1>4, <1>7, <1>8, <2>1, <3>1 DEF PassFits
  <2>2. CASE q # p
    <3>1. PICK t : t = pass[q] /\ pass'[q] = t /\ t \in MailPass /\ PassFits(q, t)
      BY <1>8, <2>2, PassIs
    <3>2. \A x \in t.due : ListedFits(x)'
      BY <1>9, <3>1 DEF PassFits, MailPass
    <3>3. t.pc \in {"send", "undo"} => ListedFits(t.at)' /\ t.at.u \in Uploads
      BY <1>9, <3>1 DEF PassFits, Listed
    <3>4. t.pc \in {"send", "undo"} /\ t.at.u \notin excused => certUpload'[t.at.u].sent = [day |-> date, by |-> q]
      BY <1>9, <1>10, <2>2, <3>1, <3>3 DEF PassFits
    <3> QED BY <1>4, <3>1, <3>2, <3>3, <3>4 DEF PassFits
  <2> QED BY <2>1, <2>2
<1>12. StampsFit'
  <2>1. ASSUME NEW v \in Uploads \ excused
        PROVE  /\ \A mail \in told : mail[1] = v => mail[4] = 1 /\ mail[3] <= certUpload'[v].rev
               /\ \A q \in Passes : pass'[q].at.u = v => ToldAs(v, pass[q].at.sent)'
               /\ ~Sending(v)' => ToldAs(v, certUpload[v].sent)'
    <3>1. /\ \A mail \in told : mail[1] = v => mail[4] = 1 /\ mail[3] <= certUpload[v].rev
          /\ \A q \in Passes : pass[q].at.u = v => ToldAs(v, pass[q].at.sent)
          /\ ~Sending(v) => ToldAs(v, certUpload[v].sent)
      BY DEF CertInv, StampsFit
    <3>2. CASE v = u
      <4>1. \A q \in Passes : pass'[q].at.u # u
        BY <1>3, <1>7, <1>8, <1>10, <3>2, CertBounds DEF NoPass
      <4>2. ToldAs(u, d.sent)'
        BY <1>1, <1>2, <1>3, <1>9, <3>1, <3>2
      <4>3. ToldAs(u, certUpload[u].sent)'
        BY <1>5, <1>9, <3>2, <4>2 DEF ToldAs
      <4> QED BY <1>9, <3>1, <3>2, <4>1, <4>3
    <3>3. CASE v # u
      <4>1. \A q \in Passes : pass'[q].at.u = v => pass'[q] = pass[q]
        BY <1>7, <1>8, CertBounds DEF NoPass
      <4>2. Sending(v) => Sending(v)'
        <5>1. \A q \in Passes : pass[q].at.u = v => q # p
          BY <1>1, <1>2, <3>3
        <5> QED BY <1>8, <5>1 DEF Sending
      <4>3. \A q \in Passes : pass'[q].at.u = v => ToldAs(v, pass[q].at.sent)'
        <5> SUFFICES ASSUME NEW q \in Passes, pass'[q].at.u = v PROVE ToldAs(v, pass[q].at.sent)'
          OBVIOUS
        <5>1. PICK x : x = pass[q].at.sent /\ x = pass'[q].at.sent /\ x \in Reminder /\ ToldAs(v, x)
          <6>1. pass[q].at.u = v /\ pass[q].at # NoPass.at
            BY <4>1, CertBounds DEF NoPass
          <6> QED BY <1>3, <3>1, <4>1, <6>1 DEF MailPass, Listed
        <5>2. ToldAs(v, x)'
          BY <1>9, <5>1
        <5> QED BY <5>1, <5>2 DEF ToldAs
      <4>4. ~Sending(v)' => ToldAs(v, certUpload[v].sent)'
        <5>1. PICK x : x = certUpload[v].sent /\ x = certUpload'[v].sent /\ x \in Reminder
          BY <1>3, <1>9, <3>3 DEF UploadRow
        <5>2. ~Sending(v)' => ToldAs(v, x)'
          BY <1>9, <3>1, <4>2, <5>1
        <5> QED BY <5>1, <5>2 DEF ToldAs
      <4> QED BY <1>9, <3>1, <4>3, <4>4
    <3> QED BY <3>2, <3>3
  <2>2. \A mail \in told : mail[1] \in Recorded'
    BY <1>9 DEF CertInv, StampsFit
  <2> QED BY <1>4, <2>1, <2>2 DEF StampsFit
<1> QED BY <1>9, <1>11, <1>12 DEF CertInv

LEMMA DateSteps ==
  ASSUME CertInv, NextDate
  PROVE  CertInv'
<1>1. UNCHANGED <<certUpload, intent, staging, files, onProfile, request, pass, told, excused>> /\ Recorded' = Recorded
  BY DEF NextDate, objects, mailing, Recorded
<1>2. \A p \in Passes : pass[p] = NoPass
  BY PassIs DEF NextDate, PassFits
<1>3. CertTypes'
  BY <1>1, CertBounds DEF NextDate, CertInv, CertTypes, Dates
<1>4. OrdersFit' /\ FileKept' /\ RequestsFit'
  BY <1>1 DEF CertInv, OrdersFit, FileKept, RequestsFit, RequestFits
<1>5. PassesFit'
  BY <1>1, <1>2 DEF PassesFit, PassFits, NoPass
<1>6. StampsFit'
  BY <1>1 DEF CertInv, StampsFit, ToldAs, Sending
<1> QED BY <1>3, <1>4, <1>5, <1>6 DEF CertInv

LEMMA CertSteps == CertInv /\ [CertNext]_certVars => CertInv'
<1> SUFFICES ASSUME CertInv, [CertNext]_certVars PROVE CertInv'
  OBVIOUS
<1>1. CASE UNCHANGED certVars
  BY <1>1, ProfileMoves DEF certVars, CertInv, CertTypes
<1>2. CASE CertNext
  <2>1. CASE NextDate
    BY <2>1, DateSteps
  <2>2. CASE LeaveProfile
    BY <2>2, CertBounds, ProfileSteps
  <2>3. ASSUME NEW u \in Uploads, UploadUrl(u) \/ PutFile(u) PROVE CertInv'
    BY <2>3, ProfileSteps
  <2>4. ASSUME NEW s \in Requests,
               \/ ReadIntent(s) \/ ReadStaged(s) \/ PutFinal(s) \/ InsertOnce(s) \/ Winner(s)
               \/ Discard(s) \/ Review(s) \/ DeleteFile(s) \/ DieRequest(s)
        PROVE CertInv'
    BY <2>4, CertBounds, ConfirmSteps, PutFinalSteps, InsertSteps, WinnerSteps, ReviewSteps, DeleteFileSteps
  <2>5. ASSUME NEW s \in Requests, NEW u \in Uploads,
               \/ Confirm(s, u)
               \/ \E status \in Statuses, until \in Dates \cup {0} : Load(s, u, status, until)
        PROVE CertInv'
    BY <2>5, ConfirmSteps, LoadSteps
  <2>6. ASSUME NEW p \in Passes,
               \/ StartPass(p) \/ ListCandidates(p) \/ KeepCurrent(p)
               \/ SendMail(p) \/ Unclaim(p) \/ EndPass(p) \/ DiePass(p)
               \/ \E d \in pass[p].due : ClaimMail(p, d)
        PROVE CertInv'
    BY <2>6, RestingSteps, ListSteps, SendSteps, UnclaimSteps, ClaimSteps
  <2> QED BY <1>2, <2>1, <2>2, <2>3, <2>4, <2>5, <2>6 DEF CertNext
<1> QED BY <1>1, <1>2

LEMMA CertificationsAre == CertInv => CertificationsKept
<1> SUFFICES ASSUME CertInv PROVE CertificationsKept
  OBVIOUS
<1>1. CertTypeOK
  <2>1. Recorded \subseteq Uploads /\ Cardinality(Recorded) <= Cardinality(Uploads) /\ Cardinality(Uploads) \in Nat
        /\ Cardinality(Recorded) \in Nat
    BY CertBounds, RecordedFinite, FS_Subset, FS_CardinalityType DEF Recorded
  <2>2. \A u \in Uploads : u \notin Recorded => certUpload[u].order = 0
    BY DEF CertInv, OrdersFit, NoUpload
  <2>3. \A u \in Recorded : certUpload[u].order \in 1 .. Cardinality(Uploads)
    BY <2>1 DEF CertInv, OrdersFit
  <2>4. ASSUME NEW u \in Uploads, NEW v \in Uploads, certUpload[u].order = certUpload[v].order
        PROVE  u = v \/ certUpload[u].order = 0
    BY <2>1, <2>2, <2>3, <2>4 DEF CertInv, OrdersFit
  <2>5. \A u \in Uploads : certUpload[u].order \in 0 .. Cardinality(Uploads)
    BY <2>1, <2>2, <2>3
  <2>6. \A u \in Uploads : /\ certUpload[u].status \in Statuses \cup {"none"}
                           /\ certUpload[u].until \in Dates \cup {0} /\ intent[u] \in Dates \cup {0}
                           /\ staging[u] \in {"none", "x", "y", "bad"}
    BY DEF CertInv, CertTypes, UploadRow
  <2> QED BY <2>4, <2>5, <2>6 DEF CertTypeOK, CertInv, CertTypes
<1>2. StampIsTrue
  BY DEF CertInv, StampsFit, StampIsTrue, ToldAs
<1> QED BY <1>1, <1>2 DEF CertificationsKept, CertInv

(* An upload that counts has the file it is recorded under, uploads of a certification      *)
(* have places of their own, and an email is stamped as it went out, once for a date:       *)
(* for any uploads, confirms, reviews and passes at the same time, and any window.          *)
THEOREM Kept == CertSpec => []CertificationsKept
<1>1. CertInit => CertInv
  BY CertInitHolds
<1>2. CertInv /\ [CertNext]_certVars => CertInv'
  BY CertSteps
<1>3. CertInv => CertificationsKept
  BY CertificationsAre
<1> QED BY <1>1, <1>2, <1>3, PTL DEF CertSpec

=============================================================================
