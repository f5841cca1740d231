---- MODULE DocumentVersions ----
(* The language versions of a document to sign: the main PDF of a template, the versions in   *)
(* other languages, and the version a signer completes.                                        *)
(*   documents/document-templates.service.ts, document-templates.repository.ts,                  *)
(*   template-versions.ts, document-signing.service.ts,                                           *)
(*   supabase/migrations/298_document_template_translations.sql                                    *)
(* An edit loads the template, looks for a completed assignment, and writes: the object of the     *)
(* version first, its row after it. DocumentSigning has the life of one version; here are the        *)
(* rules between them.                                                                                *)
EXTENDS Naturals, FiniteSets

CONSTANTS
  Editors, Signers,   \* requests of administrators; of the one signer
  MaxEdits,           \* bound: edits
  MaxVersionFaults           \* bound: requests that die, objects that are not deleted

VARIABLES
  lang,       \* source_language of the template
  version,    \* version[k]: the row of the main PDF, or of a translation
  object,     \* object[k]: the stored PDF
  copy,       \* what the assignment was completed with
  edit,       \* edit[e], sign[s]: the requests in progress
  sign,
  mixed,      \* history: versions an edit has met another request on, or died on
  clash,      \* history: a change of the source language met an edit of a translation
  edits, versionFaults

versionVars == <<lang, version, object, copy, edit, sign, mixed, clash, edits, versionFaults>>

Langs == {"en", "zh"}
Main == "main"
Keys == {Main} \cup Langs
Files == 1..3
PageSizes(pdf) == IF pdf = 3 THEN 2 ELSE 1      \* the first two have pages of the same size
Empty == [there |-> FALSE, pdf |-> 0, pages |-> 0, fields |-> 0]
NoCopy == [key |-> "none", language |-> "none", pdf |-> 0, fields |-> 0]
NoEdit == [pc |-> "idle", kind |-> "none", key |-> Main, before |-> Empty, pdf |-> 0, to |-> "none"]
NoSign == [pc |-> "idle", key |-> Main, language |-> "none", read |-> Empty, copy |-> NoCopy]

Ready(pdf) == [there |-> TRUE, pdf |-> pdf, pages |-> PageSizes(pdf), fields |-> PageSizes(pdf)]

(* A template that was just created, or one that is ready in two languages. *)
VersionsInit ==
  /\ \/ /\ lang = "none" /\ object = [k \in Keys |-> 0]
        /\ version = [k \in Keys |-> [Empty EXCEPT !.there = (k = Main)]]
     \/ /\ lang = "en" /\ object = [k \in Keys |-> IF k = "en" THEN 0 ELSE 1]
        /\ version = [k \in Keys |-> IF k = "en" THEN Empty ELSE Ready(1)]
  /\ copy = NoCopy
  /\ edit = [e \in Editors |-> NoEdit] /\ sign = [s \in Signers |-> NoSign]
  /\ mixed = {} /\ clash = FALSE /\ edits = 0 /\ versionFaults = 0

IsCompleted == copy # NoCopy
Fault == versionFaults < MaxVersionFaults /\ versionFaults' = versionFaults + 1
NoFault == UNCHANGED versionFaults
To(e, o) == edit' = [edit EXCEPT ![e] = o]
Step(e, pc) == To(e, [edit[e] EXCEPT !.pc = pc])
EndEdit(e) == To(e, NoEdit)
versionRows == <<lang, version>>
history == <<mixed, clash>>
signing == <<copy, sign>>

EditsOn(k) == {e \in Editors : edit[e].pc # "idle" /\ edit[e].kind # "language" /\ edit[e].key = k}
SignsOn(k) == {s \in Signers : sign[s].pc # "idle" /\ sign[s].key = k}
LanguageEdits == {e \in Editors : edit[e].pc # "idle" /\ edit[e].kind = "language"}

------------------------------------------------------------------------------
(* update: the source language may not become that of a translation, nor none beside one. *)
LanguageFree(to) == \A l \in Langs : version[l].there => to \notin {l, "none"}
LanguageFreeOfItself(to) == \A l \in Langs : version[l].there => to # "none"
MayBecome(to) == LanguageFree(to)

StartLanguage(e, to) ==
  /\ edit[e].pc = "idle" /\ edits < MaxEdits /\ MayBecome(to)
  /\ edits' = edits + 1
  /\ To(e, [NoEdit EXCEPT !.pc = "write", !.kind = "language", !.to = to])
  /\ clash' = (clash \/ LanguageEdits # {} \/ \E l \in Langs : EditsOn(l) # {})
  /\ mixed' = IF SignsOn(Main) # {} THEN mixed \cup {Main} ELSE mixed
  /\ UNCHANGED <<versionRows, object, signing, versionFaults>>

(* load and loadTranslatable: a translation needs a source language, and another one. *)
Editable(k) == k = Main \/ lang \notin {"none", k}

(* confirmSource, putFields, their counterparts for a translation, and removeTranslation. *)
Start(e, kind, k) ==
  /\ edit[e].pc = "idle" /\ edits < MaxEdits /\ Editable(k)
  /\ kind = "remove" => k # Main /\ version[k].there
  /\ kind = "fields" => version[k].pages # 0
  /\ edits' = edits + 1
  /\ To(e, [NoEdit EXCEPT !.pc = "check", !.kind = kind, !.key = k, !.before = version[k]])
  /\ mixed' = IF EditsOn(k) \cup SignsOn(k) # {} THEN mixed \cup {k} ELSE mixed
  /\ clash' = (clash \/ (k # Main /\ LanguageEdits # {}))
  /\ UNCHANGED <<versionRows, object, signing, versionFaults>>

Locked == IsCompleted
LockedNever == FALSE
Refused == Locked

CheckEdit(e) ==
  /\ edit[e].pc = "check"
  /\ IF Refused THEN EndEdit(e) ELSE Step(e, IF edit[e].kind = "source" THEN "put" ELSE "write")
  /\ UNCHANGED <<versionRows, object, signing, history, edits, versionFaults>>

(* normaliseUpload, of whatever PDF was put up, and its copy under the key of the source. *)
Put(e) ==
  /\ edit[e].pc = "put"
  /\ \E pdf \in Files \cup {0} :
       IF pdf = 0
       THEN EndEdit(e) /\ UNCHANGED object
       ELSE /\ object' = [object EXCEPT ![edit[e].key] = pdf]
            /\ To(e, [edit[e] EXCEPT !.pc = "write", !.pdf = pdf])
  /\ UNCHANGED <<versionRows, signing, history, edits, versionFaults>>

(* Placed fields stay while the layout of the pages does. *)
FieldsCleared(o) == o.before.fields # 0 /\ o.before.pages # PageSizes(o.pdf)
FieldsClearedNever(o) == FALSE
Clears(o) == FieldsCleared(o)

Write(e) ==
  /\ edit[e].pc = "write"
  /\ LET o == edit[e] k == edit[e].key
         row(v) == version' = [version EXCEPT ![k] = v] /\ UNCHANGED lang IN
     CASE o.kind = "language" -> lang' = o.to /\ EndEdit(e) /\ UNCHANGED version
       [] o.kind = "source" ->
            /\ row([there |-> TRUE, pdf |-> o.pdf, pages |-> PageSizes(o.pdf),
                    fields |-> IF Clears(o) \/ ~o.before.there THEN 0 ELSE version[k].fields])
            /\ EndEdit(e)
       [] o.kind = "fields" ->
            row([version[k] EXCEPT !.there = TRUE, !.fields = o.before.pages]) /\ EndEdit(e)
       [] o.kind = "remove" ->
            /\ IF version[k].there THEN Step(e, "discardSource") ELSE EndEdit(e)
            /\ row(Empty)
  /\ UNCHANGED <<object, signing, history, edits, versionFaults>>

(* discardUpload: an object that cannot be deleted is left. *)
DiscardSource(e) ==
  /\ edit[e].pc = "discardSource"
  /\ EndEdit(e)
  /\ \/ object' = [object EXCEPT ![edit[e].key] = 0] /\ NoFault
     \/ UNCHANGED object /\ Fault
  /\ UNCHANGED <<versionRows, signing, history, edits>>

EditDies(e) ==
  /\ edit[e].pc # "idle" /\ Fault
  /\ EndEdit(e)
  /\ mixed' = IF edit[e].pdf # 0 /\ edit[e].pc = "write" THEN mixed \cup {edit[e].key} ELSE mixed
  /\ UNCHANGED <<versionRows, object, signing, clash, edits>>

------------------------------------------------------------------------------
(* complete: no language, or the main one, is the main PDF; another is a translation that has *)
(* its PDF and its fields.                                                                     *)
VersionFor(l) == IF l \in {"none", lang} THEN Main ELSE l
ReadyForSigners(v) == v.pdf # 0 /\ v.fields # 0

Sign(s, l) ==
  /\ sign[s].pc = "idle" /\ ~IsCompleted
  /\ LET k == VersionFor(l) IN
     /\ ReadyForSigners(version[k])
     /\ sign' = [sign EXCEPT ![s] = [NoSign EXCEPT !.pc = "read", !.key = k, !.read = version[k],
                                       !.language = IF k = Main THEN lang ELSE k]]
     /\ mixed' = IF EditsOn(k) # {} \/ (k = Main /\ LanguageEdits # {}) THEN mixed \cup {k} ELSE mixed
  /\ UNCHANGED <<versionRows, object, copy, edit, clash, edits, versionFaults>>

(* signAndStore: the assignment again, the bytes as they are now, the fields as they were. *)
Stamp(s) ==
  /\ sign[s].pc = "read"
  /\ LET r == sign[s] IN
     sign' = [sign EXCEPT ![s] =
                IF IsCompleted \/ object[r.key] = 0 THEN NoSign
                ELSE [r EXCEPT !.pc = "mark",
                        !.copy = [key |-> r.key, language |-> r.language, pdf |-> object[r.key],
                                  fields |-> r.read.fields]]]
  /\ UNCHANGED <<versionRows, object, copy, edit, history, edits, versionFaults>>

(* markCompleted. *)
Mark(s) ==
  /\ sign[s].pc = "mark"
  /\ copy' = IF IsCompleted THEN copy ELSE sign[s].copy
  /\ sign' = [sign EXCEPT ![s] = NoSign]
  /\ UNCHANGED <<versionRows, object, edit, history, edits, versionFaults>>

VersionsNext ==
  \/ \E e \in Editors :
       \/ CheckEdit(e) \/ Put(e) \/ Write(e) \/ DiscardSource(e) \/ EditDies(e)
       \/ \E to \in Langs \cup {"none"} : StartLanguage(e, to)
       \/ \E kind \in {"source", "fields", "remove"}, k \in Keys : Start(e, kind, k)
  \/ \E s \in Signers : Stamp(s) \/ Mark(s) \/ \E l \in Langs \cup {"none"} : Sign(s, l)

VersionsSpec == VersionsInit /\ [][VersionsNext]_versionVars

------------------------------------------------------------------------------
(* The versions stand apart: whatever happens to the others, a version no edit has raced on  *)
(* has its PDF in the bucket and its fields on that PDF's pages, and one that was signed is     *)
(* still as it was signed, in the language the assignment records. No translation is in the     *)
(* language of the main PDF, unless that changed while a translation was being edited.           *)
VersionsStandApart ==
  /\ \A k \in Keys \ mixed :
       LET v == version[k] IN
       /\ v.fields \in {0, v.pages}
       /\ v.pdf # 0 /\ EditsOn(k) = {} => object[k] = v.pdf
       /\ copy.key = k =>
            /\ v.pdf = copy.pdf /\ v.fields = copy.fields /\ v.pages = copy.fields
            /\ copy.language = (IF k = Main THEN copy.language ELSE k)
  /\ ~clash => \A l \in Langs : version[l].there => lang \notin {l, "none"}
====
