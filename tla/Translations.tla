---- MODULE Translations ----
(* Texts in two languages of which one may be the translator's: the bios of a profile,     *)
(* translated in the background (Bio...), and the names of reference rows, translated as    *)
(* they are saved (Name...). The two share the rule that a person's text wins, and nothing  *)
(* else: each is a machine of its own.                                                      *)
EXTENDS Integers, FiniteSets

------------------------------------------------------------------------------
(* Saving the bios of a profile and translating them in the background:           *)
(*   instructors/instructors.service.ts (applyUpdate), update_instructor_profile   *)
(*   and stamp_bio_updated_at of supabase/migrations/282_bio_ai_drafts.sql         *)
(*   bio-translation/translation-queue.service.ts, translation-worker.service.ts   *)
(* A save reads the row, patches it, reads it again and replaces the job; a worker *)
(* translates what it loaded and writes it if neither bio has changed since. Texts *)
(* are numbers, 0 is no text and -n the translation of n. A step is one query or   *)
(* one call of the translator.                                                    *)

CONSTANTS
  Texts,         \* what people write
  Savers,        \* saves under way at once
  Translators,   \* workers
  MaxSaves,      \* bound: saves
  MaxAttempts,   \* max_attempts
  MaxFaults      \* bound: failed calls, crashes

VARIABLES
  bio,           \* bio[l]: text, machine_translated, updated_at
  save,          \* save[s]
  jobs,          \* bio_translation_jobs, by id; those that were deleted have no target
  worker,        \* worker[w]
  saves,         \* saves so far, the time of the database
  overwritten,   \* history: the worker wrote over a person's text
  excusedBio,    \* history: saves that overlapped, calls that failed, an own save
  bioFaults

bioVars == <<bio, save, jobs, worker, saves, overwritten, excusedBio, bioFaults>>

Langs == {"en", "zh"}
Other(l) == IF l = "en" THEN "zh" ELSE "en"
NoBio == [text |-> 0, machine |-> FALSE, at |-> 0]
NoSave == [pc |-> "idle", own |-> FALSE, dto |-> <<>>, before |-> <<>>, after |-> <<>>]
NoJob == [target |-> "none", text |-> 0, status |-> "deleted", attempts |-> 0]
NoWork == [pc |-> "idle", id |-> 0, state |-> <<>>]
JobIds == 1 .. MaxSaves
Active(j) == jobs[j].status \in {"pending", "processing"}

BioInit ==
  /\ bio = [l \in Langs |-> IF l = "en" THEN [NoBio EXCEPT !.text = CHOOSE t \in Texts : TRUE] ELSE NoBio]
  /\ save = [s \in Savers |-> NoSave]
  /\ jobs = [j \in JobIds |-> NoJob]
  /\ worker = [w \in Translators |-> NoWork]
  /\ saves = 0 /\ overwritten = FALSE /\ excusedBio = FALSE /\ bioFaults = 0

Fault == bioFaults < MaxFaults /\ bioFaults' = bioFaults + 1

------------------------------------------------------------------------------
(* InstructorsService.applyUpdate *)

(* findById: what the save compares with. An instructor's own save queues nothing. *)
StartSave(s, own, langs) ==
  /\ save[s].pc = "idle" /\ saves < MaxSaves
  /\ saves' = saves + 1
  /\ \E dto \in [langs -> Texts \cup {0}] :
       save' = [save EXCEPT ![s] = [NoSave EXCEPT !.pc = "patch", !.own = own, !.dto = dto, !.before = bio]]
  /\ excusedBio' = (excusedBio \/ own \/ \E t \in Savers : save[t].pc # "idle")
  /\ UNCHANGED <<bio, jobs, worker, overwritten, bioFaults>>

(* update_instructor_profile: a text that was sent and differs from the one that    *)
(* was read is the person's; the trigger dates a text that changes. Both languages  *)
(* sent by the instructor are dated alike.                                          *)
Touched(s) == {l \in DOMAIN save[s].dto : save[s].dto[l] # save[s].before[l].text}
Synced(s) == save[s].own /\ DOMAIN save[s].dto = Langs

Patched(s) ==
  [l \in Langs |->
     LET text == IF l \in Touched(s) THEN save[s].dto[l] ELSE bio[l].text
     IN [text |-> text,
         machine |-> bio[l].machine /\ l \notin Touched(s),
         at |-> IF Synced(s) \/ text # bio[l].text THEN saves ELSE bio[l].at]]

Patch(s) ==
  /\ save[s].pc = "patch"
  /\ bio' = Patched(s)
  /\ save' = [save EXCEPT ![s].pc = "reread"]
  /\ UNCHANGED <<jobs, worker, saves, overwritten, excusedBio, bioFaults>>

(* planTranslationJob: one language edited by a person, the other empty or a        *)
(* machine's.                                                                       *)
Edited(before, after) == {l \in Langs : after[l].text # before[l].text /\ ~after[l].machine}
Target(before, after) == Other(CHOOSE l \in Edited(before, after) : TRUE)
PlannedIfEmpty(before, after) ==      \* mutation: only an empty target is translated
  /\ Cardinality(Edited(before, after)) = 1
  /\ after[Target(before, after)].text = 0 /\ after[Other(Target(before, after))].text # 0
Planned(before, after) ==
  /\ Cardinality(Edited(before, after)) = 1
  /\ LET to == Target(before, after) IN
     after[Other(to)].text # 0 /\ (after[to].text = 0 \/ after[to].machine)

Reread(s) ==
  /\ save[s].pc = "reread"
  /\ save' = [save EXCEPT ![s] =
       IF ~save[s].own /\ Touched(s) # {} /\ Planned(save[s].before, bio)
       THEN [@ EXCEPT !.pc = "clear", !.after = bio] ELSE NoSave]
  /\ UNCHANGED <<bio, jobs, worker, saves, overwritten, excusedBio, bioFaults>>

(* enqueueForProfile: outstanding jobs go, whoever has them, and the new one comes; *)
(* bio_translation_jobs_active_uniq lets one of two concurrent ones in. It throws   *)
(* nothing.                                                                         *)
TargetOf(s) == Target(save[s].before, save[s].after)
Outstanding(s) == {j \in JobIds : jobs[j].target = TargetOf(s) /\ Active(j)}

ClearJobs(s) ==
  /\ save[s].pc = "clear"
  /\ jobs' = [j \in JobIds |-> IF j \in Outstanding(s) THEN NoJob ELSE jobs[j]]
  /\ save' = [save EXCEPT ![s].pc = "insert"]
  /\ UNCHANGED <<bio, worker, saves, overwritten, excusedBio, bioFaults>>

FreeId == CHOOSE j \in JobIds : jobs[j] = NoJob /\ \A w \in Translators : worker[w].id # j

InsertJob(s) ==
  /\ save[s].pc = "insert"
  /\ IF Outstanding(s) # {} THEN UNCHANGED jobs
     ELSE jobs' = [jobs EXCEPT ![FreeId] = [NoJob EXCEPT
            !.target = TargetOf(s), !.text = save[s].after[Other(TargetOf(s))].text, !.status = "pending"]]
  /\ save' = [save EXCEPT ![s] = NoSave]
  /\ UNCHANGED <<bio, worker, saves, overwritten, excusedBio, bioFaults>>

------------------------------------------------------------------------------
(* TranslationWorkerService.processNext *)

ToWorker(w, r) == worker' = [worker EXCEPT ![w] = r]

(* A due job; the backoff of a retry passes some time. *)
Poll(w, j) ==
  /\ worker[w].pc = "idle" /\ jobs[j].status = "pending"
  /\ ToWorker(w, [NoWork EXCEPT !.pc = "claim", !.id = j])
  /\ UNCHANGED <<bio, save, jobs, saves, overwritten, excusedBio, bioFaults>>

ClaimJob(w) ==
  /\ worker[w].pc = "claim"
  /\ LET j == worker[w].id IN
     IF jobs[j].status = "pending"
     THEN /\ jobs' = [jobs EXCEPT ![j].status = "processing", ![j].attempts = @ + 1]
          /\ ToWorker(w, [worker[w] EXCEPT !.pc = "load", !.state = jobs'[j]])
     ELSE ToWorker(w, NoWork) /\ UNCHANGED jobs
  /\ UNCHANGED <<bio, save, saves, overwritten, excusedBio, bioFaults>>

(* markStatus changes nothing when the job was deleted. *)
Marked(w, status) ==
  /\ jobs' = IF jobs[worker[w].id] = NoJob THEN jobs ELSE [jobs EXCEPT ![worker[w].id].status = status]
  /\ ToWorker(w, NoWork)

Writable(b) == b.machine \/ b.text = 0

LoadBios(w) ==
  /\ worker[w].pc = "load"
  /\ LET job == worker[w].state IN
     IF Writable(bio[job.target]) /\ bio[Other(job.target)].text = job.text
     THEN /\ ToWorker(w, [worker[w] EXCEPT !.pc = "translate", !.state = [job |-> job, bios |-> bio]])
          /\ UNCHANGED jobs
     ELSE Marked(w, "skipped")
  /\ UNCHANGED <<bio, save, saves, overwritten, excusedBio, bioFaults>>

(* The stub, or a model without an answer, returns no text. *)
Translate(w) ==
  /\ worker[w].pc = "translate"
  /\ \/ ToWorker(w, [worker[w] EXCEPT !.pc = "apply"]) /\ UNCHANGED <<jobs, excusedBio>>
     \/ Marked(w, "skipped") /\ excusedBio' = TRUE
  /\ UNCHANGED <<bio, save, saves, overwritten, bioFaults>>

(* applyTranslation: both bios as they were loaded, and dated alike. *)
TargetOnly(seen, to) == bio[Other(to)] = seen[Other(to)]  \* mutation: the target is not compared
Unchanged(seen, to) == /\ bio[Other(to)].text = seen[Other(to)].text
                       /\ bio[Other(to)].at = seen[Other(to)].at
                       /\ bio[to].text = seen[to].text /\ bio[to].machine = seen[to].machine

Apply(w) ==
  /\ worker[w].pc = "apply"
  /\ LET job == worker[w].state.job
         seen == worker[w].state.bios
         source == seen[Other(job.target)]
     IN IF Unchanged(seen, job.target)
        THEN /\ bio' = [bio EXCEPT ![job.target] = [text |-> - source.text, machine |-> TRUE, at |-> source.at]]
             /\ overwritten' = (overwritten \/ ~Writable(bio[job.target]))
             /\ ToWorker(w, [worker[w] EXCEPT !.pc = "done"])
             /\ UNCHANGED jobs
        ELSE Marked(w, "skipped") /\ UNCHANGED <<bio, overwritten>>
  /\ UNCHANGED <<save, saves, excusedBio, bioFaults>>

Complete(w) ==
  /\ worker[w].pc = "done" /\ Marked(w, "completed")
  /\ UNCHANGED <<bio, save, saves, overwritten, excusedBio, bioFaults>>

(* handleFailure. *)
Fails(w) ==
  /\ worker[w].pc \in {"load", "translate", "apply"} /\ Fault
  /\ IF jobs[worker[w].id].attempts >= MaxAttempts
     THEN Marked(w, "failed") /\ excusedBio' = TRUE
     ELSE Marked(w, "pending") /\ UNCHANGED excusedBio
  /\ UNCHANGED <<bio, save, saves, overwritten>>

(* A process dies: a save loses its job, a worker leaves one that is processing. *)
Dies ==
  /\ Fault /\ excusedBio' = TRUE
  /\ \/ \E s \in Savers : save[s].pc # "idle" /\ save' = [save EXCEPT ![s] = NoSave] /\ UNCHANGED worker
     \/ \E w \in Translators : worker[w].pc # "idle" /\ ToWorker(w, NoWork) /\ UNCHANGED save
  /\ UNCHANGED <<bio, jobs, saves, overwritten>>

BioNext ==
  \/ Dies
  \/ \E s \in Savers :
       \/ Patch(s) \/ Reread(s) \/ ClearJobs(s) \/ InsertJob(s)
       \/ \E own \in BOOLEAN, langs \in SUBSET Langs \ {{}} : StartSave(s, own, langs)
  \/ \E w \in Translators :
       \/ ClaimJob(w) \/ LoadBios(w) \/ Translate(w) \/ Apply(w) \/ Complete(w) \/ Fails(w)
       \/ \E j \in JobIds : Poll(w, j)

BioSpec == BioInit /\ [][BioNext]_bioVars

------------------------------------------------------------------------------

BioTypeOK ==
  /\ saves \in 0 .. MaxSaves /\ bioFaults \in 0 .. MaxFaults
  /\ \A l \in Langs : /\ bio[l].text \in Texts \cup {0} \cup {-t : t \in Texts}
                      /\ bio[l].machine <=> bio[l].text < 0
                      /\ bio[l].at \in 0 .. MaxSaves
  /\ \A j \in JobIds : jobs[j].target \in Langs <=> jobs[j].status # "deleted"
  /\ \A i, j \in JobIds : Active(i) /\ Active(j) /\ jobs[i].target = jobs[j].target => i = j

(* The worker never writes over what a person wrote, and when nothing is under way   *)
(* or queued any more a translation is that of the text it stands beside, unless     *)
(* saves overlapped, a call failed, or instructors edited their bios themselves.     *)
AtRest == /\ \A s \in Savers : save[s].pc = "idle"
          /\ \A w \in Translators : worker[w].pc = "idle"
          /\ \A j \in JobIds : ~Active(j)
TranslationsFit ==
  /\ ~overwritten
  /\ AtRest /\ ~excusedBio =>
       \A l \in Langs : bio[l].machine => bio[Other(l)].text \in {0, - bio[l].text}

------------------------------------------------------------------------------
(* The names of a row that instructors choose from (a language, a location, ...), in English *)
(* and in Chinese. A name nobody typed is the translator's, is marked so, and follows the     *)
(* other one when that is edited.                                                              *)
(*   admin/admin.service.ts addReference ... deleteReference, admin.repository.ts               *)
(* An edit reads the row, may wait for the translator, and writes the columns it was sent.      *)

CONSTANTS
  Admins,
  Typed,         \* names an administrator types: positive numbers, 0 is none
  MaxEdits       \* bound: requests

VARIABLES
  ref,           \* the row of the key
  edit,          \* edit[a]: a request in progress
  typed,         \* history: the last name typed for each language, 0 when it was cleared
  crossed,       \* history: a row was written that had changed since it was read
  unavailable,   \* history: a translation failed
  edits, nameFaults

nameVars == <<ref, edit, typed, crossed, unavailable, edits, nameFaults>>

NoName == 0
Keep == 99             \* a field that was not sent
Translated(name) == IF name = NoName THEN NoName ELSE name + 10
Hand == 0
Model == 1
NoRow == [id |-> 0, en |-> NoName, zh |-> NoName, enBy |-> Hand, zhBy |-> Hand]
NoPatch == [en |-> Keep, zh |-> Keep, enBy |-> Keep, zhBy |-> Keep]
NoEdit == [pc |-> "idle", sent |-> [en |-> Keep, zh |-> Keep], read |-> NoRow, patch |-> NoPatch]
Live == ref.id # 0

NamesInit ==
  /\ ref = NoRow
  /\ edit = [a \in Admins |-> NoEdit]
  /\ typed = [l \in Langs |-> NoName]
  /\ crossed = FALSE /\ unavailable = FALSE /\ edits = 0 /\ nameFaults = 0

To(a, e) == edit' = [edit EXCEPT ![a] = e]
Begin(a) == edit[a].pc = "idle" /\ edits < MaxEdits /\ edits' = edits + 1
CanFail == nameFaults < MaxFaults /\ nameFaults' = nameFaults + 1 /\ unavailable' = TRUE
history == <<typed, crossed>>

------------------------------------------------------------------------------
(* addReference: the missing name is translated first; the Chinese one may stay empty. *)
Add(a, en, zh) ==
  /\ Begin(a) /\ (en # NoName \/ zh # NoName)
  /\ To(a, [NoEdit EXCEPT !.pc = IF en = NoName \/ zh = NoName THEN "addTranslate" ELSE "insert",
                          !.sent = [en |-> en, zh |-> zh],
                          !.patch = [en |-> en, zh |-> zh, enBy |-> Hand, zhBy |-> Hand]])
  /\ UNCHANGED <<ref, history, unavailable, nameFaults>>

InEnglish(patch, zh) == [patch EXCEPT !.en = Translated(zh), !.enBy = Model]
InChinese(patch, en) == [patch EXCEPT !.zh = Translated(en), !.zhBy = Model]

AddTranslate(a) ==
  /\ edit[a].pc = "addTranslate"
  /\ LET e == edit[a] p == edit[a].patch IN
     \/ /\ To(a, [e EXCEPT !.pc = "insert",
                   !.patch = IF p.en = NoName THEN InEnglish(p, p.zh) ELSE InChinese(p, p.en)])
        /\ UNCHANGED <<unavailable, nameFaults>>
     \/ To(a, IF p.en = NoName THEN NoEdit ELSE [e EXCEPT !.pc = "insert"]) /\ CanFail
  /\ UNCHANGED <<ref, history, edits>>

(* The key is unique. A row that is inserted has an id no request has seen. *)
Insert(a) ==
  /\ edit[a].pc = "insert"
  /\ To(a, NoEdit)
  /\ LET p == edit[a].patch IN
     IF Live
     THEN UNCHANGED <<ref, typed>>
     ELSE /\ ref' = [id |-> edits, en |-> p.en, zh |-> p.zh, enBy |-> p.enBy, zhBy |-> p.zhBy]
          /\ typed' = edit[a].sent
  /\ UNCHANGED <<crossed, unavailable, edits, nameFaults>>

------------------------------------------------------------------------------
(* updateReference: the row as it is, ... *)
Update(a, en, zh) ==
  /\ Begin(a) /\ Live /\ en # NoName
  /\ To(a, [NoEdit EXCEPT !.pc = "patch", !.sent = [en |-> en, zh |-> zh], !.read = ref])
  /\ UNCHANGED <<ref, history, unavailable, nameFaults>>

NameEdited(e, l) == e.sent[l] \notin {Keep, e.read[l]}
FollowsEn(e) == NameEdited(e, "en") /\ ~NameEdited(e, "zh") /\ (e.read.zh = NoName \/ e.read.zhBy = Model)
FollowsEnAlways(e) == NameEdited(e, "en") /\ ~NameEdited(e, "zh")
FollowsZh(e) == NameEdited(e, "zh") /\ ~NameEdited(e, "en") /\ e.sent.zh # NoName /\ e.read.enBy = Model
ZhFollows(e) == FollowsEn(e)

(* ... buildReferencePatch, which may wait for the translator, ... *)
PatchName(a) ==
  /\ edit[a].pc = "patch"
  /\ LET e == edit[a]
         by(l) == IF NameEdited(e, l) THEN Hand ELSE Keep
         own == [en |-> e.sent.en, zh |-> e.sent.zh, enBy |-> by("en"), zhBy |-> by("zh")]
         with(p) == To(a, [e EXCEPT !.pc = "write", !.patch = p])
     IN \/ /\ with(IF ZhFollows(e) THEN InChinese(own, e.sent.en)
                   ELSE IF FollowsZh(e) THEN InEnglish(own, e.sent.zh) ELSE own)
           /\ UNCHANGED <<unavailable, nameFaults>>
        \/ (ZhFollows(e) \/ FollowsZh(e)) /\ with(own) /\ CanFail
  /\ UNCHANGED <<ref, history, edits>>

(* ... and the columns of the patch. *)
Write(a) ==
  /\ edit[a].pc = "write"
  /\ LET e == edit[a]
         column(f) == IF e.patch[f] = Keep THEN ref[f] ELSE e.patch[f]
     IN IF ref.id # e.read.id
        THEN UNCHANGED <<ref, history>>
        ELSE /\ ref' = [id |-> ref.id, en |-> column("en"), zh |-> column("zh"),
                        enBy |-> column("enBy"), zhBy |-> column("zhBy")]
             /\ typed' = [l \in Langs |-> IF NameEdited(e, l) THEN e.sent[l] ELSE typed[l]]
             /\ crossed' = (crossed \/ ref # e.read)
  /\ To(a, NoEdit)
  /\ UNCHANGED <<unavailable, edits, nameFaults>>

(* deleteReference: the links are counted first, and go with the row. *)
Delete(a) ==
  /\ Begin(a) /\ Live
  /\ To(a, [NoEdit EXCEPT !.pc = "delete", !.read = ref])
  /\ UNCHANGED <<ref, history, unavailable, nameFaults>>

DeleteRow(a) ==
  /\ edit[a].pc = "delete"
  /\ To(a, NoEdit)
  /\ IF ref.id = edit[a].read.id
     THEN ref' = NoRow /\ typed' = [l \in Langs |-> NoName]
     ELSE UNCHANGED <<ref, typed>>
  /\ UNCHANGED <<crossed, unavailable, edits, nameFaults>>

NamesNext ==
  \E a \in Admins :
    \/ \E en \in Typed \cup {NoName}, zh \in Typed \cup {NoName} : Add(a, en, zh)
    \/ \E en \in Typed \cup {Keep, ref.en}, zh \in Typed \cup {NoName, Keep, ref.zh} : Update(a, en, zh)
    \/ AddTranslate(a) \/ Insert(a) \/ PatchName(a) \/ Write(a) \/ Delete(a) \/ DeleteRow(a)

NamesSpec == NamesInit /\ [][NamesNext]_nameVars

------------------------------------------------------------------------------
(* Unless a row was written that had changed since it was read: a name that was typed stays  *)
(* until it is typed anew, and a name that was not is the translation of the other one, as      *)
(* it is now, if no translation failed.                                                          *)
NamesAgree ==
  Live /\ ~crossed =>
    /\ \A l \in Langs : typed[l] # NoName => ref[l] = typed[l]
    /\ ref.zhBy = Model /\ ~unavailable => ref.zh = Translated(ref.en)
    /\ ref.enBy = Model /\ ~unavailable => ref.zh = NoName \/ ref.en = Translated(ref.zh)
====
