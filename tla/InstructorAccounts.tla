---- MODULE InstructorAccounts ----
(* An instructor's own row: made by the first verified call of its user, with an email to the admins,   *)
(* and saved by the instructor, by admins and by the photo uploads.                                      *)
(*   instructors/instructors.service.ts, instructors.repository.ts, media/media.service.ts,              *)
(*   supabase/migrations/282_bio_ai_drafts.sql (update_instructor_profile, stamp_bio_updated_at)         *)
(* One user.  The fields are the two bios, the photo, a second photo and the teaching places, a relation *)
(* of its own; their values are numbers, and 0 is null or nothing.  Background translation of the bios   *)
(* is in Translations.                                                                                   *)
EXTENDS Integers, FiniteSets

CONSTANTS
  ProfileCalls,                \* requests in flight
  Admins,               \* who is told of a new instructor
  Saves,                \* what requests save: [via, fields, marked], "fields" a function of those sent
  Bad,                  \* a value of a field the database refuses
  MaxSaves, MaxAccountFaults   \* bounds: saves, errors and answers lost

VARIABLES
  row,            \* the user's row: whether it is there, its fields, and its bios' marks and stamps
  call,           \* the requests
  told,           \* how often each admin was emailed
  last,           \* history: each field as the last committed save that sent it
  crossedBios,    \* history: bios a save left out since they were as it had read them, when they no longer were
  sentAs,         \* history: <<bio, text, marked>> as saves sent them
  agreed,         \* history: the saves of both bios, their texts, and those of them that were left out so
  commits,            \* how many saves were committed, which is the time of the last one
  saves, accountFaults

accountVars == <<row, call, told, last, crossedBios, sentAs, agreed, commits, saves, accountFaults>>
saveHistory == <<last, crossedBios, sentAs, agreed, commits>>

Bios == {"en", "zh"}
ProfileFields == Bios \cup {"photo", "second", "places"}
NoRow == [there |-> FALSE, text |-> [f \in ProfileFields |-> 0],
          mark |-> [b \in Bios |-> FALSE], at |-> [b \in Bios |-> 0]]
NoSave == [via |-> "none", fields |-> [f \in {} |-> 0], marked |-> {}]
NoCall == [pc |-> "idle", save |-> NoSave, seen |-> NoRow, core |-> NoRow, stirred |-> FALSE, left |-> {}]
Reading == [NoCall EXCEPT !.pc = "reading", !.core = row]

AccountsInit ==
  /\ row = NoRow
  /\ call = [c \in ProfileCalls |-> NoCall]
  /\ told = [a \in Admins |-> 0]
  /\ last = [f \in ProfileFields |-> 0] /\ crossedBios = {} /\ agreed = {}
  /\ sentAs = {<<b, 0, FALSE>> : b \in Bios}
  /\ commits = 0 /\ saves = 0 /\ accountFaults = 0

Became(c, step) == call' = [call EXCEPT ![c] = step]
AccountFault == accountFaults < MaxAccountFaults /\ accountFaults' = accountFaults + 1

------------------------------------------------------------------------------
(* The first calls. *)
(* findByAuthUserId *)
Look(c) ==
  /\ call[c].pc = "idle"
  /\ Became(c, IF row.there THEN Reading ELSE [NoCall EXCEPT !.pc = "inserting"])
  /\ UNCHANGED <<row, told, saveHistory, saves, accountFaults>>

\* Mutation: losing the race counts as having made the row.
MadeAnyway == TRUE
(* insertPending answers the row, or null on a unique violation. *)
Made == ~row.there

Insert(c) ==
  /\ call[c].pc = "inserting"
  /\ row' = [row EXCEPT !.there = TRUE]
  /\ Became(c, IF Made THEN [NoCall EXCEPT !.pc = "telling"] ELSE Reading)
  /\ UNCHANGED <<told, saveHistory, saves, accountFaults>>

(* The row is made, its answer lost: nobody is told. *)
InsertLost(c) ==
  /\ AccountFault /\ call[c].pc = "inserting" /\ ~row.there
  /\ row' = [row EXCEPT !.there = TRUE]
  /\ Became(c, NoCall)
  /\ UNCHANGED <<told, saveHistory, saves>>

(* notifyAdminsOfPending: listAdminRecipients, which may fail, then an email to each. *)
ListAdmins(c, ok) ==
  /\ call[c].pc = "telling" /\ IF ok THEN UNCHANGED accountFaults ELSE AccountFault
  /\ Became(c, IF ok /\ Admins # {} THEN [NoCall EXCEPT !.pc = "mailing", !.left = Admins] ELSE NoCall)
  /\ UNCHANGED <<row, told, saveHistory, saves>>

MailAdmin(c, a, ok) ==
  /\ call[c].pc = "mailing" /\ a \in call[c].left /\ IF ok THEN UNCHANGED accountFaults ELSE AccountFault
  /\ told' = IF ok THEN [told EXCEPT ![a] = @ + 1] ELSE told
  /\ Became(c, IF call[c].left = {a} THEN NoCall ELSE [call[c] EXCEPT !.left = @ \ {a}])
  /\ UNCHANGED <<row, saveHistory, saves>>

------------------------------------------------------------------------------
(* A save: applyUpdate, or setAdditionalPhoto for the second photo. *)
(* confirmAvatarUpload: the address of the photo uploaded, with a version; removePhoto. *)
ConfirmPhoto(slot) == [via |-> "photo", fields |-> [f \in {slot} |-> 1], marked |-> {}]
RemovePhoto(slot) == [via |-> "photo", fields |-> [f \in {slot} |-> 0], marked |-> {}]
PhotoSaves == {ConfirmPhoto(slot) : slot \in {"photo", "second"}} \cup {RemovePhoto(slot) : slot \in {"photo", "second"}}

(* The row is read. *)
BeginSave(c, s) ==
  /\ call[c].pc = "idle" /\ row.there /\ saves < MaxSaves
  /\ saves' = saves + 1
  /\ Became(c, [NoCall EXCEPT !.pc = "saving", !.save = s, !.seen = row])
  /\ UNCHANGED <<row, told, saveHistory, accountFaults>>

\* Mutation: a field that was not sent is a field set to null.
HasOwn(s) == ProfileFields
(* has: dto[key] !== undefined *)
Has(s) == DOMAIN s.fields
Value(s, f) == IF f \in DOMAIN s.fields THEN s.fields[f] ELSE 0

\* Mutation: a bio is left out whenever the row has one.
SameIfAny(value, seen) == value = seen \/ seen # 0
(* sameBio *)
Same(value, seen) == value = seen

(* buildPatch, and the bios that are as they were read are taken out. *)
Patch(s, seen) == {f \in Has(s) : f \in Bios => ~Same(Value(s, f), seen.text[f])}

(* bothBiosSent of an instructor's own save *)
Synced(s) == s.via = "own" /\ Bios \subseteq DOMAIN s.fields

\* Mutation: the mark of a machine stays until it is taken off.
MarkedOnce(s, b, was) == was \/ b \in s.marked
(* A bio that is written loses its mark, unless it is sent with one. *)
MarkedByMachine(s, b, was) == b \in s.marked /\ Value(s, b) # 0

(* update_instructor_profile and the trigger on the bios, at time "at". *)
Patched(s, patch, at) ==
  [there |-> TRUE,
   text |-> [f \in ProfileFields |-> IF f \in patch THEN Value(s, f) ELSE row.text[f]],
   mark |-> [b \in Bios |-> IF b \in patch THEN MarkedByMachine(s, b, row.mark[b]) ELSE row.mark[b]],
   at |-> [b \in Bios |->
             IF Synced(s) \/ (b \in patch /\ Value(s, b) # row.text[b]) THEN at ELSE row.at[b]]]

Strayed(s, seen, patch) ==
  {b \in Bios \cap (DOMAIN s.fields \ patch) : row.text[b] # seen.text[b]}

RememberSave(s, seen, patch) ==
  /\ last' = [f \in ProfileFields |-> IF f \in DOMAIN s.fields THEN s.fields[f] ELSE last[f]]
  /\ crossedBios' = (crossedBios \ patch) \cup Strayed(s, seen, patch)
  /\ sentAs' = sentAs \cup {<<b, s.fields[b], b \in s.marked /\ s.fields[b] # 0>> :
                              b \in Bios \cap DOMAIN s.fields}
  /\ agreed' = IF Bios \subseteq DOMAIN s.fields
               THEN agreed \cup {[at |-> commits + 1, text |-> [b \in Bios |-> s.fields[b]],
                                  strayed |-> Strayed(s, seen, patch)]}
               ELSE agreed

\* The save commits, and the request goes on with the step "then".
Applied(c, then) ==
  LET s == call[c].save
      patch == Patch(s, call[c].seen) IN
  /\ \A f \in DOMAIN s.fields : s.fields[f] # Bad
  /\ commits' = commits + 1
  /\ row' = Patched(s, patch, commits + 1)
  /\ RememberSave(s, call[c].seen, patch)
  /\ call' = [d \in ProfileCalls |->
       IF d = c THEN then
       ELSE IF call[d].pc \in {"applied", "reading", "answered"} THEN [call[d] EXCEPT !.stirred = TRUE]
       ELSE call[d]]

(* applyProfilePatch in one transaction, or the plain update of setAdditionalPhoto. *)
Apply(c) ==
  /\ call[c].pc = "saving"
  /\ Applied(c, [call[c] EXCEPT !.pc = "applied"])
  /\ UNCHANGED <<told, saves, accountFaults>>

(* Its answer is lost: the request fails. *)
ApplyLost(c) ==
  /\ AccountFault /\ call[c].pc = "saving"
  /\ Applied(c, NoCall)
  /\ UNCHANGED <<told, saves>>

\* Mutation: what comes before the refused part stays.
AfterRefusalPartly(s) ==
  [row EXCEPT !.text = [f \in ProfileFields |->
     IF f \in DOMAIN s.fields /\ s.fields[f] # Bad THEN s.fields[f] ELSE row.text[f]]]
(* The transaction rolls back. *)
AfterRefusal(s) == row

(* toHttpError: the database refuses a value, and the request is answered 400. *)
RefuseSave(c) ==
  /\ call[c].pc = "saving"
  /\ \E f \in DOMAIN call[c].save.fields : call[c].save.fields[f] = Bad
  /\ row' = AfterRefusal(call[c].save)
  /\ Became(c, NoCall)
  /\ UNCHANGED <<told, saveHistory, saves, accountFaults>>

\* Mutation: the row as it was before the save is answered.
UpdatedBefore(c) == call[c].seen
(* findById, again *)
Updated(c) == row

ReadAgain(c) ==
  /\ call[c].pc = "applied"
  /\ Became(c, [call[c] EXCEPT !.pc = "reading", !.core = Updated(c)])
  /\ UNCHANGED <<row, told, saveHistory, saves, accountFaults>>

(* The relations, read by queries of their own. *)
Relations == row.text["places"]

(* buildProfile *)
AnswerProfile(c) ==
  /\ call[c].pc = "reading"
  /\ Became(c, [call[c] EXCEPT !.pc = "answered", !.core.text["places"] = Relations])
  /\ UNCHANGED <<row, told, saveHistory, saves, accountFaults>>

Returned(c) ==
  /\ call[c].pc = "answered"
  /\ Became(c, NoCall)
  /\ UNCHANGED <<row, told, saveHistory, saves, accountFaults>>

AccountsNext ==
  \E c \in ProfileCalls :
    \/ Look(c) \/ Insert(c) \/ InsertLost(c)
    \/ Apply(c) \/ ApplyLost(c) \/ RefuseSave(c) \/ ReadAgain(c) \/ AnswerProfile(c) \/ Returned(c)
    \/ \E s \in Saves \cup PhotoSaves : BeginSave(c, s)
    \/ \E ok \in BOOLEAN : ListAdmins(c, ok) \/ \E a \in Admins : MailAdmin(c, a, ok)

AccountsSpec == AccountsInit /\ [][AccountsNext]_accountVars

------------------------------------------------------------------------------
\* However the first calls race, an admin is told of the new instructor once at most; and everyone is
\* told once the calls are over, unless an answer, the list or an email failed.
ToldOnce ==
  /\ \A a \in Admins : told[a] <= (IF row.there THEN 1 ELSE 0)
  /\ row.there /\ accountFaults = 0 /\ (\A c \in ProfileCalls : call[c].pc \notin {"telling", "mailing"})
       => \A a \in Admins : told[a] = 1

\* A field is as the last save that sent it said, whoever saves at the same time and however often; a
\* refused save changed nothing.  A bio its save left out because it was as it had read it is excepted.
LastSaveHolds == \A f \in ProfileFields \ crossedBios : row.text[f] = last[f]

\* A bio counts as a machine's, or as a person's, only as some save sent that text.
TextsKeepTheirMark == \A b \in Bios \ crossedBios : <<b, row.text[b], row.mark[b]>> \in sentAs

\* Two bios with one stamp, which the portal shows as being in step, were sent together and are still
\* what that save said, but for a bio it left out as it had read it when it no longer was.
StepMeansTogether ==
  row.at["en"] = row.at["zh"] /\ row.at["en"] # 0 =>
    \E save \in agreed :
       /\ save.at = row.at["en"]
       /\ \A b \in Bios \ save.strayed : row.text[b] = save.text[b]

\* An answer during which nobody else saved shows the row as it is, with what the call saved.
AnswersAreCurrent ==
  \A c \in ProfileCalls : call[c].pc = "answered" /\ ~call[c].stirred => call[c].core.text = row.text

AccountsHold == ToldOnce /\ LastSaveHolds /\ TextsKeepTheirMark /\ StepMeansTogether /\ AnswersAreCurrent
====
