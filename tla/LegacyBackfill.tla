---- MODULE LegacyBackfill ----
(* Profiles filled from the old storefront's entries:                                *)
(*   shopify/legacy-pairing/legacy-pairing.commands.ts (backfill), legacy-backfill.ts   *)
(* The command plans every paired instructor from what it reads at its start, fetches    *)
(* the photos, and applies plan after plan: object, row, replaced object, trainer level,   *)
(* translation job and, last, the audit row that says it is done. Meanwhile instructors     *)
(* and admins save profiles, and any call may fail, which ends the command.                  *)
EXTENDS Naturals, Sequences, FiniteSets

CONSTANTS
  Instructors,   \* those paired with an entry
  Entry,         \* Entry[i]: zh, en: meaningful bios; photo; level: a trainer's, or 0
  Runs,          \* commands under way at once
  MaxRuns, MaxEdits, MaxFaults  \* bounds: commands, saved profiles, failed calls

VARIABLES
  profile,       \* profile[i]: zh, en: none, legacy, saved or machine; photo: its extension; level
  objects,       \* storage: pairs of instructor and extension
  job,           \* job[i]: what an active translation into English translates, or none
  audited,       \* instructors with an audit row of the backfill
  run,           \* run[r]
  wrote,         \* history: the bio that counts: saved, or of the entry when it was due
  peak,          \* history: the highest trainer level there was
  touched,       \* history: instructors whose profile was saved during a command
  doubled,       \* history: instructors two commands had planned at once
  broken,        \* history: instructors a command began to write and did not finish
  begun, edits, faults

backfillVars == <<profile, objects, job, audited, run, wrote, peak, touched, doubled, broken,
                  begun, edits, faults>>
past == <<wrote, peak, touched, doubled, broken>>
bounds == <<begun, edits, faults>>

None == "none"
Idle == [pc |-> "idle", done |-> {}, force |-> {}, read |-> <<>>, todo |-> {}, i |-> None]
Blank == [zh |-> None, en |-> None, photo |-> None, level |-> 0]

BackfillInit ==
  /\ profile \in [Instructors -> {Blank, [Blank EXCEPT !.zh = "saved", !.en = "saved", !.photo = "png"]}]
  /\ objects = {<<i, "png">> : i \in {k \in Instructors : profile[k].photo = "png"}}
  /\ job = [i \in Instructors |-> None] /\ audited = {}
  /\ run = [r \in Runs |-> Idle]
  /\ wrote = [i \in Instructors |-> profile[i].zh] /\ peak = [i \in Instructors |-> 0]
  /\ touched = {} /\ doubled = {} /\ broken = {} /\ begun = 0 /\ edits = 0 /\ faults = 0

To(r, v) == run' = [run EXCEPT ![r] = v]
Next(r, pc) == To(r, [run[r] EXCEPT !.pc = pc])
At(r, pc) == run[r].pc = pc
Mine(r) == run[r].i

------------------------------------------------------------------------------
(* runBackfill: what it reads, and its plans *)

Backfill(r, force) ==
  /\ At(r, "idle") /\ begun < MaxRuns /\ begun' = begun + 1
  /\ To(r, [Idle EXCEPT !.pc = "rows", !.done = audited, !.force = force])
  /\ UNCHANGED <<profile, objects, job, audited, past, edits, faults>>

(* Those that were audited are skipped, unless they are forced. Mutation: they are not. *)
PlannedAll(r) == Instructors
Planned(r) == (Instructors \ run[r].done) \cup run[r].force
ReadRows(r) ==
  /\ At(r, "rows")
  /\ To(r, [run[r] EXCEPT !.pc = "next", !.read = profile, !.todo = Planned(r)])
  /\ doubled' = doubled \cup {i \in Planned(r) : \E s \in Runs \ {r} : i \in run[s].todo \cup {run[s].i}}
  /\ UNCHANGED <<profile, objects, job, audited, wrote, peak, touched, broken, bounds>>

(* planInstructorBackfill *)
TranslatesBio(i) == Entry[i].zh /\ ~Entry[i].en
Promotes(r, i) == Entry[i].level > run[r].read[i].level

TakeNext(r, i) ==
  /\ At(r, "next") /\ i \in run[r].todo
  /\ To(r, [run[r] EXCEPT !.pc = "upload", !.i = i, !.todo = @ \ {i}])
  /\ broken' = broken \cup {i}
  /\ UNCHANGED <<profile, objects, job, audited, wrote, peak, touched, doubled, bounds>>
EndRun(r) ==
  /\ At(r, "next") /\ run[r].todo = {} /\ To(r, Idle)
  /\ UNCHANGED <<profile, objects, job, audited, past, bounds>>

------------------------------------------------------------------------------
(* applyInstructorBackfill *)

UploadPhoto(r) ==
  /\ At(r, "upload") /\ Next(r, "row")
  /\ objects' = IF Entry[Mine(r)].photo THEN objects \cup {<<Mine(r), "jpg">>} ELSE objects
  /\ UNCHANGED <<profile, job, audited, past, bounds>>

UpdateRow(r) ==
  /\ At(r, "row") /\ Next(r, "remove")
  /\ LET i == Mine(r)
         due == i \notin run[r].done \/ i \in run[r].force
     IN /\ profile' = [profile EXCEPT
             ![i].zh = IF Entry[i].zh THEN "legacy" ELSE @,
             ![i].en = IF ~Entry[i].zh THEN @ ELSE IF Entry[i].en THEN "legacy" ELSE None,
             ![i].photo = IF Entry[i].photo THEN "jpg" ELSE @]
        /\ wrote' = IF due /\ Entry[i].zh THEN [wrote EXCEPT ![i] = "legacy"] ELSE wrote
  /\ UNCHANGED <<objects, job, audited, peak, touched, doubled, broken, bounds>>

(* The object the row named when it was read; a failure is a warning. *)
(* Mutation: the new object is not told from the old. *)
ReplacedAny(r) == {<<Mine(r), x>> : x \in {run[r].read[Mine(r)].photo} \ {None}}
Replaced(r) == {<<Mine(r), x>> : x \in {run[r].read[Mine(r)].photo} \ {None, "jpg"}}
RemoveReplaced(r) ==
  /\ At(r, "remove") /\ Next(r, "trainer")
  /\ objects' = IF Entry[Mine(r)].photo THEN objects \ Replaced(r) ELSE objects
  /\ UNCHANGED <<profile, job, audited, past, bounds>>
KeepReplaced(r) ==
  /\ At(r, "remove") /\ Entry[Mine(r)].photo /\ faults < MaxFaults /\ faults' = faults + 1
  /\ Next(r, "trainer")
  /\ UNCHANGED <<profile, objects, job, audited, past, begun, edits>>

WriteTrainer(r) ==
  /\ At(r, "trainer") /\ Next(r, IF TranslatesBio(Mine(r)) THEN "clear" ELSE "audit")
  /\ profile' = IF Promotes(r, Mine(r)) THEN [profile EXCEPT ![Mine(r)].level = Entry[Mine(r)].level]
                ELSE profile
  /\ peak' = [peak EXCEPT ![Mine(r)] = IF profile'[Mine(r)].level > @ THEN profile'[Mine(r)].level ELSE @]
  /\ UNCHANGED <<objects, job, audited, wrote, touched, doubled, broken, bounds>>

ClearJobs(r) ==
  /\ At(r, "clear") /\ Next(r, "insert") /\ job' = [job EXCEPT ![Mine(r)] = None]
  /\ UNCHANGED <<profile, objects, audited, past, bounds>>
(* One active job for a language: a job queued meanwhile refuses this one. *)
InsertJob(r) ==
  /\ At(r, "insert")
  /\ IF job[Mine(r)] # None THEN To(r, Idle) /\ UNCHANGED job
     ELSE Next(r, "audit") /\ job' = [job EXCEPT ![Mine(r)] = "legacy"]
  /\ UNCHANGED <<profile, objects, audited, past, bounds>>

RecordAudit(r) ==
  /\ At(r, "audit")
  /\ audited' = audited \cup {Mine(r)} /\ broken' = broken \ {Mine(r)}
  /\ To(r, [run[r] EXCEPT !.pc = "next", !.i = None])
  /\ UNCHANGED <<profile, objects, job, wrote, peak, touched, doubled, bounds>>

(* A call fails, or the command is stopped between two. *)
Break(r) ==
  /\ ~At(r, "idle") /\ faults < MaxFaults /\ faults' = faults + 1
  /\ To(r, Idle)
  /\ UNCHANGED <<profile, objects, job, audited, past, begun, edits>>

------------------------------------------------------------------------------
(* Meanwhile *)

Underway(i) == \E r \in Runs : ~At(r, "idle") /\ (At(r, "rows") \/ i \in run[r].todo \cup {run[r].i})
Edit(i, p) ==
  /\ edits < MaxEdits /\ edits' = edits + 1
  /\ profile' = [profile EXCEPT ![i] = p]
  /\ wrote' = [wrote EXCEPT ![i] = p.zh]
  /\ peak' = [peak EXCEPT ![i] = IF p.level > @ THEN p.level ELSE @]
  /\ touched' = IF Underway(i) THEN touched \cup {i} ELSE touched
  /\ UNCHANGED <<audited, run, doubled, broken, begun, faults>>

(* An instructor saves both bios; an admin saves one, which queues its translation. *)
SaveBios(i) ==
  Edit(i, [profile[i] EXCEPT !.zh = "saved", !.en = "saved"]) /\ UNCHANGED <<objects, job>>
SaveChinese(i) ==
  /\ Edit(i, [profile[i] EXCEPT !.zh = "saved", !.en = None])
  /\ job' = [job EXCEPT ![i] = "saved"] /\ UNCHANGED objects
UploadOwn(i, x) ==
  /\ Edit(i, [profile[i] EXCEPT !.photo = x])
  /\ objects' = objects \cup {<<i, x>>} /\ UNCHANGED job
Promote(i) ==
  /\ profile[i].level < 4
  /\ Edit(i, [profile[i] EXCEPT !.level = @ + 1]) /\ UNCHANGED <<objects, job>>

Translate(i) ==
  /\ job[i] # None /\ job' = [job EXCEPT ![i] = None]
  /\ profile' = IF profile[i].zh = job[i] THEN [profile EXCEPT ![i].en = "machine"] ELSE profile
  /\ UNCHANGED <<objects, audited, run, past, bounds>>

BackfillNext ==
  \/ \E r \in Runs :
       \/ \E force \in SUBSET Instructors : Backfill(r, force)
       \/ \E i \in Instructors : TakeNext(r, i)
       \/ ReadRows(r) \/ EndRun(r) \/ UploadPhoto(r) \/ UpdateRow(r) \/ RemoveReplaced(r)
       \/ KeepReplaced(r) \/ WriteTrainer(r) \/ ClearJobs(r) \/ InsertJob(r) \/ RecordAudit(r)
       \/ Break(r)
  \/ \E i \in Instructors :
       \/ SaveBios(i) \/ SaveChinese(i) \/ Promote(i) \/ Translate(i)
       \/ \E x \in {"jpg", "png"} : UploadOwn(i, x)

BackfillSpec == BackfillInit /\ [][BackfillNext]_backfillVars

------------------------------------------------------------------------------

(* A backfill never undoes what came after it. Unless a profile was saved during a command *)
(* or two commands planned it at once: its bio is the last one saved, or the entry's where   *)
(* the backfill was due; its photo is in storage; its trainer level has never gone down; and  *)
(* after a backfill that was finished the Chinese bio has an English one or a job for it.      *)
BackfillUndoesNothing ==
  \A i \in Instructors \ (touched \cup doubled) :
    /\ profile[i].zh = wrote[i]
    /\ profile[i].photo # None => <<i, profile[i].photo>> \in objects
    /\ profile[i].level = peak[i]
    /\ profile[i].zh = "legacy" /\ i \notin broken => profile[i].en # None \/ job[i] # None
====
