------------------------ MODULE InstructorPublishing ------------------------
(***************************************************************************)
(* Publishing of instructors on the Shopify storefront.                    *)
(*                                                                         *)
(* Triggers put an instructor in instructor_sync_queue whenever something  *)
(* it shows changes.  The one worker claims a batch of rows and brings the *)
(* storefront's entry of each up to date: it reads profile and state, then *)
(* makes its calls to the database and to Shopify one after the other, and *)
(* between two of them profiles change, a call fails, or the process dies. *)
(* A call that took effect and whose answer is lost is a failure after it. *)
(*                                                                         *)
(* A profile is reduced to whether it may be shown (deleted, not ready and *)
(* held for a pairing decision are alike), the name the handle is made of, *)
(* and one of the optional photos.  No trigger sees a proof expire, or the *)
(* season, the rules of a template or the legacy roster change: then what  *)
(* may be shown changes, and nothing is queued.  As handles, the roster    *)
(* and the entries without an SSMS id are the constant Foreign.            *)
(***************************************************************************)
EXTENDS Integers, FiniteSets, FiniteSetsExt

CONSTANTS
  Instructors,
  Names,        \* base handles: slugs of English names
  FirstName,    \* the name each instructor has at first
  MaxSuffix,    \* 50 in the code
  Foreign,      \* handles no instructor may claim
  BatchSize,    \* 10 in the code
  MaxAttempts,  \* 10 in the code
  MaxEdits,     \* bound: changes of profiles
  MaxFaults,    \* bound: failed calls and crashes
  MaxRuns       \* bound: syncs an admin asks for

Handles == Names \X (1 .. MaxSuffix)

ASSUME HandleAssumption == MaxSuffix \in Nat \ {0} /\ Foreign \subseteq Handles
ASSUME NameAssumption == FirstName \in [Instructors -> Names]
ASSUME BoundAssumption ==
  /\ {BatchSize, MaxAttempts} \subseteq Nat \ {0}
  /\ {MaxEdits, MaxFaults, MaxRuns} \subseteq Nat

VARIABLES
  profile,  \* instructors, with all that readiness depends on
  queue,    \* instructor_sync_queue: from a queued instructor to its attempts
  state,    \* instructor_shopify_state
  entries,  \* Shopify: from the handle of an entry to what it shows
  files,    \* Shopify: the images, each by instructor and photo version
  batch,    \* rows the worker claimed and has not finished: their attempts
  fresh,    \* the claimed rows whose enqueued_at has not changed since
  job,      \* the sync in progress
  lost,     \* history: an entry was written and the state was not
  drifted,  \* history: readiness has changed by itself since it was last read
  edits, faults, runs  \* bounds

vars == <<profile, queue, state, entries, files, batch, fresh, job, lost,
          drifted, edits, faults, runs>>
shopify == <<entries, files>>
work == <<batch, fresh, job>>
bounds == <<edits, faults, runs>>

-----------------------------------------------------------------------------
NoHandle == <<>>
NoPhoto == 0
Omitted == -1
Version == 0 .. MaxEdits + 1
Photo == Version       \* the version of a photo, or NoPhoto

Profile == [ready: BOOLEAN, name: Names, photo: Photo, version: Version]
State == [handle: Handles \cup {NoHandle}, saved: BOOLEAN, file: Photo,
          status: {"none", "active", "draft"}]
Entry == [owner: Instructors, status: {"ACTIVE", "DRAFT"}, name: Names,
          english: Names, image: Photo]

Idle == [pc |-> "idle"]
Doing == job.pc # "idle"
Me == job.id

Queued == DOMAIN queue
Put(f, x, y) == [z \in DOMAIN f \cup {x} |-> IF z = x THEN y ELSE f[z]]
Without(f, x) == [z \in DOMAIN f \ {x} |-> f[z]]

\* isHandleStoredByOther, and the owner of the entry Shopify has.
StoredByOther(h, i) == \E j \in Instructors \ {i} : state[j].handle = h
EntryOfOther(h, i) == h \in DOMAIN entries /\ entries[h].owner # i

-----------------------------------------------------------------------------
(* What fills the queue.                                                    *)

\* The triggers: enqueued_at moves, the attempts stay.
Enqueue(i) ==
  /\ queue' = IF i \in Queued THEN queue ELSE Put(queue, i, 0)
  /\ fresh' = fresh \ {i}

\* A row that a trigger watches changes: the instructor becomes ready or not,
\* is renamed, or changes its photo.
EditProfile(i) ==
  LET p == profile[i] IN
  /\ edits < MaxEdits
  /\ edits' = edits + 1
  /\ \E q \in {[p EXCEPT !.ready = ~@]}
              \cup {[p EXCEPT !.name = n] : n \in Names \ {p.name}}
              \cup {[p EXCEPT !.photo = v, !.version = p.version + 1] :
                      v \in {NoPhoto, p.version + 1} \ {p.photo}} :
       profile' = [profile EXCEPT ![i] = q]
  /\ Enqueue(i)
  /\ UNCHANGED <<state, shopify, batch, job, lost, drifted, faults, runs>>

\* goLiveReadiness and goLiveHold go by more than those rows: the date, the
\* current season, whether a template is required, and the legacy roster.
Drift(i) ==
  /\ edits < MaxEdits
  /\ edits' = edits + 1
  /\ profile' = [profile EXCEPT ![i].ready = ~@]
  /\ drifted' = drifted \cup {i}
  /\ UNCHANGED <<queue, state, shopify, work, lost, faults, runs>>

\* enqueue_one_instructor_sync, enqueue_all_instructor_sync: from the start.
Requeue(S) ==
  /\ queue' = [i \in Queued \cup S |-> IF i \in S THEN 0 ELSE queue[i]]
  /\ fresh' = fresh \ S

\* run: an admin asks for the sync of one instructor, or of all.
Run(S) ==
  /\ runs < MaxRuns
  /\ S = Instructors \/ Cardinality(S) = 1
  /\ Requeue(S)
  /\ runs' = runs + 1
  /\ UNCHANGED <<profile, state, shopify, batch, job, lost, drifted, edits, faults>>

-----------------------------------------------------------------------------
(* The worker: claim a batch, sync its rows, and report on each.            *)

\* claim_instructor_sync_batch: every new row, and retries whose wait is over,
\* up to a limit.
Batch(S) ==
  /\ S \subseteq {i \in Queued : queue[i] < MaxAttempts}
  /\ Cardinality(S) <= BatchSize
  /\ {i \in Queued : queue[i] = 0} \subseteq S \/ Cardinality(S) = BatchSize

\* claimQueueBatch: the claimed rows, as they are now.
Claimed(S) ==
  /\ batch' = [i \in S |-> queue[i]]
  /\ fresh' = S

\* Mutation: ticks overlap: a batch is claimed while another is being synced.
ClaimWhileBusy(S) ==
  /\ S # {} /\ Batch(S)
  /\ Claimed(S)
  /\ UNCHANGED <<profile, queue, state, shopify, job, lost, drifted, bounds>>

\* tick: one drain at a time, of the rows that were claimed together.
Claim(S) ==
  /\ ~Doing /\ batch = <<>>
  /\ S # {} /\ Batch(S)
  /\ Claimed(S)
  /\ UNCHANGED <<profile, queue, state, shopify, job, lost, drifted, bounds>>

\* loadSnapshot and getState: what the sync goes by until its end.
Snapshot(i, pc) == [pc |-> pc, id |-> i, seen |-> profile[i], st |-> state[i]]

\* sync: profile and state are read, and the branch is taken.
Assess(i) ==
  /\ ~Doing /\ i \in DOMAIN batch
  /\ job' = Snapshot(i, IF profile[i].ready THEN "handle"
                        ELSE IF state[i].saved THEN "hide" ELSE "complete")
  /\ drifted' = drifted \ {i}
  /\ UNCHANGED <<profile, queue, state, shopify, batch, fresh, lost, bounds>>

To(pc) == job' = [job EXCEPT !.pc = pc]

\* hide: the entry becomes a draft ...
HideEntry ==
  /\ job.pc = "hide"
  /\ entries' = [entries EXCEPT ![job.st.handle].status = "DRAFT"]
  /\ To("save_draft")
  /\ UNCHANGED <<profile, queue, state, files, batch, fresh, lost, drifted, bounds>>

\* ... and the state says so.
SaveDraft ==
  /\ job.pc = "save_draft"
  /\ state' = [state EXCEPT ![Me].status = "draft"]
  /\ To("complete")
  /\ UNCHANGED <<profile, queue, shopify, batch, fresh, lost, drifted, bounds>>

WithHandle(h) ==
  job' = [pc |-> "photo", id |-> Me, seen |-> job.seen, st |-> job.st,
          handle |-> h]

\* verifiedStoredHandle: only a handle whose entry was never saved is looked up.
UseStoredHandle ==
  /\ job.pc = "handle" /\ job.st.handle # NoHandle
  /\ IF ~job.st.saved /\ EntryOfOther(job.st.handle, Me)
     THEN To("failed") ELSE WithHandle(job.st.handle)
  /\ UNCHANGED <<profile, queue, state, shopify, batch, fresh, lost, drifted, bounds>>

\* listLegacyEntries: the handles of the roster are not free.
IsLegacy(h) == h \in Foreign

\* Mutation: the handle is only stored together with the entry.
ClaimUnstored ==
  LET handle == <<job.seen.name,
                  Min({n \in 1 .. MaxSuffix :
                         LET h == <<job.seen.name, n>> IN
                         ~IsLegacy(h) /\ ~EntryOfOther(h, Me)})>> IN
  /\ job.pc = "handle" /\ job.st.handle = NoHandle
  /\ WithHandle(handle)
  /\ UNCHANGED <<profile, queue, state, shopify, batch, fresh, lost, drifted, bounds>>

\* Mutation: handles of foreign entries are not skipped.
ClaimForeign ==
  LET free == {n \in 1 .. MaxSuffix :
                 LET h == <<job.seen.name, n>> IN
                 ~StoredByOther(h, Me) /\ ~EntryOfOther(h, Me)}
      handle == <<job.seen.name, Min(free)>>
  IN
  /\ job.pc = "handle" /\ job.st.handle = NoHandle
  /\ state' = [state EXCEPT ![Me].handle = handle]
  /\ WithHandle(handle)
  /\ UNCHANGED <<profile, queue, shopify, batch, fresh, lost, drifted, bounds>>

\* claimHandle: the first free candidate is stored before it is used.
ClaimHandle ==
  LET free == {n \in 1 .. MaxSuffix :
                 LET h == <<job.seen.name, n>> IN
                 /\ ~IsLegacy(h)
                 /\ ~StoredByOther(h, Me)
                 /\ ~EntryOfOther(h, Me)}
      handle == <<job.seen.name, Min(free)>>
  IN
  /\ job.pc = "handle" /\ job.st.handle = NoHandle
  /\ free # {}
  /\ state' = [state EXCEPT ![Me].handle = handle]
  /\ WithHandle(handle)
  /\ UNCHANGED <<profile, queue, shopify, batch, fresh, lost, drifted, bounds>>

\* The image field of the entry, the file to remember, and the one it replaces.
Plan(image, file) ==
  job' = [pc |-> "upsert", id |-> Me, seen |-> job.seen, st |-> job.st,
          handle |-> job.handle, image |-> image, file |-> file,
          replaced |-> IF file = job.st.file THEN NoPhoto ELSE job.st.file]

\* prepareSlot without an upload: there is no photo, or its file is known.
KeepPhoto ==
  LET photo == job.seen.photo IN
  /\ job.pc = "photo"
  /\ photo \in {NoPhoto, job.st.file}
  /\ Plan(IF photo = NoPhoto /\ job.st.file = NoPhoto THEN Omitted ELSE photo,
          photo)
  /\ UNCHANGED <<profile, queue, state, shopify, batch, fresh, lost, drifted, bounds>>

\* Mutation: the replaced file is deleted before the entry is written.
UploadAndDiscard ==
  LET photo == job.seen.photo IN
  /\ job.pc = "photo"
  /\ photo \notin {NoPhoto, job.st.file}
  /\ files' = (files \ {<<Me, job.st.file>>}) \cup {<<Me, photo>>}
  /\ Plan(photo, photo)
  /\ UNCHANGED <<profile, queue, state, entries, batch, fresh, lost, drifted, bounds>>

\* createImage: the name of a file has the instructor and the version of the
\* photo, and a file of that name is found again (findImageByName).
HasImage(i, photo) == <<i, photo>> \in files
CreateImage(i, photo) ==
  files' = IF HasImage(i, photo) THEN files ELSE files \cup {<<i, photo>>}

\* upload: the file is created, or found, and waited for.
UploadPhoto ==
  LET photo == job.seen.photo IN
  /\ job.pc = "photo"
  /\ photo \notin {NoPhoto, job.st.file}
  /\ CreateImage(Me, photo)
  /\ Plan(photo, photo)
  /\ UNCHANGED <<profile, queue, state, entries, batch, fresh, lost, drifted, bounds>>

\* fileState: a file that is there has been processed.
Unprocessed(i, photo) == <<i, photo>> \notin files

\* Shopify cannot process a new file, which is discarded.
PhotoRefused ==
  LET photo == job.seen.photo IN
  /\ job.pc = "photo"
  /\ photo \notin {NoPhoto, job.st.file} /\ Unprocessed(Me, photo)
  /\ faults < MaxFaults
  /\ faults' = faults + 1
  /\ To("failed")
  /\ UNCHANGED <<profile, queue, state, shopify, batch, fresh, lost, drifted, edits,
                 runs>>

\* upsert: fields that are not sent keep the value they have.
Upserted(handle, name, image) ==
  LET old == IF handle \in DOMAIN entries THEN entries[handle]
             ELSE [english |-> name, image |-> NoPhoto] IN
  [owner |-> Me, status |-> "ACTIVE", name |-> name, english |-> old.english,
   image |-> IF image = Omitted THEN old.image ELSE image]

UpsertEntry ==
  /\ job.pc = "upsert"
  /\ entries' = Put(entries, job.handle,
                    Upserted(job.handle, job.seen.name, job.image))
  /\ To("save")
  /\ UNCHANGED <<profile, queue, state, files, batch, fresh, lost, drifted, bounds>>

SaveState ==
  /\ job.pc = "save"
  /\ state' = [state EXCEPT ![Me].saved = TRUE, ![Me].status = "active",
                            ![Me].file = job.file]
  /\ To("discard")
  /\ UNCHANGED <<profile, queue, shopify, batch, fresh, lost, drifted, bounds>>

DeleteFile(i, photo) == files' = files \ {<<i, photo>>}

\* discard: a failure to delete the replaced file is only logged.
DiscardReplaced ==
  /\ job.pc = "discard"
  /\ \/ DeleteFile(Me, job.replaced)
     \/ files' = files /\ job.replaced # NoPhoto
  /\ To("translate")
  /\ UNCHANGED <<profile, queue, state, entries, batch, fresh, lost, drifted, bounds>>

\* registerTranslations, of the digests that translatableResource has answered.
RegisterTranslation(handle, name) ==
  entries' = [entries EXCEPT ![handle].english = name]

Translate ==
  /\ job.pc = "translate"
  /\ RegisterTranslation(job.handle, job.seen.name)
  /\ To("complete")
  /\ UNCHANGED <<profile, queue, state, files, batch, fresh, lost, drifted, bounds>>

Finish ==
  /\ job' = Idle
  /\ batch' = Without(batch, Me)
  /\ fresh' = fresh \ {Me}

\* Mutation: the row is deleted whatever happened to it.
CompleteAlways ==
  /\ job.pc = "complete"
  /\ queue' = Without(queue, Me)
  /\ Finish
  /\ UNCHANGED <<profile, state, shopify, lost, drifted, bounds>>

\* completeQueueRow: a row queued again since the claim stays.
Complete ==
  /\ job.pc = "complete"
  /\ queue' = IF Me \in fresh THEN Without(queue, Me) ELSE queue
  /\ Finish
  /\ UNCHANGED <<profile, state, shopify, lost, drifted, bounds>>

\* Mutation: one failure uses up all attempts.
RecordExhausted ==
  /\ job.pc = "failed"
  /\ queue' = IF Me \in Queued THEN Put(queue, Me, MaxAttempts) ELSE queue
  /\ Finish
  /\ UNCHANGED <<profile, state, shopify, lost, drifted, bounds>>

\* recordQueueFailure: one more than the attempts that were claimed.
RecordFailure ==
  /\ job.pc = "failed"
  /\ queue' = IF Me \in Queued THEN Put(queue, Me, batch[Me] + 1) ELSE queue
  /\ Finish
  /\ UNCHANGED <<profile, state, shopify, lost, drifted, bounds>>

-----------------------------------------------------------------------------
(* What goes wrong.                                                         *)

\* An entry has been written and the state may never tell of it.
Forgets == IF job.pc = "save" THEN lost \cup {Me} ELSE lost

\* A call throws.
Fail ==
  /\ Doing /\ job.pc # "failed"
  /\ faults < MaxFaults
  /\ faults' = faults + 1
  /\ lost' = Forgets
  /\ To("failed")
  /\ UNCHANGED <<profile, queue, state, shopify, batch, fresh, drifted, edits, runs>>

\* The failure cannot be recorded either, which is only logged (the fault that
\* made the call throw lasts, and is counted once).
RecordNothing ==
  /\ job.pc = "failed"
  /\ Finish
  /\ UNCHANGED <<profile, queue, state, shopify, lost, drifted, bounds>>

\* The process dies and is started again.
Crash ==
  /\ batch # <<>>
  /\ faults < MaxFaults
  /\ faults' = faults + 1
  /\ lost' = Forgets
  /\ job' = Idle /\ batch' = <<>> /\ fresh' = {}
  /\ UNCHANGED <<profile, queue, state, shopify, drifted, edits, runs>>

-----------------------------------------------------------------------------
\* The instructors have just become ready, with a photo, and are not synced yet.
Init ==
  /\ profile = [i \in Instructors |-> [ready |-> TRUE, name |-> FirstName[i],
                                       photo |-> 1, version |-> 1]]
  /\ queue = [i \in Instructors |-> 0]
  /\ state = [i \in Instructors |-> [handle |-> NoHandle, saved |-> FALSE,
                                     file |-> NoPhoto, status |-> "none"]]
  /\ entries = <<>> /\ files = {}
  /\ batch = <<>> /\ fresh = {} /\ job = Idle
  /\ lost = {} /\ drifted = {}
  /\ edits = 0 /\ faults = 0 /\ runs = 0

Step ==
  \/ HideEntry \/ SaveDraft
  \/ UseStoredHandle \/ ClaimHandle
  \/ KeepPhoto \/ UploadPhoto
  \/ UpsertEntry \/ SaveState \/ DiscardReplaced \/ Translate
  \/ Complete \/ RecordFailure

Next ==
  \/ \E i \in Instructors : EditProfile(i) \/ Drift(i) \/ Assess(i)
  \/ \E S \in SUBSET Instructors : Run(S) \/ Claim(S)
  \/ Step
  \/ PhotoRefused \/ Fail \/ RecordNothing \/ Crash

Spec == Init /\ [][Next]_vars

-----------------------------------------------------------------------------
(* Properties.                                                              *)

\* Every record has its shape, and what the worker holds is consistent: a
\* job is on a claimed row, and only claimed rows can be unchanged.
TypeOK ==
  /\ profile \in [Instructors -> Profile]
  /\ state \in [Instructors -> State]
  /\ Queued \subseteq Instructors /\ \A i \in Queued : queue[i] \in 0 .. MaxAttempts
  /\ DOMAIN entries \subseteq Handles
  /\ \A h \in DOMAIN entries : entries[h] \in Entry
  /\ files \subseteq Instructors \X Photo
  /\ DOMAIN batch \subseteq Instructors /\ fresh \subseteq DOMAIN batch
  /\ Doing => Me \in DOMAIN batch
  /\ lost \subseteq Instructors /\ drifted \subseteq Instructors

Live(i) == {h \in DOMAIN entries :
              entries[h].owner = i /\ entries[h].status = "ACTIVE"}

\* The storefront shows a profile that is ready, as it is, once, and no other.
ShownAs(i, p) ==
  IF p.ready
  THEN \E h \in Handles :
         /\ Live(i) = {h}
         /\ entries[h].name = p.name /\ entries[h].english = p.name
         /\ entries[h].image = p.photo
  ELSE Live(i) = {}

\* The profile, or as it was before its readiness drifted.
AsRead(i) ==
  {profile[i]} \cup IF i \in drifted THEN {[profile[i] EXCEPT !.ready = ~@]} ELSE {}

\* An instructor that is not queued is shown as it is, whatever changed while
\* it was synced and whatever failed, unless an entry was once written and
\* the state was not (completeQueueRow and the order of publish); only whether
\* it is shown may be out of date, after a change that queues nothing.
CurrentUnlessLost ==
  \A i \in Instructors \ (Queued \cup lost) : \E p \in AsRead(i) : ShownAs(i, p)

\* An instructor that is not queued and whose readiness, as it was last read,
\* was missing something has no live entry
\* (hide; instructor-sync.service.spec.ts:286).
HiddenWhenNotReady ==
  \A i \in Instructors \ (Queued \cup drifted) : ~profile[i].ready => Live(i) = {}

\* No entry shows an image that has been deleted: the replaced file goes
\* only after entry and state have the new one.
NoBrokenImage ==
  \A h \in DOMAIN entries :
    entries[h].image # NoPhoto => <<entries[h].owner, entries[h].image>> \in files

\* The state of an instructor names its entry, even when it was renamed
\* after a crash: it never has two, and two never have the same.
EntryIsNamed ==
  /\ \A i \in Instructors : state[i].saved => state[i].handle \in DOMAIN entries
  /\ \A h \in DOMAIN entries : state[entries[h].owner].handle = h
  /\ \A i, j \in Instructors :
       i # j /\ state[i].handle # NoHandle => state[i].handle # state[j].handle

\* No entry passes from one instructor to another, and none is made under
\* the handle of somebody else's.
EntryKeepsOwner ==
  [][/\ \A h \in DOMAIN entries : entries'[h].owner = entries[h].owner
     /\ DOMAIN entries' \cap Foreign = {}]_entries

(* The shop shows the profiles: an instructor that is not queued as it is, unless a  *)
(* state was lost after its entry was written or its readiness changed with nothing  *)
(* queued, and never an image that is gone. With the types of the state.             *)
ShopShowsProfiles == TypeOK /\ CurrentUnlessLost /\ NoBrokenImage

(* Every entry has one owner, whose state names it, for as long as it exists, and    *)
(* nobody else's entry is taken.                                                     *)
EntriesHaveOneOwner == []EntryIsNamed /\ EntryKeepsOwner

=============================================================================
