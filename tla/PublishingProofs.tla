--------------------------- MODULE PublishingProofs ---------------------------
(***************************************************************************)
(* InstructorPublishing, for any instructors, names, foreign handles and   *)
(* bounds: the types hold, every entry has one owner for good, and the     *)
(* storefront shows the profiles.  The inductive invariant says what the   *)
(* sync in progress still knows of profile, state and entry at each of its *)
(* calls, and what the state of everybody else says of its entry.          *)
(***************************************************************************)
EXTENDS InstructorPublishing, TLAPS, WellFoundedInduction

-----------------------------------------------------------------------------
(* The sync in progress.                                                    *)

Reading == [pc: {"handle", "hide", "save_draft", "complete", "failed"},
            id: Instructors, seen: Profile, st: State]
Handling == [pc: {"photo", "failed"}, id: Instructors, seen: Profile, st: State,
             handle: Handles]
Planned == [pc: {"upsert", "save", "discard", "translate", "complete", "failed"},
            id: Instructors, seen: Profile, st: State, handle: Handles,
            image: Photo \cup {Omitted}, file: Photo, replaced: Photo]
Job == {Idle} \cup Reading \cup Handling \cup Planned

At(pcs) == job.pc \in pcs
Hiding == {"hide", "save_draft"}
Written == {"save", "discard", "translate"}
Showing == {"handle", "photo", "upsert"} \cup Written

JobOK == job \in Job

CountsOK ==
  /\ edits \in 0 .. MaxEdits
  /\ \A i \in Instructors : profile[i].version <= edits + 1

\* A claimed row stays in the queue until it is completed.
ClaimsOK ==
  /\ DOMAIN batch \subseteq Queued
  /\ \A i \in DOMAIN batch : batch[i] \in 0 .. MaxAttempts - 1

Typed == TypeOK /\ JobOK /\ CountsOK /\ ClaimsOK

\* What the sync goes by: its row's profile as it was when it was read, unless the row
\* was queued again, and the state, which nobody else writes.
SnapshotHolds ==
  /\ \A i \in fresh : Doing /\ Me = i => job.seen \in AsRead(i)
  /\ At(Hiding) => ~job.seen.ready /\ job.st.saved
  /\ At(Showing) => job.seen.ready
  /\ At({"handle"} \cup Hiding) => job.st = state[Me]
  /\ At({"photo", "upsert", "save"}) => job.st.file = state[Me].file
  /\ At(Showing \ {"handle"}) => job.handle = state[Me].handle
  /\ At(Written) => job.handle \in DOMAIN entries
  /\ At({"discard", "translate"}) => state[Me].saved /\ state[Me].file = job.file

\* The photo that was planned.
PlanHolds ==
  At({"upsert"} \cup Written) =>
    /\ job.file = job.seen.photo
    /\ \/ job.image = job.file
       \/ job.image = Omitted /\ job.file = NoPhoto /\ job.st.file = NoPhoto
    /\ job.replaced # NoPhoto => job.replaced = job.st.file /\ job.replaced # job.file

\* No instructor's handle is anybody else's.
NamesOK ==
  /\ EntryIsNamed
  /\ \A i \in Instructors : state[i].handle \notin Foreign

\* Images that are shown, remembered, or about to be are there.
FilesOK ==
  /\ NoBrokenImage
  /\ \A i \in Instructors : state[i].file # NoPhoto => <<i, state[i].file>> \in files
  /\ At({"upsert", "save", "discard"}) /\ job.file # NoPhoto => <<Me, job.file>> \in files

Owners == SnapshotHolds /\ PlanHolds /\ NamesOK

\* The entry that has been written.
EntryWritten ==
  At(Written) =>
    LET e == entries[job.handle] IN
    /\ e.owner = Me /\ e.status = "ACTIVE" /\ e.name = job.seen.name
    /\ job.image # Omitted \/ Me \notin lost => e.image = job.file

\* The state tells of the entry, and of its image, unless it was lost or is
\* about to be written.
TellsOf(i) ==
  /\ (\E h \in DOMAIN entries : entries[h].owner = i) => state[i].saved
  /\ state[i].saved => entries[state[i].handle].image = state[i].file
StateTells == \A i \in Instructors \ lost : ~(At({"save"}) /\ Me = i) => TellsOf(i)

\* What the sync has brought about when it completes.
Brought ==
  /\ At({"save_draft"}) => entries[job.st.handle].status = "DRAFT"
  /\ At({"complete"}) /\ Me \notin lost => ShownAs(Me, job.seen)

Shows == FilesOK /\ EntryWritten /\ StateTells /\ Brought /\ CurrentUnlessLost

-----------------------------------------------------------------------------
(* Operators of the model.                                                  *)

LEMMA PutIs ==
  ASSUME NEW f, NEW x, NEW y
  PROVE  /\ DOMAIN Put(f, x, y) = DOMAIN f \cup {x}
         /\ Put(f, x, y)[x] = y
         /\ \A z \in DOMAIN f \ {x} : Put(f, x, y)[z] = f[z]
BY DEF Put

LEMMA WithoutIs ==
  ASSUME NEW f, NEW x
  PROVE  /\ DOMAIN Without(f, x) = DOMAIN f \ {x}
         /\ \A z \in DOMAIN f \ {x} : Without(f, x)[z] = f[z]
BY DEF Without

LEMMA MinIn ==
  ASSUME NEW S \in SUBSET Nat, S # {}
  PROVE  Min(S) \in S
<1>1. PICK x \in S : \A y \in S : ~(<<y, x>> \in OpToRel(<, Nat))
  BY WFMin, NatLessThanWellFounded
<1>2. \A y \in S : x <= y
  <2> SUFFICES ASSUME NEW y \in S, y < x PROVE FALSE
    OBVIOUS
  <2>1. <<y, x>> \in OpToRel(<, Nat)
    BY DEF OpToRel
  <2> QED BY <1>1, <2>1
<1> QED BY <1>2 DEF Min

LEMMA NoHandleIsNone == NoHandle \notin Handles
BY DEF NoHandle, Handles

\* The shape of the job at each of its steps.
LEMMA Shape ==
  ASSUME JobOK
  PROVE  /\ At({"handle"} \cup Hiding) => job \in Reading
         /\ At({"photo"}) => job \in Handling
         /\ At({"upsert"} \cup Written) => job \in Planned
         /\ Doing <=> job \in Reading \cup Handling \cup Planned
BY DEF JobOK, Job, Reading, Handling, Planned, Idle, At, Hiding, Written, Doing

\* A job of any shape.
LEMMA Fields ==
  ASSUME JobOK, Doing
  PROVE  /\ Me \in Instructors /\ job.seen \in Profile /\ job.st \in State
         /\ job \in Handling \cup Planned => job.handle \in Handles
         /\ job \in Planned => /\ job.image \in Photo \cup {Omitted}
                               /\ job.file \in Photo /\ job.replaced \in Photo
BY Shape DEF Reading, Handling, Planned, Me

\* The next step of the job.
LEMMA Moves ==
  ASSUME JobOK, Doing, NEW pc, To(pc)
  PROVE  /\ job'.pc = pc /\ Me' = Me /\ job'.seen = job.seen /\ job'.st = job.st
         /\ job \in Reading /\ pc \in {"save_draft", "complete", "failed"} => job' \in Reading
         /\ job \in Handling /\ pc = "failed" => job' \in Handling /\ job'.handle = job.handle
         /\ job \in Planned /\ pc \in Written \cup {"complete", "failed"} =>
              /\ job' \in Planned /\ job'.handle = job.handle
              /\ job'.image = job.image /\ job'.file = job.file
              /\ job'.replaced = job.replaced
<1>1. job' = [job EXCEPT !.pc = pc]
  BY DEF To
<1>2. CASE job \in Reading
  BY <1>1, <1>2 DEF Reading, Handling, Planned, Me
<1>3. CASE job \in Handling
  BY <1>1, <1>3 DEF Reading, Handling, Planned, Me
<1>4. CASE job \in Planned
  BY <1>1, <1>4 DEF Reading, Handling, Planned, Me, Written
<1> QED BY <1>2, <1>3, <1>4, Shape
-----------------------------------------------------------------------------
(* The types.                                                               *)

LEMMA InitTyped == Init => Typed
<1> SUFFICES ASSUME Init PROVE Typed
  OBVIOUS
<1>1. profile \in [Instructors -> Profile] /\ state \in [Instructors -> State]
  BY NameAssumption, BoundAssumption DEF Init, Profile, State, Photo, Version, NoPhoto
<1>2. \A i \in Queued : queue[i] \in 0 .. MaxAttempts
  BY BoundAssumption DEF Init, Queued
<1>3. DOMAIN entries = {} /\ DOMAIN batch = {} /\ job.pc = "idle" /\ Queued = Instructors
  BY DEF Init, Idle, Queued
<1>t. TypeOK
  BY <1>1, <1>2, <1>3 DEF Init, TypeOK, Doing
<1>4. JobOK /\ CountsOK /\ ClaimsOK
  BY <1>3, BoundAssumption DEF Init, JobOK, Job, CountsOK, ClaimsOK
<1> QED BY <1>t, <1>4 DEF Typed

\* A row that is queued again keeps or loses its attempts.
LEMMA EnqueueTyped ==
  ASSUME Typed, NEW i \in Instructors, Enqueue(i)
  PROVE  /\ Queued \subseteq Queued' /\ Queued' \subseteq Instructors /\ i \in Queued'
         /\ \A j \in Queued' : queue'[j] \in 0 .. MaxAttempts
         /\ fresh' = fresh \ {i}
<1>1. Queued \subseteq Instructors /\ \A j \in Queued : queue[j] \in 0 .. MaxAttempts
  BY DEF Typed, TypeOK
<1>2. fresh' = fresh \ {i} /\ queue' = IF i \in Queued THEN queue ELSE Put(queue, i, 0)
  BY DEF Enqueue
<1>3. CASE i \in Queued
  BY <1>1, <1>2, <1>3 DEF Queued
<1>4. CASE i \notin Queued
  <2>1. queue' = Put(queue, i, 0) /\ 0 \in 0 .. MaxAttempts
    BY <1>2, <1>4, BoundAssumption
  <2>2. DOMAIN queue' = Queued \cup {i} /\ queue'[i] = 0 /\ \A j \in Queued \ {i} : queue'[j] = queue[j]
    BY <2>1 DEF Put, Queued
  <2> QED BY <1>1, <1>2, <2>1, <2>2 DEF Queued
<1> QED BY <1>3, <1>4

\* What only the end of a sync changes.
LEMMA FinishTyped ==
  ASSUME Typed, Doing, Finish
  PROVE  /\ job' = Idle /\ DOMAIN batch' = DOMAIN batch \ {Me}
         /\ \A i \in DOMAIN batch' : batch'[i] = batch[i]
         /\ fresh' = fresh \ {Me}
BY WithoutIs DEF Finish

\* Once the queue and what is claimed are typed, so is the rest of a step that
\* writes no record.
LEMMA QueueTyped ==
  ASSUME Typed,
         UNCHANGED <<profile, drifted, state, shopify>> /\ edits' = edits,
         DOMAIN queue' \subseteq Instructors,
         \A i \in DOMAIN queue' : queue'[i] \in 0 .. MaxAttempts,
         DOMAIN batch' \subseteq DOMAIN queue', fresh' \subseteq DOMAIN batch',
         \A i \in DOMAIN batch' : batch'[i] \in 0 .. MaxAttempts - 1,
         job' \in Job, job'.pc # "idle" => job'.id \in DOMAIN batch',
         lost' \subseteq Instructors
  PROVE  Typed'
<1>1. TypeOK'
  BY DEF Typed, TypeOK, Queued, Doing, Me, shopify
<1>2. JobOK' /\ CountsOK' /\ ClaimsOK'
  BY DEF Typed, JobOK, CountsOK, ClaimsOK, Queued
<1> QED BY <1>1, <1>2 DEF Typed

\* A step of the sync keeps the queue and the claims.
LEMMA SyncTyped ==
  ASSUME Typed,
         UNCHANGED <<profile, queue, batch, fresh>> /\ edits' = edits,
         drifted' \subseteq Instructors,
         state' \in [Instructors -> State],
         DOMAIN entries' \subseteq Handles, \A h \in DOMAIN entries' : entries'[h] \in Entry,
         files' \subseteq Instructors \X Photo,
         job' \in Job, job'.id \in DOMAIN batch,
         lost' \subseteq Instructors
  PROVE  Typed'
<1>1. TypeOK'
  BY DEF Typed, TypeOK, Queued, Doing, Me
<1>2. JobOK' /\ CountsOK' /\ ClaimsOK'
  BY DEF Typed, JobOK, CountsOK, ClaimsOK, Queued
<1> QED BY <1>1, <1>2 DEF Typed

LEMMA EditTyped ==
  ASSUME Typed, NEW i \in Instructors, EditProfile(i)
  PROVE  Typed'
<1> DEFINE p == profile[i]
<1>1. /\ Enqueue(i) /\ edits < MaxEdits /\ edits' = edits + 1
      /\ UNCHANGED <<state, shopify, batch, job, lost, drifted>>
  BY DEF EditProfile
<1>2. PICK q : /\ profile' = [profile EXCEPT ![i] = q]
               /\ q \in {[p EXCEPT !.ready = ~@]}
                        \cup {[p EXCEPT !.name = n] : n \in Names \ {p.name}}
                        \cup {[p EXCEPT !.photo = v, !.version = p.version + 1] :
                                v \in {NoPhoto, p.version + 1} \ {p.photo}}
  BY DEF EditProfile
<1>3. edits \in 0 .. MaxEdits /\ p \in Profile /\ p.version <= edits + 1 /\ MaxEdits \in Nat
  BY BoundAssumption DEF Typed, TypeOK, CountsOK
<1>4. p.version + 1 \in Version /\ NoPhoto \in Version
  BY <1>1, <1>3 DEF Version, Profile, NoPhoto
<1>5. q \in Profile /\ (q.version = p.version \/ q.version = p.version + 1)
  <2>1. CASE q = [p EXCEPT !.ready = ~@]
    BY <1>3, <2>1 DEF Profile
  <2>2. CASE q \in {[p EXCEPT !.name = n] : n \in Names \ {p.name}}
    BY <1>3, <2>2 DEF Profile
  <2>3. CASE q \in {[p EXCEPT !.photo = v, !.version = p.version + 1] :
                      v \in {NoPhoto, p.version + 1} \ {p.photo}}
    <3>1. PICK v \in Version : q = [p EXCEPT !.photo = v, !.version = p.version + 1]
      BY <1>4, <2>3
    <3> QED BY <1>3, <1>4, <3>1 DEF Profile, Photo
  <2> QED BY <1>2, <2>1, <2>2, <2>3
<1>6. profile' \in [Instructors -> Profile] /\ \A j \in Instructors : profile'[j].version <= edits' + 1
  <2>1. q.version <= edits' + 1 /\ \A j \in Instructors : profile[j].version \in Int
    BY <1>1, <1>3, <1>5 DEF Profile, Version, Typed, TypeOK
  <2>2. profile \in [Instructors -> Profile] /\ \A j \in Instructors : profile[j].version <= edits + 1
    BY DEF Typed, TypeOK, CountsOK
  <2>3. profile' = [profile EXCEPT ![i] = q] /\ edits' = edits + 1
    BY <1>1, <1>2
  <2>4. \A j \in Instructors : profile'[j] = IF j = i THEN q ELSE profile[j]
    BY <2>2, <2>3
  <2>5. \A j \in Instructors : profile'[j].version <= edits' + 1
    BY <2>1, <2>2, <2>3, <2>4, <1>3
  <2> QED BY <1>5, <2>2, <2>3, <2>5
<1>7. CountsOK'
  BY <1>1, <1>3, <1>6 DEF CountsOK
<1>8. TypeOK'
  BY <1>1, <1>6, EnqueueTyped DEF Typed, TypeOK, Queued, Doing, Me, shopify
<1>9. JobOK' /\ ClaimsOK'
  BY <1>1, EnqueueTyped DEF Typed, JobOK, ClaimsOK, Queued
<1> QED BY <1>7, <1>8, <1>9 DEF Typed

LEMMA DriftTyped ==
  ASSUME Typed, NEW i \in Instructors, Drift(i)
  PROVE  Typed'
<1>1. /\ profile' = [profile EXCEPT ![i].ready = ~@] /\ edits < MaxEdits /\ edits' = edits + 1
      /\ drifted' = drifted \cup {i}
      /\ UNCHANGED <<queue, state, shopify, batch, fresh, job, lost>>
  BY DEF Drift, work
<1>2. profile' \in [Instructors -> Profile] /\ \A j \in Instructors : profile'[j].version = profile[j].version
  BY <1>1 DEF Typed, TypeOK, Profile
<1>3. TypeOK'
  BY <1>1, <1>2 DEF Typed, TypeOK, Queued, Doing, Me, shopify
<1>4. CountsOK'
  <2>1. \A j \in Instructors : profile[j].version \in Int /\ profile[j].version <= edits + 1
    BY DEF Typed, TypeOK, CountsOK, Profile, Version
  <2> QED BY <1>1, <1>2, <2>1, BoundAssumption DEF Typed, CountsOK
<1>5. JobOK' /\ ClaimsOK'
  BY <1>1 DEF Typed, JobOK, ClaimsOK, Queued
<1> QED BY <1>3, <1>4, <1>5 DEF Typed

LEMMA RunTyped ==
  ASSUME Typed, NEW S \in SUBSET Instructors, Run(S)
  PROVE  Typed'
<1>1. queue' = [i \in Queued \cup S |-> IF i \in S THEN 0 ELSE queue[i]] /\ fresh' = fresh \ S
  BY DEF Run, Requeue
<1>2. UNCHANGED <<profile, drifted, state, shopify, batch, job, lost, edits>>
  BY DEF Run
<1>3. /\ DOMAIN queue' \subseteq Instructors /\ Queued \subseteq DOMAIN queue'
      /\ \A i \in DOMAIN queue' : queue'[i] \in 0 .. MaxAttempts
  BY <1>1, BoundAssumption DEF Typed, TypeOK
<1> QED BY <1>1, <1>2, <1>3, QueueTyped DEF Typed, TypeOK, JobOK, ClaimsOK, Doing, Me

LEMMA ClaimTyped ==
  ASSUME Typed, NEW S \in SUBSET Instructors, Claim(S)
  PROVE  Typed'
<1>1. /\ batch' = [i \in S |-> queue[i]] /\ fresh' = S /\ S \subseteq Queued
      /\ \A i \in S : queue[i] < MaxAttempts
      /\ UNCHANGED <<profile, drifted, queue, state, shopify, job, lost, edits>>
  BY DEF Claim, Claimed, Batch, bounds
<1>2. job' = Idle
  BY <1>1 DEF Claim, Typed, JobOK, Job, Reading, Handling, Planned, Doing
<1>3. \A i \in S : batch'[i] \in 0 .. MaxAttempts - 1
  BY <1>1, BoundAssumption DEF Typed, TypeOK
<1>4. job' \in Job /\ job'.pc = "idle"
  BY <1>2 DEF Job, Idle
<1> QED BY <1>1, <1>3, <1>4, QueueTyped DEF Typed, TypeOK, Queued

LEMMA AssessTyped ==
  ASSUME Typed, NEW i \in Instructors, Assess(i)
  PROVE  /\ Typed' /\ job' \in Reading /\ job'.id = i /\ i \in DOMAIN batch
         /\ job'.seen = profile[i] /\ job'.st = state[i]
         /\ job'.pc = IF profile[i].ready THEN "handle"
                      ELSE IF state[i].saved THEN "hide" ELSE "complete"
<1>1. /\ job' = Snapshot(i, IF profile[i].ready THEN "handle"
                            ELSE IF state[i].saved THEN "hide" ELSE "complete")
      /\ i \in DOMAIN batch
      /\ UNCHANGED <<profile, queue, state, shopify, batch, fresh, lost, edits>>
      /\ drifted' = drifted \ {i}
  BY DEF Assess, bounds
<1>2. /\ job' \in Reading /\ job'.id = i
      /\ job'.seen = profile[i] /\ job'.st = state[i]
      /\ job'.pc = IF profile[i].ready THEN "handle"
                   ELSE IF state[i].saved THEN "hide" ELSE "complete"
  BY <1>1 DEF Snapshot, Reading, Typed, TypeOK
<1>3. Typed'
  BY <1>1, <1>2, SyncTyped DEF Typed, TypeOK, Job, shopify
<1> QED BY <1>1, <1>2, <1>3
\* The handle that is claimed is nobody's.
LEMMA ClaimFinds ==
  ASSUME Typed, ClaimHandle
  PROVE  \E h \in Handles \ Foreign :
           /\ ~StoredByOther(h, Me) /\ ~EntryOfOther(h, Me)
           /\ state' = [state EXCEPT ![Me].handle = h]
           /\ WithHandle(h)
<1> DEFINE free == {n \in 1 .. MaxSuffix :
                      LET h == <<job.seen.name, n>> IN
                      /\ ~IsLegacy(h)
                      /\ ~StoredByOther(h, Me)
                      /\ ~EntryOfOther(h, Me)}
           handle == <<job.seen.name, Min(free)>>
<1>1. /\ job.pc = "handle" /\ free # {}
      /\ state' = [state EXCEPT ![Me].handle = handle] /\ WithHandle(handle)
  BY DEF ClaimHandle
<1>2. job.seen.name \in Names
  BY <1>1, Shape DEF Typed, At, Reading, Profile
<1>3. Min(free) \in free
  <2>1. free \in SUBSET Nat
    BY HandleAssumption
  <2> HIDE DEF free
  <2> QED BY <1>1, <2>1, MinIn
<1>4. /\ handle \in Handles \ Foreign
      /\ ~StoredByOther(handle, Me) /\ ~EntryOfOther(handle, Me)
  BY <1>2, <1>3 DEF Handles, IsLegacy
<1> HIDE DEF handle
<1> QED BY <1>1, <1>4

\* The job that has a handle, and the one that has a plan.
LEMMA WithHandleTyped ==
  ASSUME JobOK, Doing, NEW h \in Handles, WithHandle(h)
  PROVE  /\ job' \in Handling /\ job'.pc = "photo" /\ Me' = Me
         /\ job'.seen = job.seen /\ job'.st = job.st /\ job'.handle = h
BY Fields DEF WithHandle, Handling, Me

LEMMA PlanTyped ==
  ASSUME JobOK, job.pc = "photo", NEW image \in Photo \cup {Omitted}, NEW file \in Photo,
         Plan(image, file)
  PROVE  /\ job' \in Planned /\ job'.pc = "upsert" /\ Me' = Me
         /\ job'.seen = job.seen /\ job'.st = job.st /\ job'.handle = job.handle
         /\ job'.image = image /\ job'.file = file
         /\ job'.replaced = IF file = job.st.file THEN NoPhoto ELSE job.st.file
<1>1. /\ Me \in Instructors /\ job.seen \in Profile /\ job.st \in State
      /\ job.handle \in Handles
  BY Shape DEF At, Handling, Me
<1>2. job.st.file \in Photo /\ NoPhoto \in Photo
  BY <1>1, BoundAssumption DEF State, Photo, Version, NoPhoto
<1> QED BY <1>1, <1>2 DEF Plan, Planned, Me

LEMMA HandleTyped ==
  ASSUME Typed, ClaimHandle \/ UseStoredHandle
  PROVE  Typed'
<1>1. /\ job.pc = "handle" /\ Doing /\ JobOK /\ job \in Reading /\ Me \in DOMAIN batch
      /\ job.st \in State
      /\ UNCHANGED <<profile, drifted, queue, shopify, batch, fresh, lost, edits>>
  BY Shape DEF ClaimHandle, UseStoredHandle, Typed, TypeOK, At, Doing, bounds, Reading
<1>2. CASE ClaimHandle
  <2>1. PICK h \in Handles : state' = [state EXCEPT ![Me].handle = h] /\ WithHandle(h)
    BY <1>2, ClaimFinds
  <2>2. state' \in [Instructors -> State]
    BY <2>1, <1>1 DEF Typed, TypeOK, State, Reading, Me
  <2> QED BY <1>1, <2>1, <2>2, WithHandleTyped, SyncTyped DEF Typed, TypeOK, Job, shopify, Me
<1>3. CASE UseStoredHandle
  <2>1. UNCHANGED state /\ job.st.handle \in Handles
    BY <1>1, <1>3 DEF UseStoredHandle, State
  <2>2. To("failed") \/ WithHandle(job.st.handle)
    BY <1>3 DEF UseStoredHandle
  <2>3. job' \in Job /\ Me' = Me
    BY <1>1, <2>1, <2>2, WithHandleTyped, Moves DEF Job
  <2> QED BY <1>1, <2>1, <2>3, SyncTyped DEF Typed, TypeOK, shopify, Me
<1> QED BY <1>2, <1>3

\* The photo is known, or a file is made for it.
LEMMA PhotoTyped ==
  ASSUME Typed, KeepPhoto \/ UploadPhoto
  PROVE  /\ Typed' /\ job.pc = "photo" /\ job' \in Planned /\ job'.pc = "upsert" /\ Me' = Me
         /\ job'.seen = job.seen /\ job'.st = job.st /\ job'.handle = job.handle
         /\ job'.file = job.seen.photo
         /\ \/ job'.image = job'.file
            \/ job'.image = Omitted /\ job'.file = NoPhoto /\ job.st.file = NoPhoto
         /\ job'.replaced = IF job'.file = job.st.file THEN NoPhoto ELSE job.st.file
         /\ files \subseteq files'
         /\ job'.file \in {NoPhoto, job.st.file} \/ <<Me, job'.file>> \in files'
         /\ UNCHANGED <<profile, drifted, queue, state, entries, batch, fresh, lost, edits>>
<1> DEFINE photo == job.seen.photo
           image == IF KeepPhoto /\ photo = NoPhoto /\ job.st.file = NoPhoto THEN Omitted ELSE photo
<1>1. /\ job.pc = "photo" /\ Doing /\ JobOK /\ Me \in DOMAIN batch /\ Me \in Instructors
      /\ UNCHANGED <<profile, drifted, queue, state, entries, batch, fresh, lost, edits>>
  BY DEF KeepPhoto, UploadPhoto, Typed, TypeOK, Doing, bounds, shopify
<1>2. photo \in Photo
  BY <1>1, Fields DEF Profile
<1>3. photo \notin {NoPhoto, job.st.file} => UploadPhoto
  BY DEF KeepPhoto
<1>4. Plan(image, photo)
  BY DEF KeepPhoto, UploadPhoto
<1>5. image \in Photo \cup {Omitted} /\ (image = photo \/ (image = Omitted /\ photo = NoPhoto /\ job.st.file = NoPhoto))
  BY <1>2
<1>6. /\ files \subseteq files' /\ files' \subseteq files \cup {<<Me, photo>>}
      /\ photo \notin {NoPhoto, job.st.file} => <<Me, photo>> \in files'
  BY <1>3 DEF KeepPhoto, UploadPhoto, CreateImage, HasImage, shopify
<1> HIDE DEF photo, image
<1>7. /\ job' \in Planned /\ job'.pc = "upsert" /\ Me' = Me
      /\ job'.seen = job.seen /\ job'.st = job.st /\ job'.handle = job.handle
      /\ job'.image = image /\ job'.file = photo
      /\ job'.replaced = IF photo = job.st.file THEN NoPhoto ELSE job.st.file
  BY <1>1, <1>2, <1>4, <1>5, PlanTyped
<1>8. files' \subseteq Instructors \X Photo
  BY <1>1, <1>2, <1>6 DEF Typed, TypeOK
<1>9. Typed'
  BY <1>1, <1>7, <1>8, SyncTyped DEF Typed, TypeOK, Job, Me
<1> QED BY <1>1, <1>5, <1>6, <1>7, <1>9 DEF photo
\* The calls that write entry and state, one after the other.
LEMMA DraftTyped ==
  ASSUME Typed, HideEntry \/ SaveDraft
  PROVE  Typed'
<1>1. /\ At(Hiding) /\ Doing /\ JobOK /\ job \in Reading /\ Me \in DOMAIN batch
      /\ UNCHANGED <<profile, drifted, queue, batch, fresh, lost, edits>>
  BY Shape DEF HideEntry, SaveDraft, Typed, TypeOK, At, Hiding, Doing, bounds
<1>2. job' \in Job /\ Me' = Me
  BY <1>1, Moves DEF HideEntry, SaveDraft, Job
<1>3. CASE HideEntry
  <2>1. entries' = [entries EXCEPT ![job.st.handle].status = "DRAFT"] /\ UNCHANGED <<state, files>>
    BY <1>3 DEF HideEntry
  <2>2. \A h \in DOMAIN entries' : entries'[h] \in Entry
    BY <2>1 DEF Typed, TypeOK, Entry
  <2>3. DOMAIN entries' = DOMAIN entries
    BY <2>1
  <2> QED BY <1>1, <1>2, <2>1, <2>2, <2>3, SyncTyped DEF Typed, TypeOK, Me
<1>4. CASE SaveDraft
  <2>1. state' \in [Instructors -> State] /\ UNCHANGED shopify
    BY <1>4 DEF SaveDraft, Typed, TypeOK, State
  <2> QED BY <1>1, <1>2, <2>1, SyncTyped DEF Typed, TypeOK, shopify, Me
<1> QED BY <1>3, <1>4

LEMMA UpsertTyped ==
  ASSUME Typed, UpsertEntry
  PROVE  /\ Typed' /\ job' \in Planned /\ job'.pc = "save" /\ Me' = Me
         /\ job'.seen = job.seen /\ job'.st = job.st /\ job'.handle = job.handle
         /\ job'.image = job.image /\ job'.file = job.file /\ job'.replaced = job.replaced
         /\ DOMAIN entries' = DOMAIN entries \cup {job.handle}
         /\ entries'[job.handle] = Upserted(job.handle, job.seen.name, job.image)
         /\ \A h \in DOMAIN entries \ {job.handle} : entries'[h] = entries[h]
<1>1. /\ At({"upsert"}) /\ Doing /\ JobOK /\ job \in Planned /\ Me \in DOMAIN batch
      /\ UNCHANGED <<profile, drifted, queue, state, files, batch, fresh, lost, edits>>
  BY Shape DEF UpsertEntry, Typed, TypeOK, At, Doing, bounds
<1>2. /\ Me \in Instructors /\ job.handle \in Handles /\ job.seen \in Profile
      /\ job.image \in Photo \cup {Omitted}
  BY <1>1, Fields
<1>3. entries' = Put(entries, job.handle, Upserted(job.handle, job.seen.name, job.image))
  BY DEF UpsertEntry
<1>4. /\ DOMAIN entries' = DOMAIN entries \cup {job.handle}
      /\ entries'[job.handle] = Upserted(job.handle, job.seen.name, job.image)
      /\ \A h \in DOMAIN entries \ {job.handle} : entries'[h] = entries[h]
  BY <1>3 DEF Put
<1>5. Upserted(job.handle, job.seen.name, job.image) \in Entry
  <2> DEFINE name == job.seen.name
             old == IF job.handle \in DOMAIN entries THEN entries[job.handle]
                    ELSE [english |-> name, image |-> NoPhoto]
  <2>1. name \in Names /\ NoPhoto \in Photo
    BY <1>2, BoundAssumption DEF Profile, NoPhoto, Photo, Version
  <2>2. old.english \in Names /\ old.image \in Photo
    BY <2>1 DEF Typed, TypeOK, Entry
  <2>3. Upserted(job.handle, job.seen.name, job.image) =
          [owner |-> Me, status |-> "ACTIVE", name |-> name, english |-> old.english,
           image |-> IF job.image = Omitted THEN old.image ELSE job.image]
    BY DEF Upserted
  <2> HIDE DEF old, name
  <2> QED BY <1>2, <2>1, <2>2, <2>3 DEF Entry
<1>6. \A h \in DOMAIN entries' : entries'[h] \in Entry
  BY <1>4, <1>5 DEF Typed, TypeOK
<1>7. /\ job' \in Planned /\ job'.pc = "save" /\ Me' = Me
      /\ job'.seen = job.seen /\ job'.st = job.st /\ job'.handle = job.handle
      /\ job'.image = job.image /\ job'.file = job.file /\ job'.replaced = job.replaced
  BY <1>1, Moves DEF UpsertEntry, Written
<1>8. Typed'
  BY <1>1, <1>2, <1>4, <1>6, <1>7, SyncTyped DEF Typed, TypeOK, Job, Me
<1> QED BY <1>4, <1>7, <1>8

LEMMA LaterTyped ==
  ASSUME Typed, SaveState \/ DiscardReplaced \/ Translate
  PROVE  /\ Typed' /\ job \in Planned /\ job' \in Planned /\ Me' = Me
         /\ job'.seen = job.seen /\ job'.st = job.st /\ job'.handle = job.handle
         /\ job'.image = job.image /\ job'.file = job.file /\ job'.replaced = job.replaced
<1>1. /\ At(Written) /\ Doing /\ JobOK /\ job \in Planned /\ Me \in DOMAIN batch
      /\ UNCHANGED <<profile, drifted, queue, batch, fresh, lost, edits>>
  BY Shape DEF SaveState, DiscardReplaced, Translate, Typed, TypeOK, At, Doing, Written, bounds
<1>2. Me \in Instructors /\ job.seen \in Profile /\ job.file \in Photo
  BY <1>1, Fields
<1>3. /\ job' \in Planned /\ Me' = Me
      /\ job'.seen = job.seen /\ job'.st = job.st /\ job'.handle = job.handle
      /\ job'.image = job.image /\ job'.file = job.file /\ job'.replaced = job.replaced
  BY <1>1, Moves DEF SaveState, DiscardReplaced, Translate, Written
<1>4. CASE SaveState
  <2>1. UNCHANGED shopify
    BY <1>4 DEF SaveState
  <2>2. state' \in [Instructors -> State]
    <3>1. [state[Me] EXCEPT !.saved = TRUE, !.status = "active", !.file = job.file] \in State
      BY <1>2 DEF Typed, TypeOK, State
    <3>2. state' = [state EXCEPT ![Me] = [state[Me] EXCEPT !.saved = TRUE, !.status = "active",
                                                          !.file = job.file]]
      BY <1>2, <1>4 DEF SaveState, Typed, TypeOK, State
    <3> QED BY <1>2, <3>1, <3>2 DEF Typed, TypeOK
  <2>3. Typed'
    BY <1>1, <1>2, <1>3, <2>1, <2>2, SyncTyped DEF Typed, TypeOK, Job, shopify, Me
  <2> QED BY <1>1, <1>3, <2>3
<1>5. CASE DiscardReplaced
  <2>1. UNCHANGED <<state, entries>> /\ files' \subseteq files
    BY <1>5 DEF DiscardReplaced, DeleteFile
  <2>3. Typed'
    BY <1>1, <1>2, <1>3, <2>1, SyncTyped DEF Typed, TypeOK, Job, Me
  <2> QED BY <1>1, <1>3, <2>3
<1>6. CASE Translate
  <2>1. entries' = [entries EXCEPT ![job.handle].english = job.seen.name] /\ UNCHANGED <<state, files>>
    BY <1>6 DEF Translate, RegisterTranslation
  <2>2. DOMAIN entries' = DOMAIN entries /\ job.seen.name \in Names
    BY <1>2, <2>1 DEF Profile
  <2>3. \A h \in DOMAIN entries' : entries'[h] \in Entry
    BY <2>1, <2>2 DEF Typed, TypeOK, Entry
  <2>4. Typed'
    BY <1>1, <1>2, <1>3, <2>1, <2>2, <2>3, SyncTyped DEF Typed, TypeOK, Job, Me
  <2> QED BY <1>1, <1>3, <2>4
<1> QED BY <1>4, <1>5, <1>6

\* The end of a sync: its claim goes, and the queue as well or not.
LEMMA EndTyped ==
  ASSUME Typed, Complete \/ RecordFailure \/ RecordNothing
  PROVE  /\ Typed' /\ Doing /\ job' = Idle /\ fresh' = fresh \ {Me}
         /\ Queued \ {Me} \subseteq Queued'
         /\ Me \notin Queued' => Me \in fresh /\ job.pc = "complete"
         /\ UNCHANGED <<profile, drifted, state, shopify, lost>>
<1>1. /\ Doing /\ Finish /\ JobOK /\ Me \in DOMAIN batch /\ Me \in Queued
      /\ UNCHANGED <<profile, drifted, state, shopify, lost, edits>>
  BY DEF Complete, RecordFailure, RecordNothing, Doing, bounds, Typed, TypeOK, ClaimsOK
<1>2. /\ job' = Idle /\ DOMAIN batch' = DOMAIN batch \ {Me} /\ fresh' = fresh \ {Me}
      /\ \A i \in DOMAIN batch' : batch'[i] = batch[i]
  BY <1>1, FinishTyped
<1>3. /\ DOMAIN queue' \subseteq Instructors /\ Queued \ {Me} \subseteq DOMAIN queue'
      /\ \A i \in DOMAIN queue' : queue'[i] \in 0 .. MaxAttempts
      /\ Me \notin DOMAIN queue' => Me \in fresh /\ job.pc = "complete"
  <2>1. Queued \subseteq Instructors /\ \A i \in Queued : queue[i] \in 0 .. MaxAttempts
    BY DEF Typed, TypeOK
  <2>2. CASE queue' = queue
    BY <1>1, <2>1, <2>2 DEF Queued
  <2>3. CASE queue' = Without(queue, Me) /\ Me \in fresh /\ job.pc = "complete"
    BY <2>1, <2>3 DEF Without, Queued
  <2>4. CASE queue' = Put(queue, Me, batch[Me] + 1)
    <3>1. batch[Me] + 1 \in 0 .. MaxAttempts
      BY <1>1, BoundAssumption DEF Typed, ClaimsOK
    <3> HIDE DEF Me
    <3> QED BY <1>1, <2>1, <2>4, <3>1 DEF Put, Queued
  <2> QED BY <2>2, <2>3, <2>4 DEF Complete, RecordFailure, RecordNothing
<1>4. Typed'
  <2>1. DOMAIN batch' \subseteq DOMAIN queue' /\ fresh' \subseteq DOMAIN batch'
    BY <1>2, <1>3 DEF Typed, TypeOK, ClaimsOK
  <2>2. \A i \in DOMAIN batch' : batch'[i] \in 0 .. MaxAttempts - 1
    BY <1>2 DEF Typed, ClaimsOK
  <2>3. job' \in Job /\ job'.pc = "idle"
    BY <1>2 DEF Job, Idle
  <2> QED BY <1>1, <1>3, <2>1, <2>2, <2>3, QueueTyped DEF Typed, TypeOK
<1> QED BY <1>1, <1>2, <1>3, <1>4 DEF Queued

\* A call fails, or the process dies.
LEMMA FaultTyped ==
  ASSUME Typed, PhotoRefused \/ Fail \/ Crash
  PROVE  /\ Typed'
         /\ \/ job' = Idle
            \/ job'.pc = "failed" /\ Me' = Me /\ job'.seen = job.seen
         /\ lost' \subseteq Instructors /\ lost \subseteq lost'
         /\ (job.pc = "save" => Me \in lost')
         /\ fresh' \subseteq fresh
         /\ UNCHANGED <<profile, drifted, queue, state, shopify>>
<1>0. UNCHANGED <<profile, drifted, queue, state, shopify, edits>>
  BY DEF PhotoRefused, Fail, Crash
<1>1. lost' \subseteq Instructors /\ lost \subseteq lost' /\ (job.pc = "save" => Me \in lost')
  <2>1. job.pc = "save" => Me \in Instructors
    BY DEF Typed, TypeOK, Doing
  <2> QED BY <2>1 DEF PhotoRefused, Fail, Crash, Forgets, Typed, TypeOK
<1>2. CASE PhotoRefused \/ Fail
  <2>1. Doing /\ JobOK /\ Me \in DOMAIN batch /\ To("failed") /\ UNCHANGED <<batch, fresh>>
    BY <1>2 DEF PhotoRefused, Fail, Typed, TypeOK, Doing
  <2>2. job' \in Job /\ job'.pc = "failed" /\ Me' = Me /\ job'.seen = job.seen
    BY <2>1, Moves, Shape DEF Job
  <2>3. Typed'
    BY <1>0, <1>1, <2>1, <2>2, SyncTyped DEF Typed, TypeOK, shopify, Me
  <2> QED BY <1>0, <1>1, <2>1, <2>2, <2>3
<1>3. CASE Crash
  <2>1. job' = Idle /\ DOMAIN batch' = {} /\ fresh' = {}
    BY <1>3 DEF Crash
  <2>2. job' \in Job /\ job'.pc = "idle"
    BY <2>1 DEF Job, Idle
  <2>3. Typed'
    BY <1>0, <1>1, <2>1, <2>2, QueueTyped DEF Typed, TypeOK, Queued
  <2> QED BY <1>0, <1>1, <2>1, <2>3
<1> QED BY <1>2, <1>3

LEMMA TypedSteps == Typed /\ [Next]_vars => Typed'
<1> SUFFICES ASSUME Typed, [Next]_vars PROVE Typed'
  OBVIOUS
<1>1. CASE UNCHANGED vars
  BY <1>1 DEF vars, Typed, TypeOK, JobOK, CountsOK, ClaimsOK, Queued, Doing, Me
<1>2. CASE Step
  BY <1>2, DraftTyped, HandleTyped, PhotoTyped, UpsertTyped, LaterTyped, EndTyped DEF Step
<1> QED
  BY <1>1, <1>2, EditTyped, DriftTyped, AssessTyped, RunTyped, ClaimTyped, EndTyped, FaultTyped DEF Next

\* Every record keeps its shape, and a job is always on a claimed row.
THEOREM TypeCorrect == Spec => []TypeOK
<1>1. Typed => TypeOK
  BY DEF Typed
<1> QED BY <1>1, InitTyped, TypedSteps, PTL DEF Spec
-----------------------------------------------------------------------------
(* Every entry has one owner.                                               *)

LEMMA InitOwners == Init => Owners
<1> SUFFICES ASSUME Init PROVE Owners
  OBVIOUS
<1>1. /\ DOMAIN entries = {} /\ job.pc = "idle"
      /\ \A i \in Instructors : state[i].handle = NoHandle /\ ~state[i].saved
  BY DEF Init, Idle
<1>2. NoHandle \notin Foreign
  BY NoHandleIsNone, HandleAssumption
<1> QED
  BY <1>1, <1>2 DEF Owners, SnapshotHolds, PlanHolds, NamesOK, EntryIsNamed, At, Doing,
    Hiding, Showing, Written

\* Owners and handles stay as they are.
LEMMA SameNames ==
  ASSUME Typed, NamesOK,
         \A i \in Instructors : state'[i].handle = state[i].handle
                                /\ state'[i].saved = state[i].saved,
         DOMAIN entries' = DOMAIN entries,
         \A h \in DOMAIN entries : entries'[h].owner = entries[h].owner
  PROVE  NamesOK'
<1>1. \A h \in DOMAIN entries : entries[h].owner \in Instructors
  BY DEF Typed, TypeOK, Entry
<1>2. EntryIsNamed'
  BY <1>1 DEF NamesOK, EntryIsNamed
<1> QED BY <1>2 DEF NamesOK

\* A job that needs nothing of what it knows.
LEMMA RestingSnapshot ==
  ASSUME job'.pc \in {"idle", "complete", "failed"},
         \A i \in fresh' : job'.pc # "idle" /\ job'.id = i => job'.seen \in AsRead(i)'
  PROVE  SnapshotHolds' /\ PlanHolds'
BY DEF SnapshotHolds, PlanHolds, At, Doing, Me, Hiding, Showing, Written

\* What the sync does not see.
LEMMA UnseenOwners ==
  ASSUME Typed, Owners, UNCHANGED <<state, shopify, job>>,
         \A i \in fresh' : Doing /\ Me = i => i \in fresh /\ AsRead(i) \subseteq AsRead(i)'
  PROVE  Owners'
<1>1. NamesOK'
  BY SameNames DEF Owners, shopify
<1>2. SnapshotHolds' /\ PlanHolds'
  BY DEF Owners, SnapshotHolds, PlanHolds, At, Doing, Me, shopify
<1> QED BY <1>1, <1>2 DEF Owners

LEMMA EditOwners ==
  ASSUME Typed, Owners, NEW i \in Instructors, EditProfile(i)
  PROVE  Owners'
<1>1. /\ fresh' = fresh \ {i} /\ UNCHANGED <<state, shopify, job>>
      /\ drifted' = drifted /\ \E q : profile' = [profile EXCEPT ![i] = q]
  BY DEF EditProfile, Enqueue
<1>2. \A j \in Instructors \ {i} : AsRead(j)' = AsRead(j)
  BY <1>1 DEF Typed, TypeOK, AsRead
<1>3. Doing => Me \in Instructors
  BY DEF Typed, TypeOK
<1> QED BY <1>1, <1>2, <1>3, UnseenOwners

\* A profile that drifts is still one of the two that it was read as.
LEMMA DriftReads ==
  ASSUME Typed, NEW i \in Instructors, Drift(i)
  PROVE  \A j \in Instructors : AsRead(j) \subseteq AsRead(j)'
<1>1. /\ profile' = [profile EXCEPT ![i].ready = ~@] /\ drifted' = drifted \cup {i}
      /\ profile \in [Instructors -> Profile]
  BY DEF Drift, Typed, TypeOK
<1>2. ASSUME NEW j \in Instructors \ {i} PROVE AsRead(j)' = AsRead(j)
  BY <1>1 DEF AsRead
<1>3. PICK p \in Profile : p = profile[i]
  BY <1>1
<1>4. PICK q : q = [p EXCEPT !.ready = ~@]
  OBVIOUS
<1>5. q \in Profile /\ [q EXCEPT !.ready = ~@] = p
  BY <1>3, <1>4 DEF Profile
<1>6. AsRead(i) \subseteq {p, q}
  BY <1>3, <1>4 DEF AsRead
<1>7. profile'[i] = q /\ i \in drifted'
  BY <1>1, <1>3, <1>4
<1>8. AsRead(i)' = {p, q}
  BY <1>5, <1>7 DEF AsRead
<1> QED BY <1>2, <1>6, <1>8

LEMMA DriftOwners ==
  ASSUME Typed, Owners, NEW i \in Instructors, Drift(i)
  PROVE  Owners'
<1>1. UNCHANGED <<state, shopify, job, fresh>> /\ fresh \subseteq Instructors
  BY DEF Drift, work, Typed, TypeOK
<1> QED BY <1>1, DriftReads, UnseenOwners

LEMMA RunOwners ==
  ASSUME Typed, Owners, NEW S \in SUBSET Instructors, Run(S) \/ Claim(S)
  PROVE  Owners'
<1>1. UNCHANGED <<profile, drifted, state, shopify, job>> /\ (~Doing \/ fresh' \subseteq fresh)
  BY DEF Run, Requeue, Claim, bounds
<1> QED BY <1>1, UnseenOwners DEF AsRead

LEMMA AssessOwners ==
  ASSUME Typed, Owners, NEW i \in Instructors, Assess(i)
  PROVE  Owners'
<1>1. /\ job'.id = i /\ job'.seen = profile[i] /\ job'.st = state[i]
      /\ job'.pc = IF profile[i].ready THEN "handle"
                   ELSE IF state[i].saved THEN "hide" ELSE "complete"
      /\ UNCHANGED <<profile, state, shopify>>
  BY AssessTyped DEF Assess
<1>2. NamesOK'
  BY <1>1, SameNames DEF Owners, shopify
<1>3. profile[i].ready \in BOOLEAN /\ state[i].saved \in BOOLEAN
  BY DEF Typed, TypeOK, Profile, State
<1>4. SnapshotHolds' /\ PlanHolds'
  BY <1>1, <1>3 DEF SnapshotHolds, AsRead, PlanHolds, At, Doing, Me, Hiding, Showing, Written
<1> QED BY <1>2, <1>4 DEF Owners

LEMMA DraftOwners ==
  ASSUME Typed, Owners, HideEntry \/ SaveDraft
  PROVE  Owners'
<1>1. /\ At(Hiding) /\ Doing /\ JobOK /\ Me \in Instructors /\ UNCHANGED <<profile, drifted, fresh>>
  BY DEF HideEntry, SaveDraft, Typed, TypeOK, At, Hiding, Doing
<1>2. CASE HideEntry
  <2>1. /\ job'.pc = "save_draft" /\ Me' = Me /\ job'.seen = job.seen /\ job'.st = job.st
        /\ UNCHANGED state
    BY <1>1, <1>2, Moves DEF HideEntry
  <2>2. entries' = [entries EXCEPT ![job.st.handle].status = "DRAFT"]
    BY <1>2 DEF HideEntry
  <2>3. DOMAIN entries' = DOMAIN entries /\ \A h \in DOMAIN entries : entries'[h].owner = entries[h].owner
    BY <2>2 DEF Typed, TypeOK, Entry
  <2>4. NamesOK'
    BY <2>1, <2>3, SameNames DEF Owners
  <2>5. SnapshotHolds' /\ PlanHolds'
    BY <1>1, <2>1 DEF Owners, SnapshotHolds, AsRead, PlanHolds, At, Doing, Hiding, Showing, Written
  <2> QED BY <2>4, <2>5 DEF Owners
<1>3. CASE SaveDraft
  <2>1. /\ job'.pc = "complete" /\ Me' = Me /\ job'.seen = job.seen /\ UNCHANGED shopify
    BY <1>1, <1>3, Moves DEF SaveDraft
  <2>2. \A i \in Instructors : state'[i].handle = state[i].handle
                               /\ state'[i].saved = state[i].saved
    BY <1>1, <1>3 DEF SaveDraft, Typed, TypeOK, State
  <2>3. NamesOK'
    BY <2>1, <2>2, SameNames DEF Owners, shopify
  <2>4. SnapshotHolds' /\ PlanHolds'
    BY <1>1, <2>1, RestingSnapshot DEF Owners, SnapshotHolds, AsRead, Me
  <2> QED BY <2>3, <2>4 DEF Owners
<1> QED BY <1>2, <1>3

\* A new handle is neither stored nor on an entry, so that no two have the same.
LEMMA HandleOwners ==
  ASSUME Typed, Owners, ClaimHandle \/ UseStoredHandle
  PROVE  Owners'
<1>1. /\ job.pc = "handle" /\ Doing /\ JobOK /\ job \in Reading /\ Me \in Instructors
      /\ job.st = state[Me] /\ job.seen.ready /\ state[Me] \in State
      /\ UNCHANGED <<profile, drifted, shopify, fresh>>
  BY Shape DEF ClaimHandle, UseStoredHandle, Owners, SnapshotHolds, Typed, TypeOK, At, Doing,
    Showing
<1>2. CASE ClaimHandle
  <2>1. PICK h \in Handles \ Foreign :
           /\ ~StoredByOther(h, Me) /\ ~EntryOfOther(h, Me)
           /\ state' = [state EXCEPT ![Me].handle = h]
           /\ WithHandle(h)
    BY <1>2, ClaimFinds
  <2>2. /\ job'.pc = "photo" /\ Me' = Me /\ job'.seen = job.seen /\ job'.st = job.st
        /\ job'.handle = h
    BY <1>1, <2>1, WithHandleTyped
  <2>3. /\ state'[Me].handle = h /\ state'[Me].saved = state[Me].saved
        /\ state'[Me].file = state[Me].file
        /\ \A i \in Instructors \ {Me} : state'[i] = state[i]
    <3>1. state'[Me] = [state[Me] EXCEPT !.handle = h]
      BY <1>1, <2>1 DEF Typed, TypeOK
    <3>2. \A i \in Instructors \ {Me} : state'[i] = state[i]
      BY <1>1, <2>1 DEF Typed, TypeOK
    <3> QED BY <1>1, <3>1, <3>2 DEF State
  <2>4. state[Me].handle = NoHandle /\ ~state[Me].saved
    <3>1. state[Me].handle = NoHandle
      BY <1>1, <1>2 DEF ClaimHandle
    <3>2. state[Me].saved => NoHandle \in DOMAIN entries
      BY <1>1, <3>1 DEF Owners, NamesOK, EntryIsNamed
    <3> QED BY <1>1, <3>1, <3>2, NoHandleIsNone DEF Typed, TypeOK, State
  <2>5. \A j \in Instructors \ {Me} : state[j].handle # h
    BY <2>1 DEF StoredByOther
  <2>6. \A g \in DOMAIN entries : entries[g].owner \in Instructors \ {Me}
    BY <2>4, NoHandleIsNone DEF Owners, NamesOK, EntryIsNamed, Typed, TypeOK, Entry
  <2>7. EntryIsNamed'
    <3>1. \A i \in Instructors : state'[i].saved => state'[i].handle \in DOMAIN entries
      BY <2>3, <2>4 DEF Owners, NamesOK, EntryIsNamed
    <3>2. \A g \in DOMAIN entries : state'[entries[g].owner].handle = g
      BY <2>3, <2>6 DEF Owners, NamesOK, EntryIsNamed
    <3>3. \A i, j \in Instructors :
            i # j /\ state'[i].handle # NoHandle => state'[i].handle # state'[j].handle
      BY <2>1, <2>3, <2>5 DEF Owners, NamesOK, EntryIsNamed
    <3>4. UNCHANGED entries
      BY <1>1 DEF shopify
    <3> QED BY <3>1, <3>2, <3>3, <3>4 DEF EntryIsNamed
  <2>8. NamesOK'
    BY <2>1, <2>3, <2>7 DEF Owners, NamesOK
  <2>9. SnapshotHolds' /\ PlanHolds'
    BY <1>1, <2>2, <2>3 DEF Owners, SnapshotHolds, AsRead, PlanHolds, At, Doing, Hiding, Showing, Written
  <2> QED BY <2>8, <2>9 DEF Owners
<1>3. CASE UseStoredHandle
  <2>1. UNCHANGED state
    BY <1>3 DEF UseStoredHandle
  <2>2. NamesOK'
    BY <1>1, <2>1, SameNames DEF Owners, shopify
  <2>3. SnapshotHolds' /\ PlanHolds'
    <3>1. CASE To("failed")
      <4>1. job'.pc = "failed" /\ Me' = Me /\ job'.seen = job.seen
        BY <1>1, <3>1, Moves
      <4> QED BY <1>1, <4>1, RestingSnapshot DEF Owners, SnapshotHolds, AsRead, Me
    <3>2. CASE WithHandle(job.st.handle)
      <4>1. job.st.handle \in Handles
        BY <1>1, <1>3 DEF UseStoredHandle, State
      <4>2. /\ job'.pc = "photo" /\ Me' = Me /\ job'.seen = job.seen /\ job'.st = job.st
            /\ job'.handle = job.st.handle
        BY <1>1, <3>2, <4>1, WithHandleTyped
      <4> QED
        BY <1>1, <2>1, <4>2 DEF Owners, SnapshotHolds, AsRead, PlanHolds, At, Doing, Hiding, Showing, Written
    <3> QED BY <1>3, <3>1, <3>2 DEF UseStoredHandle
  <2> QED BY <2>2, <2>3 DEF Owners
<1> QED BY <1>2, <1>3

LEMMA PhotoOwners ==
  ASSUME Typed, Owners, KeepPhoto \/ UploadPhoto
  PROVE  Owners'
<1>1. UNCHANGED <<profile, drifted, state, entries, fresh>>
  BY PhotoTyped
<1>2. NamesOK'
  BY <1>1, SameNames DEF Owners
<1>3. SnapshotHolds'
  BY <1>1, PhotoTyped DEF Owners, SnapshotHolds, AsRead, At, Doing, Hiding, Showing, Written
<1>4. PlanHolds'
  BY PhotoTyped DEF PlanHolds
<1> QED BY <1>2, <1>3, <1>4 DEF Owners

LEMMA UpsertOwners ==
  ASSUME Typed, Owners, UpsertEntry
  PROVE  Owners'
<1>1. /\ job.pc = "upsert" /\ Me \in Instructors /\ UNCHANGED <<profile, drifted, state, fresh>>
  BY DEF UpsertEntry, Typed, TypeOK, Doing
<1>2. job.handle = state[Me].handle
  BY <1>1 DEF Owners, SnapshotHolds, At, Showing
<1>3. entries'[job.handle].owner = Me
  BY UpsertTyped DEF Upserted
<1>4. \A h \in DOMAIN entries \ {job.handle} : entries'[h].owner = entries[h].owner
  BY UpsertTyped
<1>5. EntryIsNamed'
  BY <1>1, <1>2, <1>3, <1>4, UpsertTyped DEF Owners, NamesOK, EntryIsNamed
<1>6. NamesOK'
  BY <1>1, <1>5 DEF Owners, NamesOK
<1>7. SnapshotHolds' /\ PlanHolds'
  BY <1>1, UpsertTyped DEF Owners, SnapshotHolds, AsRead, PlanHolds, At, Doing, Hiding, Showing, Written
<1> QED BY <1>6, <1>7 DEF Owners

LEMMA LaterOwners ==
  ASSUME Typed, Owners, SaveState \/ DiscardReplaced \/ Translate
  PROVE  Owners'
<1>1. /\ At(Written) /\ Doing /\ JobOK /\ Me \in Instructors /\ UNCHANGED <<profile, drifted, fresh>>
      /\ job.handle = state[Me].handle /\ job.handle \in DOMAIN entries
  BY DEF SaveState, DiscardReplaced, Translate, Typed, TypeOK, At, Doing, Written, Owners,
    SnapshotHolds, Showing
<1>2. CASE SaveState
  <2>1. job.pc = "save" /\ job'.pc = "discard" /\ UNCHANGED shopify
    BY <1>1, <1>2, Moves DEF SaveState
  <2>2. /\ state'[Me].handle = state[Me].handle /\ state'[Me].saved
        /\ state'[Me].file = job.file
        /\ \A i \in Instructors \ {Me} : state'[i] = state[i]
    BY <1>1, <1>2 DEF SaveState, Typed, TypeOK, State
  <2>3. EntryIsNamed'
    BY <1>1, <2>1, <2>2 DEF Owners, NamesOK, EntryIsNamed, shopify, Typed, TypeOK, Entry
  <2>4. NamesOK'
    BY <2>2, <2>3 DEF Owners, NamesOK
  <2>5. SnapshotHolds' /\ PlanHolds'
    BY <1>1, <2>1, <2>2, LaterTyped DEF Owners, SnapshotHolds, AsRead, PlanHolds, At, Doing, Hiding, Showing,
      Written, shopify
  <2> QED BY <2>4, <2>5 DEF Owners
<1>3. CASE DiscardReplaced
  <2>1. job.pc = "discard" /\ job'.pc = "translate" /\ UNCHANGED <<state, entries>>
    BY <1>1, <1>3, Moves DEF DiscardReplaced
  <2>2. NamesOK'
    BY <2>1, SameNames DEF Owners
  <2>3. SnapshotHolds' /\ PlanHolds'
    BY <1>1, <2>1, LaterTyped DEF Owners, SnapshotHolds, AsRead, PlanHolds, At, Doing, Hiding, Showing,
      Written
  <2> QED BY <2>2, <2>3 DEF Owners
<1>4. CASE Translate
  <2>1. job.pc = "translate" /\ job'.pc = "complete" /\ UNCHANGED state
    BY <1>1, <1>4, Moves DEF Translate
  <2>2. entries' = [entries EXCEPT ![job.handle].english = job.seen.name]
    BY <1>4 DEF Translate, RegisterTranslation
  <2>3. DOMAIN entries' = DOMAIN entries /\ \A h \in DOMAIN entries : entries'[h].owner = entries[h].owner
    BY <2>2 DEF Typed, TypeOK, Entry
  <2>4. NamesOK'
    BY <2>1, <2>3, SameNames DEF Owners
  <2>5. SnapshotHolds' /\ PlanHolds'
    BY <1>1, <2>1, LaterTyped, RestingSnapshot DEF Owners, SnapshotHolds, AsRead, Me
  <2> QED BY <2>4, <2>5 DEF Owners
<1> QED BY <1>2, <1>3, <1>4

LEMMA RestOwners ==
  ASSUME Typed, Owners, Complete \/ RecordFailure \/ RecordNothing \/ PhotoRefused \/ Fail \/ Crash
  PROVE  Owners'
<1>1. /\ \/ job' = Idle
         \/ job'.pc = "failed" /\ Me' = Me /\ job'.seen = job.seen /\ Doing
      /\ UNCHANGED <<profile, drifted, state, shopify>> /\ fresh' \subseteq fresh
  BY EndTyped, FaultTyped DEF PhotoRefused, Fail, Crash, Doing, Idle
<1>2. NamesOK'
  BY <1>1, SameNames DEF Owners, shopify
<1>3. SnapshotHolds' /\ PlanHolds'
  BY <1>1, RestingSnapshot DEF Owners, SnapshotHolds, AsRead, Me, Idle
<1> QED BY <1>2, <1>3 DEF Owners

LEMMA OwnersSteps == Typed /\ Owners /\ [Next]_vars => Owners'
<1> SUFFICES ASSUME Typed, Owners, [Next]_vars PROVE Owners'
  OBVIOUS
<1>1. CASE UNCHANGED vars
  BY <1>1, UnseenOwners DEF vars, shopify, AsRead
<1>2. CASE Step
  BY <1>2, DraftOwners, HandleOwners, PhotoOwners, UpsertOwners, LaterOwners, RestOwners DEF Step
<1> QED
  BY <1>1, <1>2, EditOwners, DriftOwners, AssessOwners, RunOwners, RestOwners DEF Next

\* Nothing but an upsert makes or overwrites an entry, and only under the handle of the
\* instructor's own state.
LEMMA EntriesKept == Typed /\ Owners /\ Owners' /\ [Next]_vars =>
  [/\ \A h \in DOMAIN entries : entries'[h].owner = entries[h].owner
   /\ DOMAIN entries' \cap Foreign = {}]_entries
<1> SUFFICES ASSUME Typed, Owners, Owners', [Next]_vars
             PROVE  [/\ \A h \in DOMAIN entries : entries'[h].owner = entries[h].owner
                     /\ DOMAIN entries' \cap Foreign = {}]_entries
  OBVIOUS
<1> SUFFICES ASSUME entries' # entries
             PROVE  /\ \A h \in DOMAIN entries : entries'[h].owner = entries[h].owner
                    /\ DOMAIN entries' \cap Foreign = {}
  OBVIOUS
<1>1. HideEntry \/ UpsertEntry \/ Translate
  BY EndTyped, FaultTyped, PhotoTyped
     DEF Next, Step, vars, EditProfile, Drift, Assess, Run, Claim, SaveDraft, UseStoredHandle, ClaimHandle,
       SaveState, DiscardReplaced, shopify
<1>2. Typed'
  BY TypedSteps
<1>3. DOMAIN entries' \cap Foreign = {}
  BY <1>2 DEF Owners, NamesOK, EntryIsNamed, Typed, TypeOK, Entry
<1>4. ASSUME NEW h \in DOMAIN entries PROVE entries'[h].owner = entries[h].owner
  <2>1. CASE HideEntry \/ Translate
    BY <2>1 DEF HideEntry, Translate, RegisterTranslation, Typed, TypeOK, Entry
  <2>2. CASE UpsertEntry
    <3>1. job.pc = "upsert" /\ Me \in Instructors /\ job.handle = state[Me].handle
      BY <2>2 DEF UpsertEntry, Typed, TypeOK, Doing, Owners, SnapshotHolds, At, Showing
    <3>2. entries'[job.handle].owner = Me
      BY <2>2, UpsertTyped DEF Upserted
    <3>3. state[entries[h].owner].handle = h /\ entries[h].owner \in Instructors
      BY <1>4 DEF Owners, NamesOK, EntryIsNamed, Typed, TypeOK, Entry
    <3>4. h \in Handles
      BY <1>4 DEF Typed, TypeOK
    <3>5. CASE h = job.handle
      <4>1. entries[h].owner = Me
        BY <3>1, <3>3, <3>4, <3>5, NoHandleIsNone DEF Owners, NamesOK, EntryIsNamed
      <4> QED BY <3>2, <3>5, <4>1
    <3>6. CASE h # job.handle
      BY <2>2, <3>6, <1>4, UpsertTyped
    <3> QED BY <3>5, <3>6
  <2> QED BY <1>1, <2>1, <2>2
<1> QED BY <1>3, <1>4

\* Every entry has one owner, whose state names it, for as long as it exists, and
\* nobody else's entry is taken.
THEOREM OneOwner == Spec => EntriesHaveOneOwner
<1>1. Owners => EntryIsNamed
  BY DEF Owners, NamesOK
<1> QED
  BY <1>1, InitTyped, TypedSteps, InitOwners, OwnersSteps, EntriesKept, PTL
     DEF Spec, EntriesHaveOneOwner, EntryKeepsOwner
-----------------------------------------------------------------------------
(* The storefront shows the profiles.                                       *)

LEMMA InitShows == Init => Shows
<1> SUFFICES ASSUME Init PROVE Shows
  OBVIOUS
<1>1. /\ DOMAIN entries = {} /\ job.pc = "idle" /\ Queued = Instructors
      /\ \A i \in Instructors : state[i].file = NoPhoto /\ ~state[i].saved
  BY DEF Init, Idle, Queued
<1> QED
  BY <1>1 DEF Shows, FilesOK, NoBrokenImage, EntryWritten, StateTells, TellsOf, Brought, At,
    Written, CurrentUnlessLost

\* The entries of an instructor are the one its state names, or none.
LEMMA LiveIs ==
  ASSUME Typed, Owners, NEW i \in Instructors
  PROVE  /\ \A h \in Live(i) : h = state[i].handle
         /\ \A h \in DOMAIN entries : entries[h].owner = i =>
              h = state[i].handle /\ (entries[h].status = "ACTIVE" => Live(i) = {h})
BY DEF Live, Owners, NamesOK, EntryIsNamed

\* What an instructor's entries look like depends on them alone.
LEMMA SameLive ==
  ASSUME NEW i \in Instructors,
         \A h : h \in DOMAIN entries' /\ entries'[h].owner = i
                <=> h \in DOMAIN entries /\ entries[h].owner = i,
         \A h \in DOMAIN entries : entries[h].owner = i => entries'[h] = entries[h]
  PROVE  /\ Live(i)' = Live(i)
         /\ \A p : ShownAs(i, p)' <=> ShownAs(i, p)
<1>1. Live(i)' = Live(i)
  BY DEF Live
<1>2. \A h \in Live(i) : entries'[h] = entries[h]
  BY DEF Live
<1>3. ASSUME NEW p PROVE ShownAs(i, p)' <=> ShownAs(i, p)
  BY <1>1, <1>2 DEF ShownAs
<1> QED BY <1>1, <1>3

\* What the sync does not see.
LEMMA UnseenShows ==
  ASSUME Typed, Owners, Shows, UNCHANGED <<state, shopify, job>>, lost \subseteq lost',
         \A i \in Instructors \ (Queued' \cup lost') :
           i \notin Queued /\ AsRead(i) \subseteq AsRead(i)'
  PROVE  Shows'
<1>1. FilesOK' /\ EntryWritten' /\ StateTells' /\ Brought'
  BY DEF Shows, FilesOK, NoBrokenImage, EntryWritten, StateTells, TellsOf, Brought, At, Me, shopify,
    ShownAs, Live
<1>2. ASSUME NEW i, NEW p PROVE ShownAs(i, p)' <=> ShownAs(i, p)
  BY DEF ShownAs, Live, shopify
<1>3. CurrentUnlessLost'
  BY <1>2 DEF Shows, CurrentUnlessLost
<1> QED BY <1>1, <1>3 DEF Shows

LEMMA OwnEntry ==
  ASSUME Typed, Owners, NEW i \in Instructors,
         state[i].handle \in DOMAIN entries
  PROVE  entries[state[i].handle].owner = i
<1> DEFINE h == state[i].handle
<1>1. /\ h # NoHandle /\ entries[h].owner \in Instructors
      /\ state[entries[h].owner].handle = h
  BY NoHandleIsNone DEF Owners, NamesOK, EntryIsNamed, Typed, TypeOK, Entry
<1> QED BY <1>1 DEF Owners, NamesOK, EntryIsNamed

\* A step of the sync changes at most its own entry and state, and its row is queued.
LEMMA OthersHold ==
  ASSUME Typed, Owners, Shows, Doing, UNCHANGED <<profile, drifted, queue, lost>>,
         \A i \in Instructors \ {Me} : state'[i] = state[i],
         \A h : h \in DOMAIN entries' /\ entries'[h].owner # Me
                <=> h \in DOMAIN entries /\ entries[h].owner # Me,
         \A h \in DOMAIN entries : entries[h].owner # Me => entries'[h] = entries[h]
  PROVE  /\ CurrentUnlessLost'
         /\ \A i \in Instructors \ (lost \cup {Me}) : TellsOf(i)'
<1>1. Me \in Queued
  BY DEF Typed, TypeOK, ClaimsOK
<1> DEFINE me == Me
<1> HIDE DEF me
<1>2. ASSUME NEW i \in Instructors, i # me
      PROVE  /\ Live(i)' = Live(i)
             /\ \A p : ShownAs(i, p)' <=> ShownAs(i, p)
  <2>1. \A h : h \in DOMAIN entries' /\ entries'[h].owner = i
               <=> h \in DOMAIN entries /\ entries[h].owner = i
    BY <1>2 DEF me
  <2>2. \A h \in DOMAIN entries : entries[h].owner = i => entries'[h] = entries[h]
    BY <1>2 DEF me
  <2> QED BY <2>1, <2>2, SameLive
<1>3. CurrentUnlessLost'
  <2> SUFFICES ASSUME NEW i \in Instructors \ (Queued \cup lost)
               PROVE  \E p \in AsRead(i)' : ShownAs(i, p)'
    BY DEF CurrentUnlessLost, Queued
  <2>1. i # me /\ \E p \in AsRead(i) : ShownAs(i, p)
    BY <1>1 DEF me, Shows, CurrentUnlessLost
  <2>2. AsRead(i)' = AsRead(i)
    BY DEF AsRead
  <2> QED BY <2>1, <2>2, <1>2
<1>4. ASSUME NEW i \in Instructors \ (lost \cup {me}) PROVE TellsOf(i)'
  <2>1. TellsOf(i) /\ state'[i] = state[i]
    BY <1>4 DEF Shows, StateTells, me
  <2>2. /\ (\E h \in DOMAIN entries' : entries'[h].owner = i) => \E h \in DOMAIN entries : entries[h].owner = i
    BY <1>4 DEF me
  <2>3. state[i].saved => entries'[state[i].handle] = entries[state[i].handle]
    <3> SUFFICES ASSUME state[i].saved PROVE entries'[state[i].handle] = entries[state[i].handle]
      OBVIOUS
    <3>1. state[i].handle \in DOMAIN entries
      BY DEF Owners, NamesOK, EntryIsNamed
    <3> QED BY <3>1, <1>4, OwnEntry DEF me
  <2> QED BY <2>1, <2>2, <2>3 DEF TellsOf
<1> QED BY <1>3, <1>4 DEF me

LEMMA EditShows ==
  ASSUME Typed, Owners, Shows, NEW i \in Instructors, EditProfile(i)
  PROVE  Shows'
<1>1. /\ UNCHANGED <<state, shopify, job, lost, drifted>>
      /\ \E q : profile' = [profile EXCEPT ![i] = q]
  BY DEF EditProfile
<1>2. Enqueue(i)
  BY DEF EditProfile
<1>3. Queued \subseteq Queued' /\ i \in Queued'
  BY <1>2, EnqueueTyped
<1>4. \A j \in Instructors \ {i} : AsRead(j)' = AsRead(j)
  BY <1>1 DEF Typed, TypeOK, AsRead
<1> QED BY <1>1, <1>3, <1>4, UnseenShows

\* What drifts is not shown as it is, but as it was.
LEMMA DriftShows ==
  ASSUME Typed, Owners, Shows, NEW i \in Instructors, Drift(i)
  PROVE  Shows'
<1>1. UNCHANGED <<queue, state, shopify, job, lost>>
  BY DEF Drift, work
<1> QED BY <1>1, DriftReads, UnseenShows DEF Queued

LEMMA RunShows ==
  ASSUME Typed, Owners, Shows, NEW S \in SUBSET Instructors, Run(S) \/ Claim(S)
  PROVE  Shows'
<1>1. UNCHANGED <<profile, drifted, state, shopify, job, lost>>
  BY DEF Run, Claim, bounds
<1>2. Queued \subseteq Queued'
  BY DEF Run, Requeue, Claim, Queued
<1> QED BY <1>1, <1>2, UnseenShows DEF AsRead

\* An instructor that may not be shown and has no entry is done.
LEMMA AssessShows ==
  ASSUME Typed, Owners, Shows, NEW i \in Instructors, Assess(i)
  PROVE  Shows'
<1>1. /\ job'.id = i /\ job'.seen = profile[i] /\ job'.st = state[i]
      /\ job'.pc = IF profile[i].ready THEN "handle"
                   ELSE IF state[i].saved THEN "hide" ELSE "complete"
      /\ ~Doing /\ drifted' = drifted \ {i} /\ i \in Queued
      /\ UNCHANGED <<profile, queue, state, shopify, lost>>
  BY AssessTyped DEF Assess, Typed, ClaimsOK
<1>2. profile[i].ready \in BOOLEAN /\ state[i].saved \in BOOLEAN
  BY DEF Typed, TypeOK, Profile, State
<1>3. FilesOK' /\ EntryWritten' /\ CurrentUnlessLost'
  <2>1. FilesOK' /\ EntryWritten'
    BY <1>1, <1>2 DEF Shows, FilesOK, NoBrokenImage, EntryWritten, At, Written, Me, shopify
  <2>2. \A j \in Instructors \ Queued : AsRead(j)' = AsRead(j)
    BY <1>1 DEF AsRead
  <2>3. ASSUME NEW j, NEW p PROVE ShownAs(j, p)' <=> ShownAs(j, p)
    BY <1>1 DEF ShownAs, Live, shopify
  <2>4. CurrentUnlessLost'
    BY <1>1, <2>2, <2>3 DEF Shows, CurrentUnlessLost, Queued
  <2> QED BY <2>1, <2>4
<1>4. \A j \in Instructors \ lost : TellsOf(j) /\ TellsOf(j)'
  BY <1>1 DEF Shows, StateTells, TellsOf, At, Doing, shopify
<1>5. StateTells'
  BY <1>1, <1>4 DEF StateTells
<1>6. Brought'
  <2> SUFFICES ASSUME job'.pc = "complete", i \notin lost PROVE ShownAs(i, profile[i])'
    BY <1>1, <1>2 DEF Brought, At, Me
  <2>1. ~profile[i].ready /\ Live(i) = {}
    BY <1>1, <1>2, <1>4 DEF TellsOf, Live
  <2> QED BY <1>1, <2>1 DEF ShownAs, Live, shopify
<1> QED BY <1>3, <1>5, <1>6 DEF Shows

LEMMA DraftShows ==
  ASSUME Typed, Owners, Shows, HideEntry \/ SaveDraft
  PROVE  Shows'
<1> DEFINE mine == state[Me].handle
<1>1. /\ At(Hiding) /\ Doing /\ JobOK /\ Me \in Instructors /\ job.st = state[Me]
      /\ ~job.seen.ready /\ state[Me].saved
      /\ mine \in DOMAIN entries /\ entries[mine].owner = Me
      /\ UNCHANGED <<profile, drifted, queue, files, lost>>
  BY OwnEntry DEF HideEntry, SaveDraft, Typed, TypeOK, At, Hiding, Doing, Owners, SnapshotHolds,
    NamesOK, EntryIsNamed, shopify
<1>2. Me \notin lost => TellsOf(Me)
  BY <1>1 DEF Shows, StateTells, At, Hiding
<1>3. CASE HideEntry
  <2>1. /\ job'.pc = "save_draft" /\ Me' = Me /\ job'.st = job.st /\ UNCHANGED state
    BY <1>1, <1>3, Moves DEF HideEntry
  <2>2. entries' = [entries EXCEPT ![mine].status = "DRAFT"]
    BY <1>1, <1>3 DEF HideEntry
  <2>3. /\ DOMAIN entries' = DOMAIN entries
        /\ \A h \in DOMAIN entries : entries'[h].owner = entries[h].owner
                                     /\ entries'[h].image = entries[h].image
        /\ \A h \in DOMAIN entries \ {mine} : entries'[h] = entries[h]
        /\ entries'[mine].status = "DRAFT"
    BY <1>1, <2>2 DEF Typed, TypeOK, Entry
  <2> HIDE DEF mine
  <2>4. CurrentUnlessLost' /\ \A i \in Instructors \ (lost \cup {Me}) : TellsOf(i)'
    BY <1>1, <2>1, <2>3, OthersHold
  <2>5. Me \notin lost => TellsOf(Me)'
    BY <1>1, <1>2, <2>1, <2>3 DEF TellsOf, mine
  <2>6. StateTells'
    BY <1>1, <2>1, <2>4, <2>5 DEF StateTells
  <2>7. FilesOK' /\ EntryWritten' /\ Brought'
    BY <1>1, <2>1, <2>3 DEF Shows, FilesOK, NoBrokenImage, EntryWritten, Brought, At, Written, mine
  <2> QED BY <2>4, <2>6, <2>7 DEF Shows
<1>4. CASE SaveDraft
  <2>1. /\ job.pc = "save_draft" /\ job'.pc = "complete" /\ Me' = Me /\ job'.seen = job.seen
        /\ UNCHANGED shopify
    BY <1>1, <1>4, Moves DEF SaveDraft
  <2>2. /\ \A i \in Instructors : /\ state'[i].handle = state[i].handle
                                  /\ state'[i].saved = state[i].saved
                                  /\ state'[i].file = state[i].file
        /\ \A i \in Instructors \ {Me} : state'[i] = state[i]
    BY <1>1, <1>4 DEF SaveDraft, Typed, TypeOK, State
  <2>3. CurrentUnlessLost' /\ \A i \in Instructors \ (lost \cup {Me}) : TellsOf(i)'
    BY <1>1, <2>1, <2>2, OthersHold DEF shopify
  <2>4. StateTells'
    BY <1>1, <1>2, <2>1, <2>2, <2>3 DEF StateTells, TellsOf, shopify
  <2>5. FilesOK' /\ EntryWritten'
    BY <1>1, <2>1, <2>2 DEF Shows, FilesOK, NoBrokenImage, EntryWritten, At, Written, shopify
  <2>6. entries[mine].status = "DRAFT"
    BY <1>1, <2>1 DEF Shows, Brought, At
  <2>7. Live(Me) = {}
    BY <1>1, <2>6, LiveIs DEF Live
  <2>8. Brought'
    BY <1>1, <2>1, <2>7 DEF Brought, At, ShownAs, Live, shopify
  <2> QED BY <2>3, <2>4, <2>5, <2>8 DEF Shows
<1> QED BY <1>3, <1>4
LEMMA HandleShows ==
  ASSUME Typed, Owners, Shows, ClaimHandle \/ UseStoredHandle
  PROVE  Shows'
<1>1. /\ job.pc = "handle" /\ Doing /\ JobOK /\ job \in Reading /\ Me \in Instructors
      /\ UNCHANGED <<profile, drifted, queue, entries, files, lost>>
  BY Shape DEF ClaimHandle, UseStoredHandle, Typed, TypeOK, At, Doing, shopify
<1>2. (job'.pc = "photo" \/ job'.pc = "failed") /\ Me' = Me
  <2>1. To("failed") \/ \E h : WithHandle(h)
    BY ClaimFinds DEF UseStoredHandle
  <2> QED BY <1>1, <2>1, Moves DEF WithHandle, Me
<1>3. /\ \A i \in Instructors \ {Me} : state'[i] = state[i]
      /\ state'[Me].saved = state[Me].saved /\ state'[Me].file = state[Me].file
      /\ state[Me].saved => state'[Me].handle = state[Me].handle
  <2>1. CASE UseStoredHandle
    BY <2>1 DEF UseStoredHandle
  <2>2. CASE ClaimHandle
    <3>1. job.st.handle = NoHandle /\ job.st = state[Me] /\ \E h : state' = [state EXCEPT ![Me].handle = h]
      BY <1>1, <2>2 DEF ClaimHandle, Owners, SnapshotHolds, At
    <3>2. ~state[Me].saved
      BY <1>1, <3>1, NoHandleIsNone DEF Owners, NamesOK, EntryIsNamed, Typed, TypeOK
    <3> QED BY <1>1, <3>1, <3>2 DEF Typed, TypeOK, State
  <2> QED BY <2>1, <2>2
<1>4. CurrentUnlessLost' /\ \A i \in Instructors \ (lost \cup {Me}) : TellsOf(i)'
  BY <1>1, <1>3, OthersHold
<1>5. StateTells'
  <2>1. Me \notin lost => TellsOf(Me)
    BY <1>1 DEF Shows, StateTells, At
  <2> QED BY <1>1, <1>2, <1>3, <1>4, <2>1 DEF StateTells, TellsOf
<1>6. \A i \in Instructors : state'[i].file = state[i].file
  BY <1>3
<1>7. FilesOK' /\ EntryWritten' /\ Brought'
  BY <1>1, <1>2, <1>6 DEF Shows, FilesOK, NoBrokenImage, EntryWritten, Brought, At, Written
<1> QED BY <1>4, <1>5, <1>7 DEF Shows

\* The file to show is there: it was, or it is made now.
LEMMA PhotoShows ==
  ASSUME Typed, Owners, Shows, KeepPhoto \/ UploadPhoto
  PROVE  Shows'
<1>1. /\ job.pc = "photo" /\ Doing /\ Me \in Instructors /\ job.st.file = state[Me].file
      /\ job'.pc = "upsert" /\ Me' = Me /\ files \subseteq files'
      /\ job'.file \in {NoPhoto, job.st.file} \/ <<Me, job'.file>> \in files'
      /\ UNCHANGED <<profile, drifted, queue, state, entries, lost>>
  BY PhotoTyped DEF KeepPhoto, UploadPhoto, Typed, TypeOK, Doing, Owners, SnapshotHolds, At
<1>2. CurrentUnlessLost' /\ \A i \in Instructors \ (lost \cup {Me}) : TellsOf(i)'
  BY <1>1, OthersHold
<1>3. StateTells'
  BY <1>1, <1>2 DEF Shows, StateTells, TellsOf, At
<1>4. FilesOK'
  BY <1>1 DEF Shows, FilesOK, NoBrokenImage, At
<1>5. EntryWritten' /\ Brought'
  BY <1>1 DEF EntryWritten, Brought, At, Written
<1> QED BY <1>2, <1>3, <1>4, <1>5 DEF Shows

\* The image that is not sent is that of an instructor without one.
LEMMA UpsertShows ==
  ASSUME Typed, Owners, Shows, UpsertEntry
  PROVE  Shows'
<1> DEFINE mine == job.handle
           new == Upserted(mine, job.seen.name, job.image)
<1>1. /\ job.pc = "upsert" /\ Doing /\ Me \in Instructors /\ mine = state[Me].handle
      /\ UNCHANGED <<profile, drifted, queue, state, files, lost>>
      /\ job.st.file = state[Me].file
  BY DEF UpsertEntry, Typed, TypeOK, Doing, Owners, SnapshotHolds, At, Showing
<1>2. /\ job'.pc = "save" /\ Me' = Me /\ job'.seen = job.seen /\ job'.handle = mine
      /\ job'.image = job.image /\ job'.file = job.file
      /\ DOMAIN entries' = DOMAIN entries \cup {mine} /\ entries'[mine] = new
      /\ \A h \in DOMAIN entries \ {mine} : entries'[h] = entries[h]
  BY UpsertTyped
<1>3. /\ new.owner = Me /\ new.status = "ACTIVE" /\ new.name = job.seen.name
      /\ job.image # Omitted => new.image = job.image
      /\ job.image = Omitted => new.image = IF mine \in DOMAIN entries THEN entries[mine].image
                                            ELSE NoPhoto
  BY DEF Upserted
<1>4. mine \in DOMAIN entries => entries[mine].owner = Me
  BY <1>1, OwnEntry
<1>5. /\ job.image = job.file \/ (job.image = Omitted /\ job.file = NoPhoto /\ job.st.file = NoPhoto)
      /\ job.file \in Photo
  BY <1>1, Shape, Fields DEF Owners, PlanHolds, At, Typed
<1>6. job.file # Omitted
  BY <1>5, BoundAssumption DEF Photo, Version, Omitted
<1>7. \A h \in DOMAIN entries' \ {mine} : entries'[h].owner # Me
  BY <1>1, <1>2, LiveIs
<1> HIDE DEF new, mine
<1>8. CurrentUnlessLost' /\ \A i \in Instructors \ (lost \cup {Me}) : TellsOf(i)'
  <2>1. \A h : h \in DOMAIN entries' /\ entries'[h].owner # Me
               <=> h \in DOMAIN entries /\ entries[h].owner # Me
    BY <1>2, <1>3, <1>4
  <2>2. \A h \in DOMAIN entries : entries[h].owner # Me => entries'[h] = entries[h]
    BY <1>2, <1>4
  <2> QED BY <1>1, <2>1, <2>2, OthersHold
<1>9. StateTells'
  BY <1>1, <1>2, <1>8 DEF StateTells, At
<1>10. Me \notin lost => new.image = job.file
  <2> SUFFICES ASSUME Me \notin lost, job.image = Omitted PROVE new.image = job.file
    BY <1>3, <1>5
  <2>1. job.file = NoPhoto /\ state[Me].file = NoPhoto
    BY <1>1, <1>5, <1>6
  <2>2. CASE mine \in DOMAIN entries
    <3>1. TellsOf(Me)
      BY <1>1 DEF Shows, StateTells, At
    <3>2. entries[mine].image = state[Me].file
      BY <1>1, <1>4, <2>2, <3>1 DEF TellsOf
    <3> QED BY <1>3, <2>1, <2>2, <3>2
  <2>3. CASE mine \notin DOMAIN entries
    BY <1>3, <2>1, <2>3
  <2> QED BY <2>2, <2>3
<1>11. EntryWritten'
  <2>1. job.image # Omitted => new.image = job.file
    BY <1>3, <1>5
  <2> QED BY <1>2, <1>3, <1>1, <1>10, <2>1 DEF EntryWritten, At
<1>12. FilesOK'
  <2>1. new.image # NoPhoto => <<Me, new.image>> \in files
    <3>1. job.file # NoPhoto => <<Me, job.file>> \in files
      BY <1>1 DEF Shows, FilesOK, At
    <3>2. mine \in DOMAIN entries /\ entries[mine].image # NoPhoto => <<Me, entries[mine].image>> \in files
      BY <1>4 DEF Shows, FilesOK, NoBrokenImage
    <3> QED BY <1>3, <1>5, <3>1, <3>2
  <2>2. NoBrokenImage'
    BY <1>1, <1>2, <1>3, <2>1 DEF Shows, FilesOK, NoBrokenImage
  <2> QED BY <1>1, <1>2, <2>2 DEF Shows, FilesOK, At
<1>13. Brought'
  BY <1>2 DEF Brought, At
<1> QED BY <1>8, <1>9, <1>11, <1>12, <1>13 DEF Shows

\* The state remembers the file of the entry.
LEMMA SaveShows ==
  ASSUME Typed, Owners, Shows, SaveState
  PROVE  Shows'
<1>1. /\ job.pc = "save" /\ Doing /\ JobOK /\ Me \in Instructors /\ job.handle = state[Me].handle
      /\ UNCHANGED <<profile, drifted, queue, entries, files, lost>>
  BY DEF SaveState, Typed, TypeOK, Doing, Owners, SnapshotHolds, At, Showing, Written, shopify
<1>2. job'.pc = "discard"
  BY <1>1, Moves DEF SaveState
<1>3. /\ Me' = Me /\ job'.seen = job.seen /\ job'.handle = job.handle
      /\ job'.image = job.image /\ job'.file = job.file
  BY LaterTyped
<1>4. /\ state'[Me].handle = state[Me].handle /\ state'[Me].file = job.file /\ state'[Me].saved
      /\ \A i \in Instructors \ {Me} : state'[i] = state[i]
  BY <1>1 DEF SaveState, Typed, TypeOK, State
<1>5. CurrentUnlessLost' /\ \A i \in Instructors \ (lost \cup {Me}) : TellsOf(i)'
  BY <1>1, <1>4, OthersHold
<1>6. Me \notin lost => TellsOf(Me)'
  BY <1>1, <1>3, <1>4 DEF Shows, EntryWritten, At, Written, TellsOf
<1>7. StateTells'
  BY <1>1, <1>3, <1>5, <1>6 DEF StateTells
<1>8. FilesOK' /\ EntryWritten' /\ Brought'
  BY <1>1, <1>2, <1>3, <1>4 DEF Shows, FilesOK, NoBrokenImage, EntryWritten, Brought, At, Written
<1> QED BY <1>5, <1>7, <1>8 DEF Shows

\* The file that goes is no longer shown.
LEMMA DiscardShows ==
  ASSUME Typed, Owners, Shows, DiscardReplaced
  PROVE  Shows'
<1> DEFINE gone == <<Me, job.replaced>>
<1>1. /\ job.pc = "discard" /\ Doing /\ JobOK /\ Me \in Instructors /\ job.handle = state[Me].handle
      /\ job.file = state[Me].file
      /\ UNCHANGED <<profile, drifted, queue, state, entries, lost>>
  BY DEF DiscardReplaced, Typed, TypeOK, Doing, Owners, SnapshotHolds, At, Showing, Written, shopify
<1>2. job'.pc = "translate"
  BY <1>1, Moves DEF DiscardReplaced
<1>3. /\ Me' = Me /\ job'.seen = job.seen /\ job'.handle = job.handle
      /\ job'.image = job.image /\ job'.file = job.file
  BY LaterTyped
<1>4. files \ {gone} \subseteq files'
  BY DEF DiscardReplaced, DeleteFile
<1>5. /\ job.image = job.file \/ (job.image = Omitted /\ job.file = NoPhoto /\ job.st.file = NoPhoto)
      /\ job.replaced # NoPhoto => job.replaced = job.st.file /\ job.replaced # job.file
      /\ job.file # Omitted
  <2>1. job.file \in Photo
    BY <1>1, Shape, Fields DEF At, Written
  <2> QED BY <1>1, <2>1, BoundAssumption DEF Owners, PlanHolds, At, Written, Photo, Version, Omitted
<1>6. NoBrokenImage'
  <2> SUFFICES ASSUME NEW h \in DOMAIN entries, entries[h].image # NoPhoto
               PROVE  <<entries[h].owner, entries[h].image>> \in files'
    BY <1>1 DEF NoBrokenImage
  <2>1. <<entries[h].owner, entries[h].image>> \in files
    BY DEF Shows, FilesOK, NoBrokenImage
  <2>2. CASE entries[h].owner # Me
    BY <1>4, <2>1, <2>2
  <2>3. CASE entries[h].owner = Me
    <3>1. h = job.handle
      BY <1>1, <2>3, LiveIs
    <3>2. job.image # Omitted => entries[h].image = job.file
      BY <1>1, <3>1 DEF Shows, EntryWritten, At, Written
    <3>3. entries[h].image # job.replaced
      BY <1>5, <3>2
    <3> QED BY <1>4, <2>1, <3>3
  <2> QED BY <2>2, <2>3
<1>7. \A i \in Instructors : state'[i].file # NoPhoto => <<i, state'[i].file>> \in files'
  BY <1>1, <1>4, <1>5 DEF Shows, FilesOK
<1>8. FilesOK'
  BY <1>2, <1>6, <1>7 DEF FilesOK, At
<1>9. CurrentUnlessLost' /\ \A i \in Instructors \ (lost \cup {Me}) : TellsOf(i)'
  BY <1>1, OthersHold
<1>10. StateTells'
  BY <1>1, <1>3, <1>9 DEF Shows, StateTells, TellsOf, At
<1>11. EntryWritten' /\ Brought'
  BY <1>1, <1>2, <1>3 DEF Shows, EntryWritten, Brought, At, Written
<1> QED BY <1>8, <1>9, <1>10, <1>11 DEF Shows

\* With the English name the entry is as it was to be.
LEMMA TranslateShows ==
  ASSUME Typed, Owners, Shows, Translate
  PROVE  Shows'
<1> DEFINE mine == job.handle
<1>1. /\ job.pc = "translate" /\ Doing /\ JobOK /\ Me \in Instructors /\ mine = state[Me].handle
      /\ mine \in DOMAIN entries /\ mine \in Handles /\ job.seen.ready /\ state[Me].saved
      /\ job.file = state[Me].file
      /\ job.file = job.seen.photo
      /\ UNCHANGED <<profile, drifted, queue, state, files, lost>>
  BY DEF Translate, Typed, TypeOK, Doing, Owners, SnapshotHolds, PlanHolds, At, Showing, Written
<1>2. job'.pc = "complete" /\ Me' = Me /\ job'.seen = job.seen
  BY <1>1, Moves DEF Translate
<1>3. entries' = [entries EXCEPT ![mine].english = job.seen.name]
  BY DEF Translate, RegisterTranslation
<1>4. /\ DOMAIN entries' = DOMAIN entries
      /\ \A h \in DOMAIN entries : /\ entries'[h].owner = entries[h].owner
                                   /\ entries'[h].image = entries[h].image
                                   /\ entries'[h].status = entries[h].status
                                   /\ entries'[h].name = entries[h].name
      /\ \A h \in DOMAIN entries \ {mine} : entries'[h] = entries[h]
      /\ entries'[mine].english = job.seen.name
  BY <1>1, <1>3 DEF Typed, TypeOK, Entry
<1>5. /\ entries[mine].owner = Me /\ entries[mine].status = "ACTIVE"
      /\ entries[mine].name = job.seen.name
      /\ Me \notin lost => entries[mine].image = job.file
  BY <1>1 DEF Shows, EntryWritten, At, Written
<1> HIDE DEF mine
<1>6. CurrentUnlessLost' /\ \A i \in Instructors \ (lost \cup {Me}) : TellsOf(i)'
  BY <1>1, <1>4, <1>5, OthersHold
<1>7. StateTells'
  <2>1. Me \notin lost => entries'[state'[Me].handle].image = state'[Me].file /\ state'[Me].saved
    BY <1>1, <1>4, <1>5 DEF mine
  <2>2. Me \notin lost => TellsOf(Me)'
    BY <1>2, <2>1 DEF TellsOf
  <2> QED BY <1>1, <1>2, <1>6, <2>2 DEF StateTells
<1>8. FilesOK' /\ EntryWritten'
  BY <1>1, <1>2, <1>4 DEF Shows, FilesOK, NoBrokenImage, EntryWritten, At, Written
<1>9. Brought'
  <2> SUFFICES ASSUME Me \notin lost PROVE ShownAs(Me, job.seen)'
    BY <1>1, <1>2 DEF Brought, At, ShownAs, Live
  <2>1. Live(Me)' = {mine}
    <3>1. \A h \in DOMAIN entries : entries[h].owner = Me => h = mine
      BY <1>1, LiveIs
    <3> QED BY <1>1, <1>2, <1>4, <1>5, <3>1 DEF Live
  <2> QED BY <1>1, <1>2, <1>4, <1>5, <2>1 DEF ShownAs
<1> QED BY <1>6, <1>7, <1>8, <1>9 DEF Shows

\* A row leaves the queue only if it was not queued again, so that what was shown is
\* what is to be shown.
LEMMA EndShows ==
  ASSUME Typed, Owners, Shows, Complete \/ RecordFailure \/ RecordNothing
  PROVE  Shows'
<1>1. /\ Doing /\ Me \in Instructors /\ job' = Idle
      /\ Queued \ {Me} \subseteq Queued'
      /\ Me \notin Queued' => Me \in fresh /\ job.pc = "complete"
      /\ UNCHANGED <<profile, drifted, state, shopify, lost>>
  BY EndTyped DEF Typed, TypeOK
<1>2. job.pc \in {"complete", "failed"} /\ job'.pc = "idle"
  BY <1>1 DEF Complete, RecordFailure, RecordNothing, Idle
<1>3. CurrentUnlessLost'
  <2>0. ASSUME NEW i \in Instructors, NEW p
        PROVE  (ShownAs(i, p)' <=> ShownAs(i, p)) /\ AsRead(i)' = AsRead(i)
    BY <1>1 DEF ShownAs, Live, AsRead, shopify
  <2> SUFFICES ASSUME NEW i \in Instructors \ (Queued' \cup lost)
               PROVE  \E p \in AsRead(i) : ShownAs(i, p)
    BY <1>1, <2>0 DEF CurrentUnlessLost
  <2>1. CASE i \notin Queued
    BY <2>1 DEF Shows, CurrentUnlessLost
  <2>2. CASE i \in Queued
    <3>1. i = Me /\ Me \in fresh /\ job.pc = "complete"
      BY <1>1, <2>2
    <3>2. job.seen \in AsRead(i)
      BY <1>1, <3>1 DEF Owners, SnapshotHolds
    <3>3. ShownAs(i, job.seen)
      BY <1>1, <3>1 DEF Shows, Brought, At
    <3> QED BY <3>2, <3>3
  <2> QED BY <2>1, <2>2
<1>4. StateTells'
  BY <1>1, <1>2 DEF Shows, StateTells, TellsOf, At, shopify
<1>5. FilesOK' /\ EntryWritten' /\ Brought'
  BY <1>1, <1>2 DEF Shows, FilesOK, NoBrokenImage, EntryWritten, Brought, At, Written, shopify
<1> QED BY <1>3, <1>4, <1>5 DEF Shows

LEMMA FaultShows ==
  ASSUME Typed, Owners, Shows, PhotoRefused \/ Fail \/ Crash
  PROVE  Shows'
<1>1. /\ job'.pc = "idle" \/ job'.pc = "failed"
      /\ lost \subseteq lost' /\ (job.pc = "save" => Me \in lost')
      /\ UNCHANGED <<profile, drifted, queue, state, shopify>>
  BY FaultTyped DEF Idle
<1>2. CurrentUnlessLost'
  <2>1. ASSUME NEW i \in Instructors, NEW p
        PROVE  (ShownAs(i, p)' <=> ShownAs(i, p)) /\ AsRead(i)' = AsRead(i)
    BY <1>1 DEF ShownAs, Live, AsRead, shopify
  <2> QED BY <1>1, <2>1 DEF Shows, CurrentUnlessLost, Queued
<1>3. StateTells'
  BY <1>1 DEF Shows, StateTells, TellsOf, At, shopify
<1>4. FilesOK' /\ EntryWritten' /\ Brought'
  BY <1>1 DEF Shows, FilesOK, NoBrokenImage, EntryWritten, Brought, At, Written, shopify
<1> QED BY <1>2, <1>3, <1>4 DEF Shows

LEMMA ShowsSteps == Typed /\ Owners /\ Shows /\ [Next]_vars => Shows'
<1> SUFFICES ASSUME Typed, Owners, Shows, [Next]_vars PROVE Shows'
  OBVIOUS
<1>1. CASE UNCHANGED vars
  BY <1>1, UnseenShows DEF vars, shopify, Queued, AsRead
<1>2. CASE Step
  BY <1>2, DraftShows, HandleShows, PhotoShows, UpsertShows, SaveShows, DiscardShows, TranslateShows,
    EndShows DEF Step
<1> QED
  BY <1>1, <1>2, EditShows, DriftShows, AssessShows, RunShows, EndShows, FaultShows DEF Next

\* The storefront shows every instructor that is not queued as it is, whatever changed
\* while it was synced and whatever failed, unless its state was lost after its entry was
\* written; whether it is shown may be out of date only if its readiness has changed with
\* nothing queued since it was last read; and no image is shown that is gone.
THEOREM ProfilesShown == Spec => []ShopShowsProfiles
<1>1. Typed /\ Shows => ShopShowsProfiles
  BY DEF Typed, Shows, FilesOK, ShopShowsProfiles
<1> QED
  BY <1>1, InitTyped, TypedSteps, InitOwners, OwnersSteps, InitShows, ShowsSteps, PTL DEF Spec

=============================================================================
