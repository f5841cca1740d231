---- MODULE OnboardingStages ----
(* How far an instructor has come: what the onboarding checklist asks for, what the public    *)
(* page asks for, and the stage the staff see, computed for one instructor and for many.       *)
(*   documents/me-documents.service.ts, certification-validity.ts, shopify-sync/go-live.ts,      *)
(*   go-live.service.ts, instructor-stage.ts, instructor-sync.repository.ts                        *)
(* The actions put the rows into every combination; the operators are what the code computes.     *)
EXTENDS Naturals, Sequences, FiniteSets, FiniteSetsExt

CONSTANTS
  Documents,       \* Documents[a]: the season (0: none) and whether it is required
  CurrentSeasons,  \* seasons an administrator may make the current one; 0: none is
  Keys,            \* (org, track) pairs
  HeldLevels,      \* levels; 0: the instructor has no such certification
  ValidUntil,      \* days an upload may be valid until
  ExpiringWithin,  \* EXPIRING_WITHIN_DAYS
  MaxUploads,      \* bound: uploads
  LastDay          \* bound: the calendar

ASSUME StageBounds ==
  /\ HeldLevels \subseteq Nat /\ ValidUntil \subseteq Nat /\ ExpiringWithin \in Nat
  /\ IsFiniteSet(Keys) /\ IsFiniteSet(DOMAIN Documents)

VARIABLES
  approval, active,  \* instructors
  gaps,              \* a required field of the profile is empty
  assignment,        \* assignment[a]: its status
  season,            \* the current season
  level,             \* level[k]: of the certification, 0 when the instructor has none
  uploads,           \* in the order they were confirmed
  synced,            \* last_status of the page is active
  today

stageVars == <<approval, active, gaps, assignment, season, level, uploads, synced, today>>

StagesInit ==
  /\ approval = "pending" /\ active = TRUE /\ gaps = TRUE
  /\ assignment = [a \in DOMAIN Documents |-> "none"]
  /\ season = 0 /\ level = [k \in Keys |-> 0] /\ uploads = <<>> /\ synced = FALSE /\ today = 1

Declared == {k \in Keys : level[k] # 0}

------------------------------------------------------------------------------
(* certification-validity: the latest upload of each key, and what it is worth. *)
CurrentUpload(ups, k) ==
  LET mine == {i \in DOMAIN ups : ups[i].key = k} IN {ups[i] : i \in {j \in mine : j = Max(mine)}}

CertificationState(ups, k) ==
  LET are(review) == \E u \in CurrentUpload(ups, k) : u.review = review
      left(days) == \E u \in CurrentUpload(ups, k) : u.until >= today + days
  IN CASE CurrentUpload(ups, k) = {} -> "missing"
       [] are("rejected") -> "rejected"
       [] ~are("rejected") /\ CurrentUpload(ups, k) # {} /\ ~left(0) -> "expired"
       [] are("pending") /\ left(0) -> "pending"
       [] are("approved") /\ left(0) -> IF left(ExpiringWithin + 1) THEN "valid" ELSE "expiring"
Satisfied(state) == state \in {"valid", "expiring"}

(* me-documents: the documents of the season, which without a current one is the latest with *)
(* an open assignment.                                                                         *)
OpenIn(rows) == {a \in rows : assignment[a] # "archived"}
SeasonFor(open) ==
  IF season # 0 THEN season ELSE Max({Documents[a].season : a \in open} \cup {0})
SeasonDocuments(rows) ==
  LET s == SeasonFor(OpenIn(rows)) IN
  {a \in OpenIn(rows) : s = 0 \/ Documents[a].season \in {s, 0}}
DocumentDone(a) == ~Documents[a].required \/ assignment[a] = "completed"
OnboardingItemsDone(docs) ==
  /\ \A a \in docs : DocumentDone(a)
  /\ \A k \in Declared : Satisfied(CertificationState(uploads, k))

LockFor ==
  CASE ~active -> "deactivated"
    [] active /\ approval # "approved" -> approval
    [] OTHER -> "none"
IsVisible == approval = "approved" /\ active

(* listForSubject; listOpenForSubjects, for the visible ones. *)
ForSubject == {a \in DOMAIN Documents : assignment[a] # "none"}
OpenForSubjects == IF IsVisible THEN OpenIn(ForSubject) ELSE {}

(* The checklist; the lock of the payroll and insurance pages; the list of the staff. *)
ChecklistComplete == LockFor = "none" /\ OnboardingItemsDone(SeasonDocuments(ForSubject))
OnboardingLock ==
  IF LockFor # "none" THEN LockFor
  ELSE IF OnboardingItemsDone(SeasonDocuments(ForSubject)) THEN "none" ELSE "incomplete"
SummaryComplete == LockFor = "none" /\ OnboardingItemsDone(SeasonDocuments(OpenForSubjects))

------------------------------------------------------------------------------
(* go-live: a certification counts when its upload is approved, valid and of its level. *)
Verified(ups, k) ==
  \E u \in CurrentUpload(ups, k) : u.review = "approved" /\ u.until >= today /\ u.level >= level[k]
GoLiveDocuments == IF IsVisible THEN SeasonDocuments(ForSubject) ELSE {}
Ready(ups, docs) ==
  /\ IsVisible /\ ~gaps
  /\ \E k \in Declared : Verified(ups, k)
  /\ \A a \in docs : DocumentDone(a)
IsLive == IsVisible /\ synced

(* onboardingProgress and instructorStage. *)
InReview(ups) == {k \in Declared : CertificationState(ups, k) = "pending"}
Required(docs) == {a \in docs : Documents[a].required}
Done(ups, docs) ==
  Cardinality({a \in Required(docs) : DocumentDone(a)})
  + Cardinality({k \in Declared : Satisfied(CertificationState(ups, k))})
Total(docs) == Cardinality(Required(docs)) + Cardinality(Declared)
OnlyReviewMissing(ups, docs) ==
  InReview(ups) # {} /\ Done(ups, docs) + Cardinality(InReview(ups)) = Total(docs) /\ ~gaps
SomeReviewMissing(ups, docs) == InReview(ups) # {} /\ ~gaps
AwaitsReview(ups, docs) == OnlyReviewMissing(ups, docs)

StageWith(ups, docs) ==
  IF LockFor # "none" THEN LockFor
  ELSE IF IsLive THEN "live"
  ELSE IF Ready(ups, docs) THEN "going_live"
  ELSE IF AwaitsReview(ups, docs) THEN "in_review" ELSE "onboarding"

StatusStage == StageWith(uploads, GoLiveDocuments)
SummaryStage == StageWith(uploads, SeasonDocuments(OpenForSubjects))

------------------------------------------------------------------------------
documents == <<assignment, season>>
people == <<approval, active, gaps>>
proofs == <<level, uploads>>

DecideApproval(to) ==
  /\ (to = "approved" /\ approval # to) \/ (to = "rejected" /\ approval = "pending")
  /\ approval' = to
  /\ UNCHANGED <<active, gaps, documents, proofs, synced, today>>
SwitchActive ==
  /\ active' = ~active
  /\ UNCHANGED <<approval, gaps, documents, proofs, synced, today>>
EditProfile ==
  /\ gaps' = ~gaps
  /\ UNCHANGED <<approval, active, documents, proofs, synced, today>>

Assign(a) == assignment[a] = "none" /\ assignment' = [assignment EXCEPT ![a] = "assigned"]
Complete(a) ==
  IsVisible /\ assignment[a] = "assigned" /\ assignment' = [assignment EXCEPT ![a] = "completed"]
ArchiveDocument(a) == assignment[a] = "assigned" /\ assignment' = [assignment EXCEPT ![a] = "archived"]
ChangeDocuments ==
  /\ \E a \in DOMAIN Documents : Assign(a) \/ Complete(a) \/ ArchiveDocument(a)
  /\ UNCHANGED <<people, season, proofs, synced, today>>
SetSeason(s) ==
  /\ season # s /\ season' = s
  /\ UNCHANGED <<people, assignment, proofs, synced, today>>

(* A certification is declared with its level, and proved by an upload; a review stamps the *)
(* level as it is declared then.                                                              *)
Declare(k, l) ==
  /\ level[k] # l /\ level' = [level EXCEPT ![k] = l]
  /\ UNCHANGED <<people, documents, uploads, synced, today>>
Confirm(k, until) ==
  /\ level[k] # 0 /\ IsVisible /\ Len(uploads) < MaxUploads /\ until >= today
  /\ uploads' = Append(uploads, [key |-> k, review |-> "pending", until |-> until, level |-> 0])
  /\ UNCHANGED <<people, documents, level, synced, today>>
Reviewed(u, to) ==
  [u EXCEPT !.review = to,
            !.level = IF to = "approved" THEN level[u.key] ELSE IF to = "rejected" THEN 0 ELSE @]
Review(i, to) ==
  /\ uploads[i].review \notin {"rejected", to}
  /\ uploads' = [uploads EXCEPT ![i] = Reviewed(@, to)]
  /\ UNCHANGED <<people, documents, level, synced, today>>

(* The worker publishes the page when it is ready, and takes it down when it is not. *)
Sync ==
  /\ synced # Ready(uploads, GoLiveDocuments)
  /\ synced' = ~synced
  /\ UNCHANGED <<people, documents, proofs, today>>
DayPasses ==
  /\ today < LastDay /\ today' = today + 1
  /\ UNCHANGED <<people, documents, proofs, synced>>

StagesNext ==
  \/ SwitchActive \/ EditProfile \/ ChangeDocuments \/ Sync \/ DayPasses
  \/ \E to \in {"approved", "rejected"} : DecideApproval(to)
  \/ \E s \in CurrentSeasons : SetSeason(s)
  \/ \E k \in Keys : (\E l \in HeldLevels : Declare(k, l)) \/ \E until \in ValidUntil : Confirm(k, until)
  \/ \E i \in DOMAIN uploads, to \in {"pending", "approved", "rejected"} : Review(i, to)

StagesSpec == StagesInit /\ [][StagesNext]_stageVars

------------------------------------------------------------------------------
(* The places that ask whether an instructor is through agree, for one instructor and in the *)
(* list of all; and "in review" promises what it says: once the uploads that await a review    *)
(* are approved, the page goes live.                                                             *)
StagesAgree ==
  /\ (OnboardingLock = "none") = ChecklistComplete
  /\ SummaryComplete = ChecklistComplete
  /\ SummaryStage = StatusStage
  /\ StatusStage = "in_review" =>
       StageWith([i \in DOMAIN uploads |-> IF uploads[i].review = "pending"
                                            THEN Reviewed(uploads[i], "approved") ELSE uploads[i]],
                 GoLiveDocuments) = "going_live"
  /\ StatusStage = "in_review" => ~ChecklistComplete
====
