---- MODULE BioDrafts ----
(* The daily quota of AI drafts of an instructor's bio: a slot is reserved before the model is asked,   *)
(* and given back when the draft fails.                                                                  *)
(*   instructors/bio-draft.service.ts, bio-ai-quota.repository.ts, supabase/migrations/282_bio_ai_drafts *)
(*   .sql, bio-translation/gemini-bio-translator.ts (draft)                                              *)
(* One instructor, since the lock and the count are per instructor.  The texts are their lengths.        *)
EXTENDS Integers, FiniteSets

CONSTANTS
  Requests,       \* draft requests, each sent once
  Limit, Window,  \* Limit drafts in any Window of time
  LastTime,       \* bound of the clock
  MaxLength,      \* of either language of a bio
  MaxDraftFaults  \* bound: answers lost and processes that die

VARIABLES
  now,
  slots,          \* bio_ai_requests: [by, at]
  ask,            \* the requests
  made,           \* history: how many slots were reserved
  draftFaults

draftVars == <<now, slots, ask, made, draftFaults>>

Langs == {"en", "zh-CN"}
Lengths == 0 .. MaxLength + 1
\* What the model answers: an answer without text, or the fields of its JSON.
NoText == [en |-> 0, zh |-> 0, langs |-> {}]
Answers == [en: Lengths, zh: Lengths, langs: SUBSET Langs]

DraftsInit ==
  /\ now = 0 /\ slots = {} /\ made = 0 /\ draftFaults = 0
  /\ ask = [r \in Requests |-> [pc |-> "idle"]]

Minimum(s) == CHOOSE t \in s : \A u \in s : t <= u
Became(r, step) == ask' = [ask EXCEPT ![r] = step]
DraftFault == draftFaults < MaxDraftFaults /\ draftFaults' = draftFaults + 1

\* Mutation: a request still counts when it is exactly one window old.
InWindowClosed(row, at) == row.at >= at - Window
(* bio_ai_usage counts created_at > now() - interval '24 hours'; now() is when the transaction began. *)
InWindow(row, at) == row.at > at - Window
Counted(at) == {row \in slots : InWindow(row, at)}

\* Mutation: one more than the limit.
HasSlotInclusive(used) == used <= Limit
(* if used < p_limit *)
HasSlot(used) == used < Limit

(* toUsage: what the caller is told. *)
Usage(used, times) ==
  LET shown == IF used < Limit THEN used ELSE Limit IN
  [used |-> shown, resets |-> IF shown = 0 THEN -1 ELSE Minimum(times) + Window]

(* draft: the instructor is looked up and the reservation's transaction begins; it may wait for the   *)
(* advisory lock of the instructor, which the others hold from their count to their commit.            *)
Begin(r) ==
  /\ ask[r].pc = "idle"
  /\ Became(r, [pc |-> "queued", at |-> now, made |-> made])
  /\ UNCHANGED <<now, slots, made, draftFaults>>

Reserved(r) == slots' = slots \cup {[by |-> r, at |-> ask[r].at]} /\ made' = made + 1

(* reserve_bio_ai_request, a slot is free: the row is written, and the model is asked. *)
Reserve(r) ==
  LET times == {row.at : row \in Counted(ask[r].at)} IN
  /\ ask[r].pc = "queued" /\ HasSlot(Cardinality(Counted(ask[r].at)))
  /\ Reserved(r)
  /\ Became(r, [pc |-> "drafting", at |-> ask[r].at,
                usage |-> Usage(Cardinality(Counted(ask[r].at)) + 1,
                                IF times = {} THEN {ask[r].at} ELSE times)])
  /\ UNCHANGED <<now, draftFaults>>

(* No slot is free: 429 bio_ai_limit, with the time at which one will be. *)
Refuse(r) ==
  LET counted == Counted(ask[r].at) IN
  /\ ask[r].pc = "queued" /\ ~HasSlot(Cardinality(counted))
  /\ Became(r, [pc |-> "refused", at |-> ask[r].at, made |-> ask[r].made,
                usage |-> Usage(Cardinality(counted), {row.at : row \in counted})])
  /\ UNCHANGED <<now, slots, made, draftFaults>>

(* The answer of the reservation is lost after its commit: the caller gets an error, the slot is taken. *)
ReserveLost(r) ==
  /\ DraftFault /\ ask[r].pc = "queued" /\ HasSlot(Cardinality(Counted(ask[r].at)))
  /\ Reserved(r)
  /\ Became(r, [pc |-> "failed", released |-> FALSE])
  /\ UNCHANGED now

\* Mutation: a draft with an empty language is given to the caller.
UsableEvenEmpty(a) == a.langs # {} /\ a.en <= MaxLength /\ a.zh <= MaxLength
(* parseDraft: both languages are there and fit, and the source languages are known. *)
Usable(a) ==
  /\ a.langs # {}
  /\ a.en \in 1 .. MaxLength /\ a.zh \in 1 .. MaxLength

(* The model answers, and its draft is handed to the caller. *)
Serve(r, a) ==
  /\ ask[r].pc = "drafting" /\ Usable(a)
  /\ Became(r, [pc |-> "served", at |-> ask[r].at, draft |-> a, usage |-> ask[r].usage])
  /\ UNCHANGED <<now, slots, made, draftFaults>>

(* generate fails, times out or gives something unusable: a single attempt, so the slot is given back. *)
Fail(r) ==
  /\ ask[r].pc = "drafting"
  /\ Became(r, [pc |-> "releasing"])
  /\ UNCHANGED <<now, slots, made, draftFaults>>

\* Mutation: the slots older than the failed one go with it.
SlotsOfOlder(r) == {row \in slots : \A own \in slots : own.by = r => row.at <= own.at}
(* The row of the request. *)
SlotOf(r) == {row \in slots : row.by = r}

(* release: the row is deleted; the caller gets 503 bio_ai_unavailable. *)
FreeSlot(r) ==
  /\ ask[r].pc = "releasing"
  /\ slots' = slots \ SlotOf(r)
  /\ Became(r, [pc |-> "failed", released |-> TRUE])
  /\ UNCHANGED <<now, made, draftFaults>>

(* The deletion fails, which is only logged. *)
FreeSlotFails(r) ==
  /\ DraftFault /\ ask[r].pc = "releasing"
  /\ Became(r, [pc |-> "failed", released |-> FALSE])
  /\ UNCHANGED <<now, slots, made>>

\* The process dies with the draft in its hands.
DraftDies(r) ==
  /\ DraftFault /\ ask[r].pc \in {"drafting", "releasing"}
  /\ Became(r, [pc |-> "failed", released |-> FALSE])
  /\ UNCHANGED <<now, slots, made>>

Tick ==
  /\ now < LastTime /\ now' = now + 1
  /\ UNCHANGED <<slots, ask, made, draftFaults>>

DraftsNext ==
  \/ \E r \in Requests :
       \/ Begin(r) \/ Reserve(r) \/ Refuse(r) \/ ReserveLost(r)
       \/ Fail(r) \/ FreeSlot(r) \/ FreeSlotFails(r) \/ DraftDies(r)
       \/ \E a \in Answers : Serve(r, a)
  \/ Tick

DraftsSpec == DraftsInit /\ [][DraftsNext]_draftVars

------------------------------------------------------------------------------
\* However requests wait for the lock, fail and are charged: no window holds more drafts than the limit.
WithinLimit ==
  \A start \in -Window .. LastTime :
     Cardinality({r \in Requests : /\ ask[r].pc \in {"drafting", "served"}
                                   /\ ask[r].at \in start + 1 .. start + Window}) <= Limit

\* A slot is charged for a draft that is served or still being made; a failed one only when its
\* release, or the process that would have sent it, failed.
ChargedForDrafts ==
  \A r \in Requests :
    LET charged == SlotOf(r) # {} IN
    CASE ask[r].pc \in {"drafting", "releasing", "served"} -> charged
      [] ask[r].pc = "failed" -> charged = ~ask[r].released
      [] OTHER -> ~charged

\* Who is refused is told when a slot will be free, and then one is, unless another was taken since
\* the refused request began.
ResetsWhenTold ==
  \A r \in Requests :
     ask[r].pc = "refused" /\ ask[r].made = made => HasSlot(Cardinality(Counted(ask[r].usage.resets)))

\* What is served can be saved: two complete languages, within the length of a profile's bio.
DraftsFit ==
  \A r \in Requests : ask[r].pc = "served" =>
     ask[r].draft.en \in 1 .. MaxLength /\ ask[r].draft.zh \in 1 .. MaxLength

QuotaIsKept == WithinLimit /\ ChargedForDrafts /\ ResetsWhenTold /\ DraftsFit
====
