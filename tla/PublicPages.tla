---- MODULE PublicPages ----
(* Public pages: the row of a page and the two objects the docs worker serves for it.  *)
(*   public-pages/public-pages.service.ts, public-pages.repository.ts, keyed-lock.ts,    *)
(*   docs-storage.client.ts, supabase/migrations/266_public_pages.sql                     *)
(* An operation changes an object first and the row after it, if the row is still as it     *)
(* was loaded; when either fails it reads the row again and brings the objects back to it.    *)
(* One process runs the operations of a page one after the other.                             *)
EXTENDS Naturals, Sequences

CONSTANTS
  Processes,    \* each has locks of its own; two of them overlap while a release is deployed
  Requests,
  Bodies,       \* contents: positive numbers, 0 is none
  MaxPages,     \* bound: pages created, one after the other, under one slug
  MaxCalls,     \* bound: operations
  MaxFaults     \* bound: calls that fail, processes that die

VARIABLES
  page,         \* page[i]: the row
  store,        \* the objects "draft" and "published" of the slug
  created,      \* pages created
  held,         \* locks: <<process, key>> to the request that holds it
  req,          \* req[r]: an operation in progress
  called,
  reported,     \* an inconsistency was reported
  cut,          \* history: a process died in the middle of an operation
  crossed,      \* history: two processes at once on the objects of the slug, one restoring them
                \* or one with a page that is gone
  pageFaults

pageVars == <<page, store, created, held, req, called, reported, cut, crossed, pageFaults>>

Pages == 1..MaxPages
SlugLock == 0
Free == "free"
NoRow == [live |-> FALSE, published |-> FALSE, draft |-> 0, shown |-> 0, version |-> 0]
NoReq == [pc |-> "idle", process |-> "none", op |-> "none", page |-> 1, row |-> NoRow, body |-> 0,
          key |-> "draft", previous |-> 0, targets |-> <<>>]

PagesInit ==
  /\ page = [i \in Pages |-> NoRow] /\ created = 0
  /\ store = [draft |-> 0, published |-> 0]
  /\ held = [l \in Processes \X (Pages \cup {SlugLock}) |-> Free]
  /\ req = [r \in Requests |-> NoReq]
  /\ called = 0 /\ reported = FALSE /\ cut = FALSE /\ crossed = FALSE /\ pageFaults = 0

To(r, s) == req' = [req EXCEPT ![r] = s]
Step(r, pc) == To(r, [req[r] EXCEPT !.pc = pc])
End(r) ==
  /\ To(r, NoReq)
  /\ held' = [l \in DOMAIN held |-> IF held[l] = r THEN Free ELSE held[l]]
Fault == pageFaults < MaxFaults /\ pageFaults' = pageFaults + 1
NoFault == UNCHANGED pageFaults
history == <<cut, crossed>>
restoring == {"reread", "converge"}

------------------------------------------------------------------------------
(* create, under the lock of the slug; slugs are unique. *)
Create(p) ==
  /\ created < MaxPages /\ held[<<p, SlugLock>>] = Free
  /\ \A i \in Pages : ~page[i].live
  /\ created' = created + 1
  /\ page' = [page EXCEPT ![created + 1] = [NoRow EXCEPT !.live = TRUE]]
  /\ crossed' = (crossed \/ \E r \in Requests : req[r].pc \notin {"idle", "load"})
  /\ UNCHANGED <<store, held, req, called, reported, cut, pageFaults>>

(* updateTitle, uploadContent, publish, unpublish, remove: under the lock of the page. *)
Start(r, p, i, op, body) ==
  /\ req[r].pc = "idle" /\ called < MaxCalls /\ held[<<p, i>>] = Free
  /\ called' = called + 1
  /\ held' = [held EXCEPT ![<<p, i>>] = r]
  /\ To(r, [NoReq EXCEPT !.pc = "load", !.process = p, !.op = op, !.page = i, !.body = body,
              !.key = IF op = "upload" THEN "draft" ELSE "published"])
  /\ UNCHANGED <<page, store, created, reported, history, pageFaults>>

Load(r) ==
  /\ req[r].pc = "load"
  /\ LET row == page[req[r].page] op == req[r].op IN
     IF ~row.live \/ (op = "publish" /\ row.draft = 0)
     THEN End(r)
     ELSE /\ To(r, [req[r] EXCEPT !.row = row, !.pc =
                      CASE op = "title" -> "commit" [] op = "publish" -> "body"
                        [] op = "remove" -> "slug" [] OTHER -> "snapshot"])
          /\ UNCHANGED held
  /\ UNCHANGED <<page, store, created, called, reported, history, pageFaults>>

LockSlug(r) ==
  /\ req[r].pc = "slug" /\ held[<<req[r].process, SlugLock>>] = Free
  /\ held' = [held EXCEPT ![<<req[r].process, SlugLock>>] = r]
  /\ Step(r, "snapshot")
  /\ UNCHANGED <<page, store, created, called, reported, history, pageFaults>>

(* readDraft: a draft the row has and the storage has not is reported. *)
ReadDraft(r) ==
  /\ req[r].pc = "body"
  /\ IF store.draft = 0
     THEN End(r) /\ reported' = TRUE
     ELSE /\ To(r, [req[r] EXCEPT !.pc = "snapshot", !.body = store.draft])
          /\ UNCHANGED <<held, reported>>
  /\ UNCHANGED <<page, store, created, called, history, pageFaults>>

Snapshot(r) ==
  /\ req[r].pc = "snapshot"
  /\ To(r, [req[r] EXCEPT !.pc = "mutate", !.previous = store[req[r].key]])
  /\ UNCHANGED <<page, store, created, held, called, reported, history, pageFaults>>

(* One request restores objects while another one is between its write and its end. *)
Overlapping ==
  \E r, q \in Requests :
    r # q /\ req[r].pc \in restoring /\ req[q].pc \in restoring \cup {"commit", "draft"}
Watch == crossed' = (crossed \/ Overlapping')

(* mutate: the object first; a call that fails may have worked. *)
Mutate(r) ==
  /\ req[r].pc = "mutate"
  /\ \/ store' = [store EXCEPT ![req[r].key] = req[r].body] /\ Step(r, "commit") /\ NoFault
     \/ /\ Fault /\ Step(r, "reread")
        /\ store' \in {store, [store EXCEPT ![req[r].key] = req[r].body]}
  /\ Watch
  /\ UNCHANGED <<page, created, held, called, reported, cut>>

Patched(op, row, body) ==
  LET next == [row EXCEPT !.version = row.version + 1] IN
  CASE op = "title" -> next
    [] op = "upload" -> [next EXCEPT !.draft = body]
    [] op = "publish" -> [next EXCEPT !.published = TRUE, !.shown = body]
    [] op = "unpublish" -> [next EXCEPT !.published = FALSE, !.shown = 0]
    [] op = "remove" -> [next EXCEPT !.live = FALSE]

(* update and delete: only the version that was loaded. Mutation: any version. *)
UnchangedAny(row, loaded) == row.live
Unchanged(row, loaded) == row.live /\ row.version = loaded.version

AfterCommit(op) == IF op = "remove" THEN "draft" ELSE "end"
Commit(r) ==
  /\ req[r].pc = "commit"
  /\ LET op == req[r].op i == req[r].page
         patched == [page EXCEPT ![i] = Patched(op, page[i], req[r].body)]
         failed == IF op = "title" THEN "end" ELSE "reread"
     IN  \/ /\ Unchanged(page[i], req[r].row) /\ page' = patched
            /\ Step(r, AfterCommit(op)) /\ NoFault
         \/ /\ ~Unchanged(page[i], req[r].row) /\ Step(r, failed)
            /\ UNCHANGED page /\ NoFault
         \/ /\ Fault /\ Step(r, failed)
            /\ page' \in IF Unchanged(page[i], req[r].row) THEN {page, patched} ELSE {page}
  /\ Watch
  /\ UNCHANGED <<store, created, held, called, reported, cut>>

(* The row is gone; so is its draft, or that is reported. *)
RemoveDraft(r) ==
  /\ req[r].pc = "draft"
  /\ \/ store' = [store EXCEPT !.draft = 0] /\ UNCHANGED reported /\ NoFault
     \/ Fault /\ reported' = TRUE /\ store' \in {store, [store EXCEPT !.draft = 0]}
  /\ crossed' = (crossed \/ \E i \in Pages : page[i].live)
  /\ Step(r, "end")
  /\ UNCHANGED <<page, created, held, called, cut>>

Finish(r) ==
  /\ req[r].pc = "end" /\ End(r)
  /\ UNCHANGED <<page, store, created, called, reported, history, pageFaults>>

------------------------------------------------------------------------------
(* reconcile: the objects the row calls for, that of the operation first. *)

Wanted(row, key) ==
  IF ~row.live THEN 0
  ELSE IF key = "draft" THEN row.draft ELSE IF row.published THEN row.shown ELSE 0
Other(key) == IF key = "draft" THEN "published" ELSE "draft"
Targets(row, key) ==
  << [key |-> key, body |-> Wanted(row, key)], [key |-> Other(key), body |-> Wanted(row, Other(key))] >>

(* converge: where the body may be found. *)
Candidates(s, key) ==
  {store[key], s.body} \cup (IF s.key = key THEN {s.previous} ELSE {})
    \cup (IF key = "published" THEN {store.draft} ELSE {})
Restorable(s, target) == target.body = 0 \/ target.body \in Candidates(s, target.key)

(* The row that counts is the one in the table. Mutation: the row that was loaded first. *)
RowLoaded(s) == s.row
RowNow(s) == page[s.page]

(* The page is read again; if that fails too, the snapshot is put back and it is reported. *)
Reread(r) ==
  /\ req[r].pc = "reread"
  /\ LET s == req[r] IN
     \/ /\ To(r, [s EXCEPT !.pc = "converge", !.targets = Targets(RowNow(s), s.key)])
        /\ UNCHANGED <<store, reported>> /\ NoFault
     \/ /\ Fault /\ Step(r, "end") /\ reported' = TRUE
        /\ store' \in {store, [store EXCEPT ![s.key] = s.previous]}
  /\ Watch
  /\ UNCHANGED <<page, created, held, called, cut>>

Converge(r) ==
  /\ req[r].pc = "converge"
  /\ LET s == req[r] target == Head(s.targets) left == Tail(s.targets)
         restored == [store EXCEPT ![target.key] = target.body]
     IN  \/ /\ Restorable(s, target) /\ store' = restored /\ NoFault /\ UNCHANGED reported
            /\ IF left = <<>> THEN Step(r, "end") ELSE To(r, [s EXCEPT !.targets = left])
         \/ /\ ~Restorable(s, target) /\ reported' = TRUE /\ Step(r, "end")
            /\ UNCHANGED store /\ NoFault
         \/ /\ Fault /\ reported' = TRUE /\ Step(r, "end") /\ store' \in {store, restored}
  /\ Watch
  /\ UNCHANGED <<page, created, held, called, cut>>

(* A process dies. *)
Die(p) ==
  /\ Fault
  /\ \E r \in Requests : req[r].process = p
  /\ cut' = (cut \/ \E r \in Requests : req[r].process = p /\
               req[r].pc \in restoring \cup {"commit", "draft"} /\ req[r].op # "title")
  /\ req' = [r \in Requests |-> IF req[r].process = p THEN NoReq ELSE req[r]]
  /\ held' = [l \in DOMAIN held |-> IF l[1] = p THEN Free ELSE held[l]]
  /\ UNCHANGED <<page, store, created, called, reported, crossed>>

PagesNext ==
  \/ \E p \in Processes : Create(p) \/ Die(p)
  \/ \E r \in Requests :
       \/ \E p \in Processes, i \in 1..created :
            \/ \E op \in {"title", "publish", "unpublish", "remove"} : Start(r, p, i, op, 0)
            \/ \E b \in Bodies : Start(r, p, i, "upload", b)
       \/ Load(r) \/ LockSlug(r) \/ ReadDraft(r) \/ Snapshot(r) \/ Mutate(r) \/ Commit(r)
       \/ RemoveDraft(r) \/ Finish(r) \/ Reread(r) \/ Converge(r)

PagesSpec == PagesInit /\ [][PagesNext]_pageVars

------------------------------------------------------------------------------
(* When nothing is in progress, what the docs worker serves and what it keeps as a draft  *)
(* are what the rows say, whichever calls failed on the way and whichever of two processes  *)
(* ran them - or the failure was reported, a process died in the middle of an operation, it     *)
(* restored objects that another process was writing, or gave the slug to a new page while       *)
(* another one was busy with the old one.                                                         *)
ServedAsRecorded ==
  (\A r \in Requests : req[r].pc = "idle") /\ ~reported /\ ~cut /\ ~crossed =>
    \A key \in {"draft", "published"} :
      LET live == {i \in Pages : page[i].live} IN
      store[key] = IF live = {} THEN 0 ELSE Wanted(page[CHOOSE i \in live : TRUE], key)
====
