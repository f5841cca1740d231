---- MODULE CustomerMirror ----
(* The customers table as a mirror of Shopify's customers:                       *)
(*   customers/customer-sync.service.ts, customer-sync.worker.ts,                *)
(*   customer-reconcile.service.ts, customers.service.ts, customers.repository   *)
(*   shopify-webhooks/shopify-webhooks.service.ts                                *)
(*   supabase/migrations/279_customer_sync_status.sql, 281_customer_webhooks.sql *)
(* News comes by webhooks, which may be late, repeated or lost, and by pulls: the *)
(* worker's leased tick, which reads what changed since the watermark and once a  *)
(* day reconciles deletions, and an admin's sync, which takes no lease. A step is *)
(* one query or one call. Time counts in units in which a page that was read is   *)
(* stored (INCREMENTAL_OVERLAP_MS); Shopify stamps changes with it, several in    *)
(* one unit alike.                                                               *)
EXTENDS Integers, FiniteSets

CONSTANTS
  Customers,    \* Shopify's ids, numbers
  Workers,      \* machines of the worker group
  Admins,       \* requests of admins that sync or create
  PageSize,     \* CUSTOMERS_PAGE_SIZE
  TickPages,    \* CUSTOMER_SYNC_TICK_MAX_PAGES
  MaxTime,      \* bound: units of time
  MaxChanges,   \* bound: changes at Shopify and requests of admins
  MaxFaults     \* bound: aborted pulls, crashes, leases that run out early

VARIABLES
  shop,        \* shop[c]: what Shopify has of customer c
  goneOnce,    \* history: the customers Shopify has deleted at some time
  clock,       \* the time
  changes,     \* changes and requests so far, counted towards MaxChanges
  customers,   \* customers[c]: the row, version 0 when there is none
  watermark,   \* customer_sync_status.incremental_since
  lease,       \* who has lock_token, while locked_until is ahead
  pull,        \* pull[p]: the pull of a worker or admin
  notices,     \* webhooks Shopify still delivers, again until one answer says 200
  mirrorFaults \* faults so far

mirrorVars == <<shop, goneOnce, clock, changes, customers, watermark, lease, pull,
                notices, mirrorFaults>>

Overlap == 1   \* INCREMENTAL_OVERLAP_MS in units of time
NoLease == "nobody"
Pulls == Workers \cup Admins

Shop == [version : Nat, stamp : Nat, live : BOOLEAN]
Row == [version : Nat, stamp : Nat, deletedAt : Int, byReconcile : BOOLEAN]
NoRow == [version |-> 0, stamp |-> 0, deletedAt |-> -1, byReconcile |-> FALSE]
Shown(c) == customers[c].version > 0 /\ customers[c].deletedAt = -1

Page == SUBSET [id : Customers, version : Nat, stamp : Nat]
Notice == [id : Customers, topic : {"upsert", "delete"}, version : Nat, stamp : Nat]

Idle == [pc |-> "idle", kind |-> "none", started |-> 0, since |-> 0, after |-> <<-1, 0>>,
         pages |-> 0, newest |-> -1, page |-> {}, fetched |-> 0, more |-> FALSE,
         fresh |-> {}, listed |-> {}, local |-> 0]

MirrorInit ==
  /\ shop = [c \in Customers |-> [version |-> IF c = 1 THEN 1 ELSE 0, stamp |-> 0,
                                  live |-> c = 1]]
  /\ goneOnce = {}
  /\ clock = 0 /\ changes = 0 /\ mirrorFaults = 0
  /\ customers = [c \in Customers |-> IF c = 1 THEN [NoRow EXCEPT !.version = 1] ELSE NoRow]
  /\ watermark = 0
  /\ lease = NoLease
  /\ pull = [p \in Pulls |-> Idle]
  /\ notices = {}

------------------------------------------------------------------------------
(* Shopify and time *)

(* A page is stored within the overlap of its answer: time waits for it. *)
Prompt == \A p \in Pulls : pull[p].pc = "save" => clock < pull[p].fetched + Overlap

TimePasses ==
  /\ clock < MaxTime /\ Prompt
  /\ clock' = clock + 1
  /\ UNCHANGED <<shop, goneOnce, changes, customers, watermark, lease, pull, notices, mirrorFaults>>

(* Fewer customers share a stamp than one tick reads, or a tick whose watermark is *)
(* that stamp would never come past them.                                         *)
StampFree(c) ==
  Cardinality({d \in Customers \ {c} : shop[d].version > 0 /\ shop[d].stamp = clock})
    < PageSize * TickPages - 1

(* A customer is created, edited or comes back; Shopify sends customers/create or *)
(* customers/update.                                                             *)
Edited(c) == [version |-> shop[c].version + 1, stamp |-> clock, live |-> TRUE]

Edit(c) ==
  /\ changes < MaxChanges /\ StampFree(c)
  /\ changes' = changes + 1
  /\ shop' = [shop EXCEPT ![c] = Edited(c)]
  /\ notices' = notices \cup {[id |-> c, topic |-> "upsert", version |-> shop'[c].version,
                               stamp |-> clock]}
  /\ UNCHANGED <<goneOnce, clock, customers, watermark, lease, pull,
                 mirrorFaults>>

(* A customer is deleted; half of the others stay, so that a reconcile goes through. *)
Delete(c) ==
  /\ changes < MaxChanges
  /\ shop[c].live /\ \E d \in Customers \ {c} : shop[d].live
  /\ changes' = changes + 1
  /\ shop' = [shop EXCEPT ![c].live = FALSE]
  /\ goneOnce' = goneOnce \cup {c}
  /\ notices' = notices \cup {[id |-> c, topic |-> "delete", version |-> shop[c].version,
                               stamp |-> clock]}
  /\ UNCHANGED <<clock, customers, watermark, lease, pull, mirrorFaults>>

(* Shopify gives a delivery up after its retries. *)
Lose(n) ==
  /\ n \in notices
  /\ notices' = notices \ {n}
  /\ UNCHANGED <<shop, goneOnce, clock, changes, customers, watermark, lease, pull, mirrorFaults>>

------------------------------------------------------------------------------
(* Webhooks *)

(* Rows that come to be while a reconcile runs are newer than its p_started_at, and *)
(* so are the marks of another reconcile.                                          *)
Noticed(S) == [p \in Pulls |-> IF pull[p].pc \in {"list", "count", "apply"}
                               THEN [pull[p] EXCEPT !.fresh = @ \cup S] ELSE pull[p]]
Inserted(S) == {c \in S : customers[c].version = 0}

(* upsert_customer_if_newer and mark_customer_deleted_in_shopify. *)
UpsertIfNewer(row, n) ==
  IF row.version = 0 THEN [NoRow EXCEPT !.version = n.version, !.stamp = n.stamp]
  ELSE IF row.stamp < n.stamp
  THEN [row EXCEPT !.version = n.version, !.stamp = n.stamp,
                   !.deletedAt = IF row.deletedAt < n.stamp THEN -1 ELSE @]
  ELSE row

MarkDeleted(row, n) ==
  IF row.version > 0 /\ row.deletedAt = -1 /\ row.stamp <= n.stamp
  THEN [row EXCEPT !.deletedAt = n.stamp, !.byReconcile = FALSE] ELSE row

Applied(row, n) == IF n.topic = "delete" THEN MarkDeleted(row, n) ELSE UpsertIfNewer(row, n)

Fault == mirrorFaults < MaxFaults /\ mirrorFaults' = mirrorFaults + 1

(* A delivery that is not yet processed (claim) is applied; then finish() records *)
(* it, or the process dies before that and the retry is applied again.            *)
Deliver(n) ==
  /\ n \in notices
  /\ customers' = [customers EXCEPT ![n.id] = Applied(@, n)]
  /\ pull' = IF customers'[n.id].version > 0 THEN Noticed(Inserted({n.id})) ELSE pull
  /\ \/ notices' = notices \ {n} /\ UNCHANGED mirrorFaults
     \/ Fault /\ UNCHANGED notices
  /\ UNCHANGED <<shop, goneOnce, clock, changes, watermark, lease>>

------------------------------------------------------------------------------
(* Pulls: CustomerSyncService.run *)

Begin(p, kind) ==
  pull' = [pull EXCEPT ![p] = [Idle EXCEPT !.pc = IF kind = "full" THEN "fetch" ELSE "since",
                                           !.kind = kind, !.started = clock]]

(* The worker's tick takes the lease (try_lock_customer_sync) and starts. *)
StartTick(w) ==
  /\ pull[w].pc = "idle" /\ lease = NoLease
  /\ lease' = w
  /\ Begin(w, "tick")
  /\ UNCHANGED <<shop, goneOnce, clock, changes, customers, watermark, notices, mirrorFaults>>

(* An admin's POST customers/sync, of what changed or of everything. *)
StartSync(a) ==
  /\ pull[a].pc = "idle" /\ changes < MaxChanges
  /\ changes' = changes + 1
  /\ \E kind \in {"sync", "full"} : Begin(a, kind)
  /\ UNCHANGED <<shop, goneOnce, clock, customers, watermark, lease, notices, mirrorFaults>>

(* An admin creates a customer: first at Shopify, then (Save) in the table. *)
StartCreate(a, c) ==
  /\ pull[a].pc = "idle" /\ shop[c].version = 0
  /\ changes < MaxChanges /\ StampFree(c)
  /\ changes' = changes + 1
  /\ shop' = [shop EXCEPT ![c] = Edited(c)]
  /\ notices' = notices \cup {[id |-> c, topic |-> "upsert", version |-> 1, stamp |-> clock]}
  /\ pull' = [pull EXCEPT ![a] = [Idle EXCEPT !.pc = "save", !.kind = "create",
                !.page = {[id |-> c, version |-> 1, stamp |-> clock]}, !.fetched = clock]]
  /\ UNCHANGED <<goneOnce, clock, customers, watermark, lease, mirrorFaults>>

(* incrementalSince(). *)
ReadSince(p) ==
  /\ pull[p].pc = "since"
  /\ pull' = [pull EXCEPT ![p].pc = "fetch", ![p].since = watermark]
  /\ UNCHANGED <<shop, goneOnce, clock, changes, customers, watermark, lease, notices, mirrorFaults>>

(* directory.page: live customers in the order of their stamps, after the cursor. *)
Before(x, y) == x[1] < y[1] \/ (x[1] = y[1] /\ x[2] < y[2])
Place(c) == <<shop[c].stamp, c>>
Rest(p) == {c \in Customers : /\ shop[c].live /\ shop[c].stamp >= pull[p].since
                              /\ Before(pull[p].after, Place(c))}
FirstPage(p) == {c \in Rest(p) :
                   Cardinality({d \in Rest(p) : Before(Place(d), Place(c))}) < PageSize}

Latest(newest, S) ==
  CHOOSE t \in {newest} \cup {shop[c].stamp : c \in S} :
    \A u \in {newest} \cup {shop[c].stamp : c \in S} : u <= t

Fetch(p) ==
  /\ pull[p].pc = "fetch"
  /\ LET cs == FirstPage(p) IN
     pull' = [pull EXCEPT
       ![p].pc = "save", ![p].pages = @ + 1, ![p].fetched = clock, ![p].more = cs # Rest(p),
       ![p].page = {[id |-> c, version |-> shop[c].version, stamp |-> shop[c].stamp] : c \in cs},
       ![p].after = IF cs = {} THEN @
                    ELSE CHOOSE t \in {Place(c) : c \in cs} :
                           \A c \in cs : ~Before(t, Place(c)),
       ![p].newest = Latest(@, cs)]
  /\ UNCHANGED <<shop, goneOnce, clock, changes, customers, watermark, lease, notices, mirrorFaults>>

(* upsertMany and upsertOne: content and stamp whatever they were, the mark of a *)
(* deletion as it is.                                                            *)
Upserted(page) ==
  [c \in Customers |->
     IF \E r \in page : r.id = c
     THEN LET r == CHOOSE q \in page : q.id = c
          IN [customers[c] EXCEPT !.version = r.version, !.stamp = r.stamp]
     ELSE customers[c]]

LastPage(p) == ~pull[p].more \/ pull[p].pages = TickPages
AfterPages(p) == CASE pull[p].kind \in {"create", "full"} -> "finish" [] OTHER -> "mark"

Save(p) ==
  /\ pull[p].pc = "save"
  /\ customers' = Upserted(pull[p].page)
  /\ pull' = [Noticed(Inserted({r.id : r \in pull[p].page})) EXCEPT
                ![p].pc = IF LastPage(p) THEN AfterPages(p) ELSE "fetch", ![p].page = {}]
  /\ UNCHANGED <<shop, goneOnce, clock, changes, watermark, lease, notices,
                 mirrorFaults>>

(* setIncrementalSince: the newest stamp read when there is more, else the start *)
(* less the overlap. A tick goes on to reconcile once RECONCILE_INTERVAL_MS has   *)
(* passed since last_reconcile_at.                                               *)
NextWatermark(p) ==
  IF pull[p].more THEN pull[p].newest ELSE pull[p].started - Overlap

MarkSince(p, next) ==
  /\ pull[p].pc = "mark"
  /\ next = "list" => pull[p].kind = "tick"
  /\ watermark' = NextWatermark(p)
  /\ pull' = [pull EXCEPT ![p] = [Idle EXCEPT !.kind = pull[p].kind, !.started = clock,
                !.pc = next]]
  /\ UNCHANGED <<shop, goneOnce, clock, changes, customers, lease, notices,
                 mirrorFaults>>

------------------------------------------------------------------------------
(* CustomerReconcileService.reconcile, started inside a tick *)

ListIds(p) ==
  /\ pull[p].pc = "list"
  /\ pull' = [pull EXCEPT ![p].pc = "count", ![p].listed = {c \in Customers : shop[c].live}]
  /\ UNCHANGED <<shop, goneOnce, clock, changes, customers, watermark, lease, notices, mirrorFaults>>

CountLocal(p) ==
  /\ pull[p].pc = "count"
  /\ pull' = [pull EXCEPT ![p].pc = "apply",
                          ![p].local = Cardinality({c \in Customers : Shown(c)})]
  /\ UNCHANGED <<shop, goneOnce, clock, changes, customers, watermark, lease, notices, mirrorFaults>>

(* reconcile_customer_deletions: rows from before the start that are not listed are *)
(* marked, marks from before the start on listed ones are taken back.              *)
OlderRowAny(p, c) == TRUE
OlderRow(p, c) == c \notin pull[p].fresh
OlderMark(p, c) == IF customers[c].byReconcile THEN c \notin pull[p].fresh
                   ELSE customers[c].deletedAt <= pull[p].started

Reconciled(p) ==
  [c \in Customers |->
     LET row == customers[c] IN
     IF Shown(c) /\ c \notin pull[p].listed /\ OlderRow(p, c)
     THEN [row EXCEPT !.deletedAt = clock, !.byReconcile = TRUE]
     ELSE IF row.deletedAt # -1 /\ c \in pull[p].listed /\ OlderMark(p, c)
     THEN [row EXCEPT !.deletedAt = -1, !.byReconcile = FALSE]
     ELSE row]

(* Listing fewer than half of the local customers stops it. *)
Reconcile(p) ==
  /\ pull[p].pc = "apply"
  /\ customers' = IF 2 * Cardinality(pull[p].listed) < pull[p].local THEN customers
                  ELSE Reconciled(p)
  /\ pull' = [Noticed({c \in Customers : customers'[c].deletedAt # customers[c].deletedAt})
                EXCEPT ![p] = [Idle EXCEPT !.pc = "finish", !.kind = pull[p].kind]]
  /\ UNCHANGED <<shop, goneOnce, clock, changes, watermark, lease, notices,
                 mirrorFaults>>

------------------------------------------------------------------------------
(* Ends and failures *)

Released(p) == IF lease = p THEN NoLease ELSE lease   \* finish_customer_sync(token)

Finish(p) ==
  /\ pull[p].pc = "finish"
  /\ lease' = Released(p)
  /\ pull' = [pull EXCEPT ![p] = Idle]
  /\ UNCHANGED <<shop, goneOnce, clock, changes, customers, watermark, notices,
                 mirrorFaults>>

(* A call or query fails: the tick ends and records the error. *)
Abort(p) ==
  /\ pull[p].pc \notin {"idle", "finish"} /\ Fault
  /\ lease' = Released(p)
  /\ pull' = [pull EXCEPT ![p] = Idle]
  /\ UNCHANGED <<shop, goneOnce, clock, changes, customers, watermark, notices>>

(* The process dies; its lease stays. *)
Crash(p) ==
  /\ pull[p].pc # "idle" /\ Fault
  /\ pull' = [pull EXCEPT ![p] = Idle]
  /\ UNCHANGED <<shop, goneOnce, clock, changes, customers, watermark, lease, notices>>

(* locked_until passes: of a dead holder, or of one that takes too long. *)
Expire ==
  /\ lease # NoLease
  /\ IF pull[lease].pc = "idle" THEN UNCHANGED mirrorFaults ELSE Fault
  /\ lease' = NoLease
  /\ UNCHANGED <<shop, goneOnce, clock, changes, customers, watermark, pull, notices>>

------------------------------------------------------------------------------

PullStep(p) ==
  \/ ReadSince(p) \/ Fetch(p) \/ Save(p) \/ MarkSince(p, "finish") \/ MarkSince(p, "list")
  \/ ListIds(p) \/ CountLocal(p) \/ Reconcile(p) \/ Finish(p)

MirrorNext ==
  \/ TimePasses \/ Expire
  \/ \E c \in Customers : Edit(c) \/ Delete(c)
  \/ \E n \in notices : Lose(n) \/ Deliver(n)
  \/ \E w \in Workers : StartTick(w)
  \/ \E a \in Admins : StartSync(a) \/ \E c \in Customers : StartCreate(a, c)
  \/ \E p \in Pulls : PullStep(p) \/ Abort(p) \/ Crash(p)

MirrorSpec == MirrorInit /\ [][MirrorNext]_mirrorVars

(* Every column has its type. *)
MirrorTypeOK ==
  /\ shop \in [Customers -> Shop] /\ goneOnce \subseteq Customers
  /\ clock \in 0 .. MaxTime /\ changes \in 0 .. MaxChanges /\ mirrorFaults \in 0 .. MaxFaults
  /\ customers \in [Customers -> Row]
  /\ watermark \in Int /\ lease \in Workers \cup {NoLease}
  /\ notices \subseteq Notice
  /\ \A p \in Pulls : pull[p].page \in Page /\ pull[p].listed \subseteq Customers

(* The mirror implements CustomerReplica: rows show versions Shopify has had, only *)
(* customers that were deleted are hidden, and the table comes to be as Shopify is. *)
Copied == [c \in Customers |-> [version |-> customers[c].version,
                                live |-> Shown(c)]]
Original == [c \in Customers |-> [version |-> shop[c].version, live |-> shop[c].live]]
Abstract == INSTANCE CustomerReplica WITH
              original <- Original, deletedOnce <- goneOnce, copy <- Copied
IsReplica == Abstract!Replica
====
