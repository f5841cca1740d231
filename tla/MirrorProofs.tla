---- MODULE MirrorProofs ----
(* CustomerMirror implements the safety of CustomerReplica, for any customers, machines, *)
(* admins, pages, times and faults: every step is a change at Shopify or teaches the      *)
(* table something that is or was true.  Pages and webhooks carry versions Shopify has    *)
(* had; a reconcile hides only customers Shopify has deleted, since whoever is neither    *)
(* listed nor new to the table since the list was begun was deleted before it.            *)
(* Then the exports (DocumentExports): a row that is completed has its ZIP.               *)
EXTENDS CustomerMirror, DocumentExports, TLAPS

Fields == DOMAIN Idle

(* A pull has its fields, whatever they hold. *)
Pull(j) == DOMAIN j = Fields /\ j = [f \in Fields |-> j[f]]

Shaped ==
  /\ shop \in [Customers -> Shop] /\ customers \in [Customers -> Row]
  /\ DOMAIN pull = Pulls /\ pull = [p \in Pulls |-> pull[p]]
  /\ \A p \in Pulls : Pull(pull[p])
  /\ clock \in Nat

(* What Shopify has lives, or was deleted; nothing lives without a version. *)
ShopTells ==
  \A c \in Customers : /\ shop[c].live => shop[c].version > 0
                       /\ shop[c].version > 0 => shop[c].live \/ c \in goneOnce

RowsAreCopies == \A c \in Customers : customers[c].version <= shop[c].version

NoticesAreTrue ==
  \A n \in notices : /\ n.id \in Customers /\ n.version \in 1 .. shop[n.id].version
                     /\ n.stamp \in Nat
                     /\ n.topic = "delete" => n.id \in goneOnce

PagesAreTrue ==
  \A p \in Pulls : \A r \in pull[p].page :
    r.id \in Customers /\ r.version \in 1 .. shop[r.id].version /\ r.stamp \in Nat

(* A row that a reconcile would hide is of a customer that has been deleted. *)
ListsAreTrue ==
  \A p \in Pulls : pull[p].pc \in {"count", "apply"} =>
    \A c \in Customers \ (pull[p].listed \cup pull[p].fresh) :
      customers[c].version > 0 => c \in goneOnce

Inductive ==
  Shaped /\ ShopTells /\ RowsAreCopies /\ NoticesAreTrue /\ PagesAreTrue /\ ListsAreTrue

------------------------------------------------------------------------------
(* Pulls. *)

LEMMA FieldsAre ==
  Fields = {"pc", "kind", "started", "since", "after", "pages", "newest", "page", "fetched",
            "more", "fresh", "listed", "local"}
BY DEF Fields, Idle

LEMMA IdleIs == Pull(Idle) /\ Idle.page = {} /\ Idle.pc = "idle"
BY DEF Pull, Fields, Idle

(* What is true of a pull that does something. *)
PageIsTrue(j) ==
  \A r \in j.page : r.id \in Customers /\ r.version \in 1 .. shop[r.id].version /\ r.stamp \in Nat
ListIsTrue(j) ==
  j.pc \in {"count", "apply"} =>
    \A c \in Customers \ (j.listed \cup j.fresh) : customers[c].version > 0 => c \in goneOnce

LEMMA Shape ==
  ASSUME Inductive
  PROVE  /\ \A c \in Customers : /\ shop[c] \in Shop /\ shop[c].version \in Nat
                                 /\ shop[c].stamp \in Nat /\ shop[c].live \in BOOLEAN
                                 /\ customers[c] \in Row /\ customers[c].version \in Nat
                                 /\ customers[c].version <= shop[c].version
         /\ \A p \in Pulls : Pull(pull[p]) /\ PageIsTrue(pull[p]) /\ ListIsTrue(pull[p])
BY DEF Inductive, Shaped, Shop, Row, RowsAreCopies, PagesAreTrue, ListsAreTrue, PageIsTrue,
  ListIsTrue

LEMMA PullMoves ==
  ASSUME Inductive, NEW p \in Pulls, NEW new, Pull(new), PageIsTrue(new), ListIsTrue(new),
         pull' = [pull EXCEPT ![p] = new],
         UNCHANGED <<shop, goneOnce, clock, customers, notices>>
  PROVE  Inductive'
<1>1. /\ pull'[p] = new /\ \A q \in Pulls \ {p} : pull'[q] = pull[q]
      /\ DOMAIN pull' = Pulls /\ pull' = [q \in Pulls |-> pull'[q]]
  BY DEF Inductive, Shaped
<1>2. Shaped' /\ ShopTells' /\ RowsAreCopies' /\ NoticesAreTrue'
  BY <1>1 DEF Inductive, Shaped, ShopTells, RowsAreCopies, NoticesAreTrue
<1>3. PagesAreTrue'
  BY <1>1 DEF Inductive, PagesAreTrue, PageIsTrue
<1>4. ListsAreTrue'
  BY <1>1 DEF Inductive, ListsAreTrue, ListIsTrue
<1> QED BY <1>2, <1>3, <1>4 DEF Inductive

(* Time, the lease and lost webhooks bring no news. *)
LEMMA CalmMoves ==
  ASSUME Inductive, UNCHANGED <<shop, goneOnce, customers, pull>>, notices' \subseteq notices,
         clock' \in Nat
  PROVE  Inductive'
<1>1. Shaped' /\ ShopTells' /\ RowsAreCopies' /\ NoticesAreTrue'
  BY DEF Inductive, Shaped, ShopTells, RowsAreCopies, NoticesAreTrue
<1>2. PagesAreTrue' /\ ListsAreTrue'
  BY DEF Inductive, PagesAreTrue, ListsAreTrue
<1> QED BY <1>1, <1>2 DEF Inductive

LEMMA BeginMoves ==
  ASSUME Inductive, NEW p \in Pulls, NEW kind, Begin(p, kind),
         UNCHANGED <<shop, goneOnce, clock, customers, notices>>
  PROVE  Inductive'
<1> DEFINE pc == IF kind = "full" THEN "fetch" ELSE "since"
           new == [Idle EXCEPT !.pc = pc, !.kind = kind, !.started = clock]
<1>1. pull' = [pull EXCEPT ![p] = new]
  BY DEF Begin
<1>2. pc \notin {"count", "apply"}
  OBVIOUS
<1> HIDE DEF pc
<1>3. Pull(new) /\ new.page = {} /\ new.pc = pc
  BY FieldsAre, IdleIs DEF Pull
<1> HIDE DEF new
<1> QED BY <1>1, <1>2, <1>3, PullMoves DEF PageIsTrue, ListIsTrue

(* A page holds customers as they are. *)
LEMMA FetchMoves ==
  ASSUME Inductive, NEW p \in Pulls, Fetch(p)
  PROVE  Inductive'
<1> DEFINE cs == FirstPage(p)
           more == cs # Rest(p)
           page == {[id |-> c, version |-> shop[c].version, stamp |-> shop[c].stamp] : c \in cs}
           after == IF cs = {} THEN pull[p].after
                    ELSE CHOOSE t \in {Place(c) : c \in cs} : \A c \in cs : ~Before(t, Place(c))
           newest == Latest(pull[p].newest, cs)
           new == [pull[p] EXCEPT !.pc = "save", !.pages = @ + 1, !.fetched = clock,
                                  !.more = more, !.page = page, !.after = after,
                                  !.newest = newest]
<1>0. /\ pull' = [pull EXCEPT ![p].pc = "save", ![p].pages = @ + 1, ![p].fetched = clock,
                            ![p].more = more, ![p].page = page, ![p].after = after,
                            ![p].newest = newest]
      /\ UNCHANGED <<shop, goneOnce, clock, customers, notices>>
  BY Zenon DEF Fetch
<1>2. \A c \in cs : /\ c \in Customers /\ shop[c].version \in 1 .. shop[c].version
                    /\ shop[c].stamp \in Nat
  <2>1. \A c \in cs : c \in Customers /\ shop[c].live
    BY DEF FirstPage, Rest
  <2> HIDE DEF cs
  <2> QED BY <2>1, Shape DEF Inductive, ShopTells
<1>3. \A r \in page : r.id \in Customers /\ r.version \in 1 .. shop[r.id].version /\ r.stamp \in Nat
  BY <1>2
<1>4. Pull(pull[p])
  BY Shape
<1> HIDE DEF page, after, newest, more
<1>1. pull' = [pull EXCEPT ![p] = new]
  BY <1>0 DEF Inductive, Shaped
<1>5. Pull(new) /\ new.page = page /\ new.pc = "save"
  BY <1>4, FieldsAre DEF Pull
<1> HIDE DEF new
<1> QED BY <1>0, <1>1, <1>3, <1>5, PullMoves DEF PageIsTrue, ListIsTrue

(* Who is not listed lives no more; whose row comes later is noticed. *)
LEMMA ListIdsMoves ==
  ASSUME Inductive, NEW p \in Pulls, ListIds(p)
  PROVE  Inductive'
<1> DEFINE listed == {c \in Customers : shop[c].live}
           new == [pull[p] EXCEPT !.pc = "count", !.listed = listed]
<1>1. Pull(pull[p]) /\ PageIsTrue(pull[p])
  BY Shape
<1>2. pull' = [pull EXCEPT ![p] = new] /\ UNCHANGED <<shop, goneOnce, clock, customers, notices>>
  BY DEF ListIds, Inductive, Shaped
<1>3. \A c \in Customers \ listed : customers[c].version > 0 => c \in goneOnce
  BY Shape DEF Inductive, ShopTells
<1> HIDE DEF listed
<1>4. Pull(new) /\ new.page = pull[p].page /\ new.listed = listed
  BY <1>1, FieldsAre DEF Pull
<1> HIDE DEF new
<1> QED BY <1>1, <1>2, <1>3, <1>4, PullMoves DEF PageIsTrue, ListIsTrue

(* A pull that goes on without news. *)
LEMMA OnMoves ==
  ASSUME Inductive, NEW p \in Pulls,
         ReadSince(p) \/ CountLocal(p) \/ Finish(p) \/ Abort(p) \/ Crash(p)
         \/ MarkSince(p, "finish") \/ MarkSince(p, "list")
  PROVE  Inductive'
<1>1. Pull(pull[p]) /\ PageIsTrue(pull[p]) /\ ListIsTrue(pull[p])
  BY Shape
<1>2. UNCHANGED <<shop, goneOnce, clock, customers, notices>>
  BY DEF ReadSince, CountLocal, Finish, Abort, Crash, MarkSince
<1>3. CASE ReadSince(p)
  <2> DEFINE new == [pull[p] EXCEPT !.pc = "fetch", !.since = watermark]
  <2>1. pull' = [pull EXCEPT ![p] = new]
    BY <1>3 DEF ReadSince, Inductive, Shaped
  <2>2. Pull(new) /\ new.page = pull[p].page /\ new.pc = "fetch"
    BY <1>1, FieldsAre DEF Pull
  <2> HIDE DEF new
  <2> QED BY <1>1, <1>2, <2>1, <2>2, PullMoves DEF PageIsTrue, ListIsTrue
<1>4. CASE CountLocal(p)
  <2> DEFINE local == Cardinality({c \in Customers : Shown(c)})
             new == [pull[p] EXCEPT !.pc = "apply", !.local = local]
  <2>1. pull' = [pull EXCEPT ![p] = new] /\ pull[p].pc = "count"
    BY <1>4 DEF CountLocal, Inductive, Shaped
  <2> HIDE DEF local
  <2>2. /\ Pull(new) /\ new.page = pull[p].page /\ new.pc = "apply"
        /\ new.listed = pull[p].listed /\ new.fresh = pull[p].fresh
    BY <1>1, FieldsAre DEF Pull
  <2> HIDE DEF new
  <2> QED BY <1>1, <1>2, <2>1, <2>2, PullMoves DEF PageIsTrue, ListIsTrue
<1>5. CASE Finish(p) \/ Abort(p) \/ Crash(p)
  <2>1. pull' = [pull EXCEPT ![p] = Idle]
    BY <1>5 DEF Finish, Abort, Crash
  <2> QED BY <1>2, <2>1, IdleIs, PullMoves DEF PageIsTrue, ListIsTrue
<1>6. ASSUME NEW next \in {"finish", "list"}, MarkSince(p, next) PROVE Inductive'
  <2> DEFINE new == [Idle EXCEPT !.kind = pull[p].kind, !.started = clock, !.pc = next]
  <2>1. pull' = [pull EXCEPT ![p] = new]
    BY <1>6 DEF MarkSince
  <2>2. Pull(new) /\ new.page = {} /\ new.pc = next
    BY FieldsAre, IdleIs DEF Pull
  <2> HIDE DEF new
  <2> QED BY <1>2, <2>1, <2>2, PullMoves DEF PageIsTrue, ListIsTrue
<1> QED BY <1>3, <1>4, <1>5, <1>6

------------------------------------------------------------------------------
(* Shopify. *)

(* What was true of a version stays true as Shopify goes on. *)
LEMMA ShopMoves ==
  ASSUME Inductive, shop' \in [Customers -> Shop], ShopTells', goneOnce \subseteq goneOnce',
         \A c \in Customers : shop[c].version <= shop'[c].version,
         NEW n, n.id \in Customers, n.version \in 1 .. shop'[n.id].version, n.stamp \in Nat,
         n.topic = "delete" => n.id \in goneOnce',
         notices' = notices \cup {n},
         UNCHANGED <<clock, customers>>,
         DOMAIN pull' = Pulls, pull' = [q \in Pulls |-> pull'[q]],
         \A q \in Pulls :
           \/ pull'[q] = pull[q]
           \/ /\ Pull(pull'[q]) /\ pull'[q].pc = "save"
              /\ \A r \in pull'[q].page : /\ r.id \in Customers /\ r.stamp \in Nat
                                          /\ r.version \in 1 .. shop'[r.id].version
  PROVE  Inductive'
<1>1. \A c \in Customers : /\ shop[c].version \in Nat /\ shop'[c].version \in Nat
                           /\ customers[c].version \in Nat
  BY Shape DEF Shop
<1>2. Shaped'
  BY DEF Inductive, Shaped
<1>3. RowsAreCopies' /\ NoticesAreTrue'
  BY <1>1 DEF Inductive, RowsAreCopies, NoticesAreTrue
<1>4. PagesAreTrue'
  BY <1>1 DEF Inductive, PagesAreTrue
<1>5. ListsAreTrue'
  BY DEF Inductive, ListsAreTrue
<1> QED BY <1>2, <1>3, <1>4, <1>5 DEF Inductive

LEMMA EditedIs ==
  ASSUME Inductive, NEW c \in Customers, shop' = [shop EXCEPT ![c] = Edited(c)]
  PROVE  /\ shop' \in [Customers -> Shop]
         /\ shop'[c].version = shop[c].version + 1 /\ shop'[c].live /\ clock \in Nat
         /\ \A d \in Customers : shop[d].version <= shop'[d].version
         /\ \A d \in Customers \ {c} : shop'[d] = shop[d]
<1>1. Edited(c) \in Shop /\ Edited(c).version = shop[c].version + 1 /\ Edited(c).live
      /\ clock \in Nat
  BY Shape DEF Edited, Shop, Inductive, Shaped
<1>2. shop' \in [Customers -> Shop] /\ shop'[c] = Edited(c)
      /\ \A d \in Customers \ {c} : shop'[d] = shop[d]
  BY <1>1 DEF Inductive, Shaped
<1> QED BY <1>1, <1>2, Shape

LEMMA EditMoves ==
  ASSUME Inductive, NEW c \in Customers, Edit(c)
  PROVE  Inductive'
<1> DEFINE n == [id |-> c, topic |-> "upsert", version |-> shop'[c].version, stamp |-> clock]
<1>1. /\ shop' = [shop EXCEPT ![c] = Edited(c)] /\ notices' = notices \cup {n}
      /\ UNCHANGED <<goneOnce, clock, customers, pull>>
  BY DEF Edit
<1>2. /\ shop' \in [Customers -> Shop] /\ shop'[c].live
      /\ shop'[c].version = shop[c].version + 1 /\ clock \in Nat /\ shop[c].version \in Nat
      /\ \A d \in Customers : shop[d].version <= shop'[d].version
      /\ \A d \in Customers \ {c} : shop'[d] = shop[d]
  BY <1>1, EditedIs, Shape
<1>3. ShopTells'
  BY <1>1, <1>2 DEF Inductive, ShopTells
<1>4. /\ n.id = c /\ n.version \in 1 .. shop'[n.id].version /\ n.stamp = clock
      /\ n.topic # "delete"
  BY <1>2
<1>5. DOMAIN pull' = Pulls /\ pull' = [q \in Pulls |-> pull'[q]]
      /\ \A q \in Pulls : pull'[q] = pull[q]
  BY <1>1 DEF Inductive, Shaped
<1> HIDE DEF n
<1> QED BY <1>1, <1>2, <1>3, <1>4, <1>5, ShopMoves

LEMMA DeleteMoves ==
  ASSUME Inductive, NEW c \in Customers, Delete(c)
  PROVE  Inductive'
<1> DEFINE n == [id |-> c, topic |-> "delete", version |-> shop[c].version, stamp |-> clock]
<1>1. /\ shop' = [shop EXCEPT ![c].live = FALSE] /\ notices' = notices \cup {n}
      /\ goneOnce' = goneOnce \cup {c} /\ shop[c].live
      /\ UNCHANGED <<clock, customers, pull>>
  BY DEF Delete
<1>2. /\ shop' \in [Customers -> Shop] /\ clock \in Nat
      /\ \A d \in Customers : shop[d].version = shop'[d].version
      /\ \A d \in Customers \ {c} : shop'[d] = shop[d]
      /\ ~shop'[c].live
  BY <1>1, Shape DEF Inductive, Shaped, Shop
<1>3. shop[c].version \in Nat /\ shop[c].version > 0
  BY <1>1, Shape DEF Inductive, ShopTells
<1>4. ShopTells'
  BY <1>1, <1>2 DEF Inductive, ShopTells
<1>5. /\ n.id = c /\ n.version \in 1 .. shop'[n.id].version /\ n.stamp = clock
      /\ n.id \in goneOnce'
  BY <1>1, <1>2, <1>3
<1>6. \A d \in Customers : shop[d].version <= shop'[d].version
  BY <1>2, Shape
<1>7. DOMAIN pull' = Pulls /\ pull' = [q \in Pulls |-> pull'[q]]
      /\ \A q \in Pulls : pull'[q] = pull[q]
  BY <1>1 DEF Inductive, Shaped
<1>8. goneOnce \subseteq goneOnce'
  BY <1>1
<1> HIDE DEF n
<1> QED BY <1>1, <1>2, <1>4, <1>5, <1>6, <1>7, <1>8, ShopMoves

(* The pull that stores what an admin created has it as its page. *)
LEMMA CreateMoves ==
  ASSUME Inductive, NEW a \in Admins, NEW c \in Customers, StartCreate(a, c)
  PROVE  Inductive'
<1> DEFINE n == [id |-> c, topic |-> "upsert", version |-> 1, stamp |-> clock]
           page == {[id |-> c, version |-> 1, stamp |-> clock]}
           new == [Idle EXCEPT !.pc = "save", !.kind = "create", !.page = page,
                               !.fetched = clock]
<1>1. /\ shop' = [shop EXCEPT ![c] = Edited(c)] /\ notices' = notices \cup {n}
      /\ pull' = [pull EXCEPT ![a] = new] /\ shop[c].version = 0
      /\ UNCHANGED <<goneOnce, clock, customers>>
  BY DEF StartCreate
<1>2. /\ shop' \in [Customers -> Shop] /\ shop'[c].live
      /\ shop'[c].version = 1 /\ clock \in Nat
      /\ \A d \in Customers : shop[d].version <= shop'[d].version
      /\ \A d \in Customers \ {c} : shop'[d] = shop[d]
  <2>1. shop' = [shop EXCEPT ![c] = Edited(c)] /\ shop[c].version = 0
    BY <1>1
  <2> HIDE DEF n, page, new
  <2>2. /\ shop' \in [Customers -> Shop] /\ clock \in Nat
        /\ shop'[c].version = shop[c].version + 1 /\ shop'[c].live
        /\ \A d \in Customers : shop[d].version <= shop'[d].version
        /\ \A d \in Customers \ {c} : shop'[d] = shop[d]
    BY <2>1, EditedIs
  <2> QED BY <2>1, <2>2
<1>3. ShopTells'
  BY <1>1, <1>2 DEF Inductive, ShopTells
<1>4. /\ n.id = c /\ n.version \in 1 .. shop'[n.id].version /\ n.stamp = clock
      /\ n.topic # "delete"
  BY <1>2
<1>5. \A r \in page : r.id \in Customers /\ r.stamp \in Nat /\ r.version \in 1 .. shop'[r.id].version
  BY <1>2
<1> HIDE DEF n, page
<1>6. Pull(new) /\ new.page = page /\ new.pc = "save"
  BY FieldsAre, IdleIs DEF Pull
<1> HIDE DEF new
<1>7. DOMAIN pull' = Pulls /\ pull' = [q \in Pulls |-> pull'[q]] /\ pull'[a] = new
      /\ \A q \in Pulls \ {a} : pull'[q] = pull[q]
  BY <1>1 DEF Inductive, Shaped, Pulls
<1>8. goneOnce \subseteq goneOnce' /\ UNCHANGED <<clock, customers>>
  BY <1>1
<1>9. \A q \in Pulls :
        \/ pull'[q] = pull[q]
        \/ /\ Pull(pull'[q]) /\ pull'[q].pc = "save"
           /\ \A r \in pull'[q].page : /\ r.id \in Customers /\ r.stamp \in Nat
                                       /\ r.version \in 1 .. shop'[r.id].version
  BY <1>5, <1>6, <1>7
<1> QED BY <1>1, <1>2, <1>3, <1>4, <1>7, <1>8, <1>9, ShopMoves

------------------------------------------------------------------------------
(* The table. *)

LEMMA NoticedIs ==
  ASSUME Inductive, NEW S
  PROVE  /\ DOMAIN Noticed(S) = Pulls /\ Noticed(S) = [q \in Pulls |-> Noticed(S)[q]]
         /\ \A q \in Pulls :
              /\ Pull(Noticed(S)[q]) /\ Noticed(S)[q].pc = pull[q].pc
              /\ Noticed(S)[q].page = pull[q].page /\ Noticed(S)[q].listed = pull[q].listed
              /\ pull[q].pc \in {"count", "apply"} =>
                   Noticed(S)[q].fresh = pull[q].fresh \cup S
<1>1. DOMAIN Noticed(S) = Pulls /\ Noticed(S) = [q \in Pulls |-> Noticed(S)[q]]
  BY DEF Noticed
<1>2. ASSUME NEW q \in Pulls
      PROVE  /\ Pull(Noticed(S)[q]) /\ Noticed(S)[q].pc = pull[q].pc
             /\ Noticed(S)[q].page = pull[q].page /\ Noticed(S)[q].listed = pull[q].listed
             /\ pull[q].pc \in {"count", "apply"} =>
                  Noticed(S)[q].fresh = pull[q].fresh \cup S
  <2>1. Pull(pull[q])
    BY Shape
  <2> DEFINE more == [pull[q] EXCEPT !.fresh = @ \cup S]
  <2>2. /\ Pull(more) /\ more.pc = pull[q].pc /\ more.page = pull[q].page
        /\ more.listed = pull[q].listed /\ more.fresh = pull[q].fresh \cup S
    BY <2>1, FieldsAre DEF Pull
  <2>3. Noticed(S)[q] = IF pull[q].pc \in {"list", "count", "apply"} THEN more ELSE pull[q]
    BY DEF Noticed
  <2> HIDE DEF more
  <2> QED BY <2>1, <2>2, <2>3
<1> QED BY <1>1, <1>2

(* The table may take over what Shopify had, if running reconciles are told of new rows. *)
LEMMA RowsMove ==
  ASSUME Inductive, customers' \in [Customers -> Row],
         \A c \in Customers : customers'[c].version <= shop[c].version,
         UNCHANGED <<shop, goneOnce, clock>>, notices' \subseteq notices,
         DOMAIN pull' = Pulls, pull' = [q \in Pulls |-> pull'[q]],
         \A q \in Pulls :
           /\ Pull(pull'[q]) /\ pull'[q].page \subseteq pull[q].page
           /\ pull'[q].pc \in {"count", "apply"} =>
                /\ pull'[q].pc = pull[q].pc /\ pull'[q].listed = pull[q].listed
                /\ pull[q].fresh \subseteq pull'[q].fresh
                /\ \A c \in Customers : customers[c].version = 0 /\ customers'[c].version > 0
                                          => c \in pull'[q].fresh
  PROVE  Inductive'
<1>1. Shaped' /\ ShopTells' /\ RowsAreCopies' /\ NoticesAreTrue'
  BY DEF Inductive, Shaped, ShopTells, RowsAreCopies, NoticesAreTrue
<1>2. PagesAreTrue'
  BY DEF Inductive, PagesAreTrue
<1>3. ASSUME NEW q \in Pulls, pull'[q].pc \in {"count", "apply"},
             NEW c \in Customers \ (pull'[q].listed \cup pull'[q].fresh),
             customers'[c].version > 0
      PROVE  c \in goneOnce'
  <2>1. customers[c].version \in Nat /\ customers[c].version # 0
    BY <1>3, Shape
  <2> QED BY <1>3, <2>1 DEF Inductive, ListsAreTrue
<1>4. ListsAreTrue'
  BY <1>3 DEF ListsAreTrue
<1> QED BY <1>1, <1>2, <1>4 DEF Inductive

(* What a webhook makes of a row. *)
LEMMA AppliedIs ==
  ASSUME NEW row \in Row, NEW n, n.version \in Nat, n.version > 0, n.stamp \in Nat
  PROVE  /\ Applied(row, n) \in Row /\ Applied(row, n).version \in {row.version, n.version}
         /\ row.version > 0 => Applied(row, n).version > 0
         /\ row.deletedAt = -1 /\ row.version > 0 =>
              Applied(row, n).deletedAt = -1 \/ n.topic = "delete"
<1>1. /\ row.version \in Nat /\ row.stamp \in Nat /\ row.deletedAt \in Int
      /\ row.byReconcile \in BOOLEAN
      /\ row = [version |-> row.version, stamp |-> row.stamp, deletedAt |-> row.deletedAt,
                byReconcile |-> row.byReconcile]
  BY DEF Row
<1>2. /\ MarkDeleted(row, n) \in Row /\ MarkDeleted(row, n).version = row.version
  <2>1. CASE row.version > 0 /\ row.deletedAt = -1 /\ row.stamp <= n.stamp
    <3>1. MarkDeleted(row, n) = [row EXCEPT !.deletedAt = n.stamp, !.byReconcile = FALSE]
      BY <2>1 DEF MarkDeleted
    <3>2. MarkDeleted(row, n) = [version |-> row.version, stamp |-> row.stamp,
                                 deletedAt |-> n.stamp, byReconcile |-> FALSE]
      BY <1>1, <3>1
    <3> QED BY <1>1, <3>2 DEF Row
  <2>2. CASE ~(row.version > 0 /\ row.deletedAt = -1 /\ row.stamp <= n.stamp)
    BY <2>2 DEF MarkDeleted
  <2> QED BY <2>1, <2>2
<1>3. CASE row.version = 0
  <2>1. UpsertIfNewer(row, n) = [version |-> n.version, stamp |-> n.stamp, deletedAt |-> -1,
                                 byReconcile |-> FALSE]
    BY <1>3 DEF UpsertIfNewer, NoRow
  <2> QED BY <1>1, <1>2, <1>3, <2>1 DEF Applied, Row
<1>4. CASE row.version # 0 /\ row.stamp < n.stamp
  <2> DEFINE deletedAt == IF row.deletedAt < n.stamp THEN -1 ELSE row.deletedAt
  <2>1. UpsertIfNewer(row, n) = [row EXCEPT !.version = n.version, !.stamp = n.stamp,
                                            !.deletedAt = deletedAt]
    BY <1>4 DEF UpsertIfNewer
  <2>2. deletedAt \in Int /\ (row.deletedAt = -1 => deletedAt = -1)
    BY <1>1
  <2> HIDE DEF deletedAt
  <2>3. UpsertIfNewer(row, n) = [version |-> n.version, stamp |-> n.stamp,
                                 deletedAt |-> deletedAt, byReconcile |-> row.byReconcile]
    BY <1>1, <2>1
  <2> QED BY <1>1, <1>2, <2>2, <2>3 DEF Applied, Row
<1>5. CASE row.version # 0 /\ ~(row.stamp < n.stamp)
  <2>1. UpsertIfNewer(row, n) = row
    BY <1>5 DEF UpsertIfNewer
  <2> QED BY <1>1, <1>2, <2>1 DEF Applied
<1> QED BY <1>3, <1>4, <1>5

LEMMA DeliverMoves ==
  ASSUME Inductive, NEW n \in notices, Deliver(n)
  PROVE  Inductive'
<1>1. /\ n.id \in Customers /\ n.version \in 1 .. shop[n.id].version /\ n.stamp \in Nat
      /\ shop[n.id].version \in Nat
  <2>1. n.id \in Customers /\ n.version \in 1 .. shop[n.id].version /\ n.stamp \in Nat
    BY DEF Inductive, NoticesAreTrue
  <2> QED BY <2>1, Shape
<1>2. /\ customers' = [customers EXCEPT ![n.id] = Applied(customers[n.id], n)]
      /\ pull' = IF customers'[n.id].version > 0 THEN Noticed(Inserted({n.id})) ELSE pull
      /\ notices' \subseteq notices /\ UNCHANGED <<shop, goneOnce, clock>>
  BY DEF Deliver
<1>3. /\ Applied(customers[n.id], n) \in Row
      /\ Applied(customers[n.id], n).version \in {customers[n.id].version, n.version}
  BY <1>1, AppliedIs, Shape
<1>4. customers' \in [Customers -> Row] /\ customers'[n.id] = Applied(customers[n.id], n)
      /\ \A c \in Customers \ {n.id} : customers'[c] = customers[c]
  BY <1>1, <1>2, <1>3 DEF Inductive, Shaped
<1>5. \A c \in Customers : customers'[c].version <= shop[c].version
  BY <1>1, <1>3, <1>4, Shape
<1>6. CASE customers'[n.id].version > 0
  <2>1. pull' = Noticed(Inserted({n.id}))
    BY <1>2, <1>6
  <2>2. \A c \in Customers : customers[c].version = 0 /\ customers'[c].version > 0
                              => c \in Inserted({n.id})
    BY <1>4 DEF Inserted
  <2>3. DOMAIN pull' = Pulls /\ pull' = [q \in Pulls |-> pull'[q]]
    BY <2>1, NoticedIs
  <2>4. \A q \in Pulls :
          /\ Pull(pull'[q]) /\ pull'[q].page \subseteq pull[q].page
          /\ pull'[q].pc \in {"count", "apply"} =>
               /\ pull'[q].pc = pull[q].pc /\ pull'[q].listed = pull[q].listed
               /\ pull[q].fresh \subseteq pull'[q].fresh
               /\ Inserted({n.id}) \subseteq pull'[q].fresh
    BY <2>1, NoticedIs
  <2> QED BY <1>2, <1>4, <1>5, <2>2, <2>3, <2>4, RowsMove
<1>7. CASE ~(customers'[n.id].version > 0)
  <2>1. pull' = pull /\ DOMAIN pull' = Pulls /\ pull' = [q \in Pulls |-> pull'[q]]
    BY <1>2, <1>7 DEF Inductive, Shaped
  <2>2. \A c \in Customers : ~(customers[c].version = 0 /\ customers'[c].version > 0)
    BY <1>4, <1>7
  <2>3. \A q \in Pulls : Pull(pull[q])
    BY Shape
  <2> QED BY <1>2, <1>4, <1>5, <2>1, <2>2, <2>3, RowsMove
<1> QED BY <1>6, <1>7

(* What a page makes of a row. *)
LEMMA UpsertedIs ==
  ASSUME Inductive, NEW p \in Pulls
  PROVE  LET rows == Upserted(pull[p].page) IN
         /\ rows \in [Customers -> Row]
         /\ \A c \in Customers :
              /\ rows[c].version <= shop[c].version /\ rows[c].deletedAt = customers[c].deletedAt
              /\ customers[c].version > 0 => rows[c].version > 0
              /\ customers[c].version = 0 /\ rows[c].version > 0
                   => c \in {r.id : r \in pull[p].page}
<1> DEFINE page == pull[p].page
           rows == Upserted(page)
<1>1. \A r \in page : r.id \in Customers /\ r.version \in 1 .. shop[r.id].version /\ r.stamp \in Nat
  BY DEF Inductive, PagesAreTrue
<1>2. ASSUME NEW c \in Customers
      PROVE  /\ rows[c] \in Row
             /\ rows[c].version <= shop[c].version /\ rows[c].deletedAt = customers[c].deletedAt
             /\ customers[c].version > 0 => rows[c].version > 0
             /\ customers[c].version = 0 /\ rows[c].version > 0 => c \in {r.id : r \in page}
  <2>1. /\ customers[c] \in Row /\ customers[c].version \in Nat /\ shop[c].version \in Nat
        /\ customers[c].version <= shop[c].version
    BY Shape
  <2>2. CASE \E r \in page : r.id = c
    <3> DEFINE r == CHOOSE q \in page : q.id = c
    <3>1. r \in page /\ r.id = c
      BY <2>2
    <3>2. rows[c] = [customers[c] EXCEPT !.version = r.version, !.stamp = r.stamp]
      BY <2>2 DEF Upserted
    <3> HIDE DEF page, rows, r
    <3>3. r.version \in 1 .. shop[c].version /\ r.stamp \in Nat /\ c \in {q.id : q \in page}
      BY <1>1, <3>1
    <3>4. rows[c] = [version |-> r.version, stamp |-> r.stamp,
                     deletedAt |-> customers[c].deletedAt,
                     byReconcile |-> customers[c].byReconcile]
      BY <2>1, <3>2 DEF Row
    <3> QED BY <2>1, <3>3, <3>4 DEF Row
  <2>3. CASE ~\E r \in page : r.id = c
    <3>1. rows[c] = customers[c]
      BY <2>3 DEF Upserted
    <3> QED BY <2>1, <3>1
  <2> QED BY <2>2, <2>3
<1>3. rows = [c \in Customers |-> rows[c]] /\ DOMAIN rows = Customers
  BY DEF Upserted
<1> HIDE DEF rows
<1>4. rows \in [Customers -> Row]
  BY <1>2, <1>3
<1> QED BY <1>2, <1>4 DEF rows

LEMMA SaveMoves ==
  ASSUME Inductive, NEW p \in Pulls, Save(p)
  PROVE  Inductive'
<1> DEFINE rows == Upserted(pull[p].page)
           S == Inserted({r.id : r \in pull[p].page})
           pc == IF LastPage(p) THEN AfterPages(p) ELSE "fetch"
<1>1. /\ customers' = rows /\ UNCHANGED <<shop, goneOnce, clock, notices>>
      /\ pull' = [Noticed(S) EXCEPT ![p].pc = pc, ![p].page = {}]
  BY DEF Save
<1>2. pc \notin {"count", "apply"}
  BY DEF AfterPages
<1>3. \A c \in Customers : customers[c].version = 0 /\ rows[c].version > 0 => c \in S
  BY UpsertedIs DEF Inserted
<1>4. rows \in [Customers -> Row] /\ \A c \in Customers : rows[c].version <= shop[c].version
  BY UpsertedIs
<1> HIDE DEF rows, S, pc
<1> DEFINE new == [Noticed(S)[p] EXCEPT !.pc = pc, !.page = {}]
<1>5. Pull(Noticed(S)[p]) /\ DOMAIN Noticed(S) = Pulls /\ Noticed(S) = [q \in Pulls |-> Noticed(S)[q]]
  BY NoticedIs
<1>6. Pull(new) /\ new.pc = pc /\ new.page = {}
  BY <1>5, FieldsAre DEF Pull
<1>7. /\ pull' = [Noticed(S) EXCEPT ![p] = new]
  BY <1>1, <1>5
<1> HIDE DEF new
<1>8. /\ DOMAIN pull' = Pulls /\ pull' = [q \in Pulls |-> pull'[q]] /\ pull'[p] = new
      /\ \A q \in Pulls \ {p} : pull'[q] = Noticed(S)[q]
  BY <1>5, <1>7
<1>9. \A q \in Pulls :
        /\ Pull(pull'[q]) /\ pull'[q].page \subseteq pull[q].page
        /\ pull'[q].pc \in {"count", "apply"} =>
             /\ pull'[q].pc = pull[q].pc /\ pull'[q].listed = pull[q].listed
             /\ pull[q].fresh \subseteq pull'[q].fresh
             /\ S \subseteq pull'[q].fresh
  BY <1>2, <1>6, <1>8, NoticedIs
<1> QED BY <1>1, <1>3, <1>4, <1>8, <1>9, RowsMove

(* What a reconcile makes of a row: it hides whom Shopify has deleted. *)
LEMMA ReconciledIs ==
  ASSUME Inductive, NEW p \in Pulls, pull[p].pc = "apply"
  PROVE  LET rows == Reconciled(p) IN
         /\ rows \in [Customers -> Row]
         /\ \A c \in Customers :
              /\ rows[c].version = customers[c].version
              /\ customers[c].deletedAt = -1 /\ customers[c].version > 0
                   => rows[c].deletedAt = -1 \/ c \in goneOnce
<1> DEFINE rows == Reconciled(p)
<1>1. clock \in Nat
  BY DEF Inductive, Shaped
<1>2. ASSUME NEW c \in Customers
      PROVE  /\ rows[c] \in Row /\ rows[c].version = customers[c].version
             /\ customers[c].deletedAt = -1 /\ customers[c].version > 0
                   => rows[c].deletedAt = -1 \/ c \in goneOnce
  <2>1. customers[c] \in Row
    BY Shape
  <2>2. CASE Shown(c) /\ c \notin pull[p].listed /\ OlderRow(p, c)
    <3>1. rows[c] = [customers[c] EXCEPT !.deletedAt = clock, !.byReconcile = TRUE]
      BY <2>2 DEF Reconciled
    <3> HIDE DEF rows
    <3>2. rows[c] = [version |-> customers[c].version, stamp |-> customers[c].stamp,
                     deletedAt |-> clock, byReconcile |-> TRUE]
      BY <2>1, <3>1 DEF Row
    <3>3. c \in goneOnce
      BY <2>2 DEF Inductive, ListsAreTrue, Shown, OlderRow
    <3> QED BY <1>1, <2>1, <3>2, <3>3 DEF Row
  <2>3. CASE /\ ~(Shown(c) /\ c \notin pull[p].listed /\ OlderRow(p, c))
             /\ customers[c].deletedAt # -1 /\ c \in pull[p].listed /\ OlderMark(p, c)
    <3>1. rows[c] = [customers[c] EXCEPT !.deletedAt = -1, !.byReconcile = FALSE]
      BY <2>3 DEF Reconciled
    <3> HIDE DEF rows
    <3>2. rows[c] = [version |-> customers[c].version, stamp |-> customers[c].stamp,
                     deletedAt |-> -1, byReconcile |-> FALSE]
      BY <2>1, <3>1 DEF Row
    <3> QED BY <2>1, <3>2 DEF Row
  <2>4. CASE /\ ~(Shown(c) /\ c \notin pull[p].listed /\ OlderRow(p, c))
             /\ ~(customers[c].deletedAt # -1 /\ c \in pull[p].listed /\ OlderMark(p, c))
    <3>1. rows[c] = customers[c]
      BY <2>4 DEF Reconciled
    <3> QED BY <2>1, <3>1
  <2> QED BY <2>2, <2>3, <2>4
<1>3. rows = [c \in Customers |-> rows[c]] /\ DOMAIN rows = Customers
  BY DEF Reconciled
<1> HIDE DEF rows
<1>4. rows \in [Customers -> Row]
  BY <1>2, <1>3
<1> QED BY <1>2, <1>4 DEF rows

LEMMA ReconcileMoves ==
  ASSUME Inductive, NEW p \in Pulls, Reconcile(p)
  PROVE  Inductive'
<1> DEFINE S == {c \in Customers : customers'[c].deletedAt # customers[c].deletedAt}
           new == [Idle EXCEPT !.pc = "finish", !.kind = pull[p].kind]
<1>1. /\ UNCHANGED <<shop, goneOnce, clock, notices>>
      /\ pull' = [Noticed(S) EXCEPT ![p] = new]
      /\ customers' = customers \/ customers' = Reconciled(p)
      /\ pull[p].pc = "apply"
  BY DEF Reconcile
<1>2. /\ customers' \in [Customers -> Row]
      /\ \A c \in Customers : customers'[c].version = customers[c].version
  BY <1>1, ReconciledIs DEF Inductive, Shaped
<1>3. \A c \in Customers : customers'[c].version <= shop[c].version
  BY <1>2, Shape
<1>4. \A c \in Customers : ~(customers[c].version = 0 /\ customers'[c].version > 0)
  BY <1>2, Shape
<1> HIDE DEF S
<1>5. Pull(new) /\ new.pc = "finish" /\ new.page = {}
  BY FieldsAre, IdleIs DEF Pull
<1> HIDE DEF new
<1>6. /\ DOMAIN pull' = Pulls /\ pull' = [q \in Pulls |-> pull'[q]] /\ pull'[p] = new
      /\ \A q \in Pulls \ {p} : pull'[q] = Noticed(S)[q]
  BY <1>1, NoticedIs
<1>7. \A q \in Pulls :
        /\ Pull(pull'[q]) /\ pull'[q].page \subseteq pull[q].page
        /\ pull'[q].pc \in {"count", "apply"} =>
             /\ pull'[q].pc = pull[q].pc /\ pull'[q].listed = pull[q].listed
             /\ pull[q].fresh \subseteq pull'[q].fresh
  BY <1>5, <1>6, NoticedIs
<1> QED BY <1>1, <1>2, <1>3, <1>4, <1>6, <1>7, RowsMove

------------------------------------------------------------------------------
(* The invariant. *)

LEMMA InitInductive == MirrorInit => Inductive
<1> SUFFICES ASSUME MirrorInit PROVE Inductive
  OBVIOUS
<1>1. \A c \in Customers :
        /\ shop[c] = [version |-> IF c = 1 THEN 1 ELSE 0, stamp |-> 0, live |-> c = 1]
        /\ customers[c] = [version |-> IF c = 1 THEN 1 ELSE 0, stamp |-> 0, deletedAt |-> -1,
                           byReconcile |-> FALSE]
  BY DEF MirrorInit, NoRow
<1>0. \A c \in Customers :
        /\ shop[c] \in Shop /\ customers[c] \in Row
        /\ shop[c].version = customers[c].version /\ shop[c].version \in {0, 1}
        /\ shop[c].live <=> shop[c].version = 1
  <2>1. ASSUME NEW c \in Customers, c = 1
        PROVE  /\ shop[c] = [version |-> 1, stamp |-> 0, live |-> TRUE]
               /\ customers[c] = [version |-> 1, stamp |-> 0, deletedAt |-> -1,
                                  byReconcile |-> FALSE]
    BY <1>1, <2>1
  <2>2. ASSUME NEW c \in Customers, c # 1
        PROVE  /\ shop[c] = [version |-> 0, stamp |-> 0, live |-> FALSE]
               /\ customers[c] = [version |-> 0, stamp |-> 0, deletedAt |-> -1,
                                  byReconcile |-> FALSE]
    BY <1>1, <2>2
  <2>3. ASSUME NEW c \in Customers
        PROVE  /\ shop[c] \in Shop /\ customers[c] \in Row
               /\ shop[c].version = customers[c].version /\ shop[c].version \in {0, 1}
               /\ shop[c].live <=> shop[c].version = 1
    <3>1. CASE c = 1
      <4>1. shop[c] = [version |-> 1, stamp |-> 0, live |-> TRUE]
        BY <2>1, <3>1
      <4>2. customers[c] = [version |-> 1, stamp |-> 0, deletedAt |-> -1, byReconcile |-> FALSE]
        BY <2>1, <3>1
      <4>3. shop[c] \in Shop /\ shop[c].version = 1 /\ shop[c].live = TRUE
        BY <4>1 DEF Shop
      <4>4. customers[c] \in Row /\ customers[c].version = 1
        BY <4>2 DEF Row
      <4> QED BY <4>3, <4>4
    <3>2. CASE c # 1
      <4>1. shop[c] = [version |-> 0, stamp |-> 0, live |-> FALSE]
        BY <2>2, <3>2
      <4>2. customers[c] = [version |-> 0, stamp |-> 0, deletedAt |-> -1, byReconcile |-> FALSE]
        BY <2>2, <3>2
      <4>3. shop[c] \in Shop /\ shop[c].version = 0 /\ shop[c].live = FALSE
        BY <4>1 DEF Shop
      <4>4. customers[c] \in Row /\ customers[c].version = 0
        BY <4>2 DEF Row
      <4> QED BY <4>3, <4>4
    <3> QED BY <3>1, <3>2
  <2> QED BY <2>3
<1>2. shop \in [Customers -> Shop] /\ customers \in [Customers -> Row]
  <2>1. \A c \in Customers : shop[c] \in Shop /\ customers[c] \in Row
    BY <1>0
  <2>2. shop = [c \in Customers |-> shop[c]] /\ customers = [c \in Customers |-> customers[c]]
    BY DEF MirrorInit
  <2> QED BY <2>1, <2>2
<1>3. /\ DOMAIN pull = Pulls /\ pull = [p \in Pulls |-> pull[p]] /\ clock \in Nat
      /\ \A p \in Pulls : pull[p] = Idle
  BY DEF MirrorInit
<1>4. Shaped
  BY <1>2, <1>3, IdleIs DEF Shaped
<1>5. ShopTells /\ RowsAreCopies
  BY <1>0 DEF ShopTells, RowsAreCopies
<1>6. NoticesAreTrue
  BY DEF MirrorInit, NoticesAreTrue
<1>7. PagesAreTrue /\ ListsAreTrue
  BY <1>3, IdleIs DEF PagesAreTrue, ListsAreTrue
<1> QED BY <1>4, <1>5, <1>6, <1>7 DEF Inductive

LEMMA StepsInductive == Inductive /\ [MirrorNext]_mirrorVars => Inductive'
<1> SUFFICES ASSUME Inductive, [MirrorNext]_mirrorVars PROVE Inductive'
  OBVIOUS
<1>1. CASE TimePasses
  <2>1. clock' \in Nat
    BY <1>1 DEF TimePasses, Inductive, Shaped
  <2> QED BY <1>1, <2>1, CalmMoves DEF TimePasses
<1>2. CASE Expire \/ \E n \in notices : Lose(n)
  <2>1. UNCHANGED <<shop, goneOnce, customers, pull, clock>> /\ notices' \subseteq notices
    BY <1>2 DEF Expire, Lose
  <2>2. clock' \in Nat
    BY <2>1 DEF Inductive, Shaped
  <2> QED BY <2>1, <2>2, CalmMoves
<1>3. CASE \E c \in Customers : Edit(c) \/ Delete(c)
  BY <1>3, EditMoves, DeleteMoves
<1>4. CASE \E n \in notices : Deliver(n)
  BY <1>4, DeliverMoves
<1>5. CASE \E w \in Workers : StartTick(w)
  <2>1. PICK w \in Workers : StartTick(w)
    BY <1>5
  <2>2. w \in Pulls /\ Begin(w, "tick") /\ UNCHANGED <<shop, goneOnce, clock, customers, notices>>
    BY <2>1 DEF StartTick, Pulls
  <2> QED BY <2>2, BeginMoves
<1>6. CASE \E a \in Admins : StartSync(a)
  <2>1. PICK a \in Admins : StartSync(a)
    BY <1>6
  <2>2. PICK kind \in {"sync", "full"} : Begin(a, kind)
    BY <2>1 DEF StartSync
  <2>3. a \in Pulls /\ UNCHANGED <<shop, goneOnce, clock, customers, notices>>
    BY <2>1 DEF StartSync, Pulls
  <2> QED BY <2>2, <2>3, BeginMoves
<1>7. CASE \E a \in Admins, c \in Customers : StartCreate(a, c)
  BY <1>7, CreateMoves
<1>8. CASE \E p \in Pulls : PullStep(p) \/ Abort(p) \/ Crash(p)
  BY <1>8, FetchMoves, ListIdsMoves, OnMoves, SaveMoves, ReconcileMoves DEF PullStep
<1>9. CASE UNCHANGED mirrorVars
  <2>1. UNCHANGED <<shop, goneOnce, customers, pull, clock, notices>>
    BY <1>9 DEF mirrorVars
  <2>2. clock' \in Nat
    BY <2>1 DEF Inductive, Shaped
  <2> QED BY <2>1, <2>2, CalmMoves
<1> QED BY <1>1, <1>2, <1>3, <1>4, <1>5, <1>6, <1>7, <1>8, <1>9 DEF MirrorNext

------------------------------------------------------------------------------
(* The refinement. *)

(* Steps that teach the table something. *)
LEMMA Learns ==
  ASSUME Inductive, Inductive', UNCHANGED <<shop, goneOnce>>,
         \A c \in Customers :
           Shown(c) => \/ customers'[c].version > 0 /\ customers'[c].deletedAt = -1
                       \/ c \in goneOnce
  PROVE  Abstract!Learn
<1>1. UNCHANGED <<Original, goneOnce>>
  BY DEF Original
<1>2. \A c \in Customers :
        /\ Copied'[c].version = customers'[c].version
        /\ Copied'[c].live = (customers'[c].version > 0 /\ customers'[c].deletedAt = -1)
        /\ Copied[c].live = Shown(c)
        /\ Original[c].version = shop[c].version
  BY DEF Copied, Original, Shown
<1>3. \A c \in Customers : customers'[c].version \in 0 .. shop[c].version
  <2>1. customers' \in [Customers -> Row] /\ \A c \in Customers : customers'[c].version <= shop'[c].version
    BY DEF Inductive, Shaped, RowsAreCopies
  <2>2. \A c \in Customers : customers'[c].version \in Nat /\ shop'[c] = shop[c]
    BY <2>1 DEF Row
  <2> QED BY <2>1, <2>2, Shape
<1> QED BY <1>1, <1>2, <1>3 DEF Abstract!Learn

(* Steps that change Shopify. *)
LEMMA Changes ==
  ASSUME Inductive, NEW c \in Customers, Edit(c) \/ Delete(c) \/ \E a \in Admins : StartCreate(a, c)
  PROVE  Abstract!Change(c) /\ UNCHANGED Copied
<1>1. UNCHANGED Copied
  <2>1. UNCHANGED customers
    BY DEF Edit, Delete, StartCreate
  <2> QED BY <2>1 DEF Copied, Shown
<1>2. Original' = [d \in Customers |-> [version |-> shop'[d].version, live |-> shop'[d].live]]
  BY DEF Original
<1>3. CASE Edit(c) \/ \E a \in Admins : StartCreate(a, c)
  <2>1. shop' = [shop EXCEPT ![c] = Edited(c)] /\ UNCHANGED goneOnce
    BY <1>3 DEF Edit, StartCreate
  <2>2. /\ shop'[c].version = shop[c].version + 1 /\ shop'[c] = Edited(c)
        /\ \A d \in Customers \ {c} : shop'[d] = shop[d]
    BY <2>1, EditedIs DEF Inductive, Shaped
  <2>3. shop'[c].live = TRUE
    BY <2>2 DEF Edited
  <2>4. Original' = [Original EXCEPT ![c] = [version |-> shop[c].version + 1, live |-> TRUE]]
    BY <1>2, <2>2, <2>3 DEF Original
  <2>5. Original[c].version = shop[c].version
    BY DEF Original
  <2> QED BY <1>1, <2>1, <2>4, <2>5 DEF Abstract!Change
<1>4. CASE Delete(c)
  <2>1. shop' = [shop EXCEPT ![c].live = FALSE] /\ goneOnce' = goneOnce \cup {c} /\ shop[c].live
    BY <1>4 DEF Delete
  <2>2. /\ shop'[c].version = shop[c].version /\ shop'[c].live = FALSE
        /\ \A d \in Customers \ {c} : shop'[d] = shop[d]
    BY <2>1, Shape DEF Inductive, Shaped, Shop
  <2>3. Original' = [Original EXCEPT ![c] = [version |-> shop[c].version, live |-> FALSE]]
    BY <1>2, <2>2 DEF Original
  <2>4. Original[c].version = shop[c].version /\ Original[c].live = shop[c].live
    BY DEF Original
  <2> QED BY <1>1, <2>1, <2>3, <2>4 DEF Abstract!Change
<1> QED BY <1>1, <1>3, <1>4

LEMMA Teaches ==
  ASSUME Inductive, Inductive',
         \/ \E n \in notices : Deliver(n)
         \/ \E p \in Pulls : Save(p) \/ Reconcile(p)
  PROVE  Abstract!Learn
<1>1. ASSUME NEW n \in notices, Deliver(n) PROVE Abstract!Learn
  <2>1. /\ n.id \in Customers /\ n.version \in 1 .. shop[n.id].version /\ n.stamp \in Nat
        /\ n.topic = "delete" => n.id \in goneOnce
    BY DEF Inductive, NoticesAreTrue
  <2>2. customers' = [customers EXCEPT ![n.id] = Applied(customers[n.id], n)]
        /\ UNCHANGED <<shop, goneOnce>>
    BY <1>1 DEF Deliver
  <2>3. n.version \in Nat /\ n.version > 0 /\ customers[n.id] \in Row
    BY <2>1, Shape
  <2>4. /\ customers'[n.id] = Applied(customers[n.id], n)
        /\ \A c \in Customers \ {n.id} : customers'[c] = customers[c]
    BY <2>1, <2>2 DEF Inductive, Shaped
  <2>5. Shown(n.id) => \/ customers'[n.id].version > 0 /\ customers'[n.id].deletedAt = -1
                       \/ n.id \in goneOnce
    BY <2>1, <2>3, <2>4, AppliedIs DEF Shown
  <2>6. \A c \in Customers :
          Shown(c) => \/ customers'[c].version > 0 /\ customers'[c].deletedAt = -1
                      \/ c \in goneOnce
    BY <2>4, <2>5 DEF Shown
  <2> QED BY <2>2, <2>6, Learns
<1>2. ASSUME NEW p \in Pulls, Save(p) PROVE Abstract!Learn
  <2>1. customers' = Upserted(pull[p].page) /\ UNCHANGED <<shop, goneOnce>>
    BY <1>2 DEF Save
  <2>2. \A c \in Customers :
          Shown(c) => customers'[c].version > 0 /\ customers'[c].deletedAt = -1
    BY <2>1, UpsertedIs DEF Shown
  <2> QED BY <2>1, <2>2, Learns
<1>3. ASSUME NEW p \in Pulls, Reconcile(p) PROVE Abstract!Learn
  <2>1. /\ customers' = customers \/ customers' = Reconciled(p)
        /\ pull[p].pc = "apply" /\ UNCHANGED <<shop, goneOnce>>
    BY <1>3 DEF Reconcile
  <2>2. \A c \in Customers :
          Shown(c) => \/ customers'[c].version > 0 /\ customers'[c].deletedAt = -1
                      \/ c \in goneOnce
    BY <2>1, ReconciledIs DEF Shown
  <2> QED BY <2>1, <2>2, Learns
<1> QED BY <1>1, <1>2, <1>3

LEMMA StepsRefine ==
  ASSUME Inductive, Inductive', [MirrorNext]_mirrorVars
  PROVE  [Abstract!ReplicaNext]_(Abstract!replicaVars)
<1>1. CASE UNCHANGED <<shop, goneOnce, customers>>
  <2>1. UNCHANGED <<Original, goneOnce, Copied>>
    BY <1>1 DEF Original, Copied, Shown
  <2> QED BY <2>1 DEF Abstract!replicaVars
<1>2. CASE \E c \in Customers : Edit(c) \/ Delete(c)
  BY <1>2, Changes DEF Abstract!ReplicaNext
<1>3. CASE \E a \in Admins, c \in Customers : StartCreate(a, c)
  BY <1>3, Changes DEF Abstract!ReplicaNext
<1>4. CASE \/ \E n \in notices : Deliver(n)
           \/ \E p \in Pulls : Save(p) \/ Reconcile(p)
  BY <1>4, Teaches DEF Abstract!ReplicaNext
<1>5. CASE \/ TimePasses \/ Expire \/ UNCHANGED mirrorVars
           \/ \E n \in notices : Lose(n)
           \/ \E w \in Workers : StartTick(w)
           \/ \E a \in Admins : StartSync(a)
  BY <1>1, <1>5 DEF TimePasses, Expire, mirrorVars, Lose, StartTick, StartSync
<1>6. ASSUME NEW p \in Pulls,
             \/ ReadSince(p) \/ Fetch(p) \/ MarkSince(p, "finish") \/ MarkSince(p, "list")
             \/ ListIds(p) \/ CountLocal(p) \/ Finish(p) \/ Abort(p) \/ Crash(p)
      PROVE  UNCHANGED <<shop, goneOnce, customers>>
  BY <1>6 DEF ReadSince, Fetch, MarkSince, ListIds, CountLocal, Finish, Abort, Crash
<1> QED BY <1>1, <1>2, <1>3, <1>4, <1>5, <1>6 DEF MirrorNext, PullStep

(* The table never shows a version of a customer Shopify has not had, nor hides one that *)
(* Shopify never deleted, whatever webhooks are lost, late or repeated, whichever pulls  *)
(* and reconciles overlap, and wherever one of them fails or dies: every behaviour of    *)
(* the mirror is one of the replica's, but for what the replica owes in the end.         *)
THEOREM Implements == MirrorSpec => Abstract!ReplicaSafety
<1>1. Inductive => \A c \in Customers : Copied[c].version <= Original[c].version
  BY Shape DEF Copied, Original
<1>2. Inductive /\ Inductive' /\ [MirrorNext]_mirrorVars
      => [Abstract!ReplicaNext]_(Abstract!replicaVars)
  BY StepsRefine
<1> QED BY <1>1, <1>2, InitInductive, StepsInductive, PTL DEF MirrorSpec, Abstract!ReplicaSafety

-----------------------------------------------------------------------------
\* The exports (DocumentExports): the types, what the job of a process, a row and a pass
\* of the retention know of the ZIPs, and the invariant they make.
ExportRow == [status : Statuses, owner : Owners \cup {"nobody"}, fresh : BOOLEAN]
ZipJob == [pc : {"idle", "build", "mark", "delete", "fail", "hung"},
           x : Exports \cup {"none"}, copies : Nat, reading : 0 .. 2]
RetentionJob == [pc : {"idle", "next", "expire"}, listed : SUBSET Exports,
                 x : Exports \cup {"none"}]

ExportTypes ==
  /\ exportRow \in [Exports -> ExportRow]
  /\ zips \subseteq Exports /\ creating \subseteq Exports /\ alive \subseteq Owners
  /\ waiting \in [Owners -> Seq(Exports)]
  /\ zipJob \in [Owners -> ZipJob]
  /\ retention \in [Passes -> RetentionJob]
  /\ stranded \subseteq Exports /\ leaked \subseteq Exports
  /\ exportFaults \in 0 .. MaxExportFaults

\* A job is its owner's, and knows where its export and the ZIP are.
JobFits(o) ==
  LET j == zipJob[o]
      status == exportRow[j.x].status IN
  /\ j.pc = "idle" => j.x = "none"
  /\ j.pc # "idle" => j.x \in Exports /\ exportRow[j.x].owner = o
  /\ j.pc = "build" => status \in {"running", "failed"} /\ (j.x \in zips => j.x \in leaked)
  /\ j.pc = "mark" => status \in {"running", "failed"} /\ j.x \in zips
  /\ j.pc = "delete" => status = "failed"
  /\ j.pc = "hung" => status \in {"running", "failed"}
  /\ j.pc = "fail" => /\ status \in {"running", "failed", "ready", "past", "expired"}
                      /\ j.x \in zips => status \in {"ready", "past"} \/ j.x \in leaked

RowFits(x) ==
  LET status == exportRow[x].status IN
  /\ status \in {"none", "queued"} => x \notin zips
  /\ status = "ready" => x \in zips
  /\ x \in zips => status \in {"ready", "past"} \/ InHand(x) \/ x \in leaked

\* The retention works on what has been ready, and marks only what it has deleted.
RetentionFits(p) ==
  /\ \A x \in retention[p].listed : exportRow[x].status \in {"past", "expired"}
  /\ retention[p].pc = "expire" =>
       /\ retention[p].x \in Exports /\ retention[p].x \notin zips
       /\ exportRow[retention[p].x].status \in {"past", "expired"}

ExportsFit ==
  /\ \A o \in Owners : JobFits(o)
  /\ \A x \in Exports : RowFits(x)
  /\ \A p \in Passes : RetentionFits(p)

ExportsInv == ExportTypes /\ ExportsFit

-----------------------------------------------------------------------------
LEMMA InitExports == ExportsInit => ExportsInv
<1> SUFFICES ASSUME ExportsInit PROVE ExportsInv
  OBVIOUS
<1>1. ExportTypes
  BY ExportsAssumption
  DEF ExportsInit, ExportTypes, ExportRow, ZipJob, RetentionJob, NoExport, NoJob, NoRetention, Statuses
<1>2. ExportsFit
  BY DEF ExportsInit, ExportsFit, JobFits, RowFits, RetentionFits, NoExport, NoJob, NoRetention
<1> QED BY <1>1, <1>2 DEF ExportsInv

LEMMA ExportFaultIs ==
  ASSUME ExportTypes, ExportFault
  PROVE  exportFaults' \in 0 .. MaxExportFaults
BY ExportsAssumption DEF ExportFault, ExportTypes

\* The ways of a row that leave its ZIP alone.
Advances(s, t) ==
  \/ t = s
  \/ s = "none" /\ t = "queued"
  \/ s \in Unfinished /\ t = "failed"
  \/ s = "ready" /\ t = "past"

LEMMA RowsAdvance ==
  ASSUME ExportsInv, exportRow' \in [Exports -> ExportRow],
         \A x \in Exports : /\ Advances(exportRow[x].status, exportRow'[x].status)
                            /\ exportRow[x].status # "none" => exportRow'[x].owner = exportRow[x].owner,
         UNCHANGED <<zips, zipJob, retention, leaked>>
  PROVE  ExportsFit'
<1>1. ASSUME NEW o \in Owners PROVE JobFits(o)'
  <2> DEFINE x == zipJob[o].x
  <2>1. JobFits(o) /\ zipJob'[o] = zipJob[o]
    BY DEF ExportsInv, ExportsFit
  <2>2. zipJob[o].pc # "idle" =>
          /\ x \in Exports /\ Advances(exportRow[x].status, exportRow'[x].status)
          /\ exportRow[x].status # "none" => exportRow'[x].owner = exportRow[x].owner
    BY <2>1 DEF JobFits
  <2>3. zipJob[o].pc \in {"idle", "build", "mark", "delete", "fail", "hung"}
    BY DEF ExportsInv, ExportTypes, ZipJob
  <2> QED BY <2>1, <2>2, <2>3 DEF JobFits, Advances, Unfinished
<1>2. ASSUME NEW x \in Exports PROVE RowFits(x)'
  BY DEF ExportsInv, ExportTypes, ExportsFit, RowFits, InHand, Advances, Unfinished
<1>3. ASSUME NEW p \in Passes PROVE RetentionFits(p)'
  <2>1. RetentionFits(p) /\ retention[p].listed \subseteq Exports
    BY DEF ExportsInv, ExportTypes, RetentionJob, ExportsFit
  <2>2. \A x \in Exports : exportRow[x].status \in {"past", "expired"} =>
          exportRow'[x].status \in {"past", "expired"}
    BY DEF Advances, Unfinished
  <2> QED BY <2>1, <2>2 DEF RetentionFits
<1> QED BY <1>1, <1>2, <1>3 DEF ExportsFit

\* A job changes the row and the ZIP of its own export only, and no other job has it.
LEMMA JobAdvances ==
  ASSUME ExportsInv, NEW o \in Owners, NEW x \in Exports, exportRow[x].owner = o,
         exportRow[x].status # "none",
         NEW j \in ZipJob, zipJob' = [zipJob EXCEPT ![o] = j],
         zipJob[o].x \in {x, "none"},
         exportRow' \in [Exports -> ExportRow],
         \A y \in Exports \ {x} : exportRow'[y] = exportRow[y] /\ (y \in zips' <=> y \in zips),
         exportRow'[x].owner = o,
         exportRow[x].status \in {"past", "expired"} =>
           exportRow'[x].status = exportRow[x].status /\ (x \in zips' => x \in zips),
         leaked \subseteq leaked', UNCHANGED retention,
         JobFits(o)', RowFits(x)'
  PROVE  ExportsFit'
<1>1. ASSUME NEW u \in Owners PROVE JobFits(u)'
  <2>1. CASE u # o
    <3>1. zipJob'[u] = zipJob[u] /\ JobFits(u)
      BY <2>1 DEF ExportsInv, ExportTypes, ExportsFit
    <3>2. zipJob[u].pc # "idle" => zipJob[u].x \in Exports \ {x}
      BY <2>1, <3>1 DEF JobFits
    <3> QED BY <3>1, <3>2 DEF JobFits
  <2> QED BY <2>1
<1>2. ASSUME NEW y \in Exports PROVE RowFits(y)'
  <2>1. CASE y # x
    <3>1. InHand(y) => InHand(y)'
      BY <2>1, ExportsAssumption DEF ExportsInv, ExportTypes, InHand
    <3> QED BY <2>1, <3>1 DEF ExportsInv, ExportsFit, RowFits
  <2> QED BY <2>1
<1>3. ASSUME NEW p \in Passes PROVE RetentionFits(p)'
  <2>1. RetentionFits(p) /\ retention[p].listed \subseteq Exports
    BY DEF ExportsInv, ExportTypes, RetentionJob, ExportsFit
  <2>2. \A y \in Exports : exportRow[y].status \in {"past", "expired"} =>
          exportRow'[y].status \in {"past", "expired"} /\ (y \in zips' => y \in zips)
    OBVIOUS
  <2> QED BY <2>1, <2>2 DEF RetentionFits
<1> QED BY <1>1, <1>2, <1>3 DEF ExportsFit

\* Nothing that the ZIPs depend on changes.
LEMMA ExportsRest ==
  ASSUME ExportsInv, UNCHANGED <<exportRow, zips, zipJob, retention, leaked>>
  PROVE  ExportsFit'
BY RowsAdvance DEF ExportsInv, ExportTypes, Advances

LEMMA CreateFits ==
  ASSUME ExportsInv, NEW o \in Owners, NEW x \in Exports, Create(o, x)
  PROVE  ExportsInv'
<1>1. ExportTypes'
  BY ExportFaultIs DEF Create, ExportsInv, ExportTypes, ExportRow, Statuses, Unfinished
<1>2. ExportsFit'
  BY <1>1, RowsAdvance DEF Create, ExportsInv, ExportTypes, ExportRow, Advances
<1> QED BY <1>1, <1>2 DEF ExportsInv

LEMMA EnqueueFits ==
  ASSUME ExportsInv, NEW x \in Exports, Enqueue(x)
  PROVE  ExportsInv'
<1> PICK u : u = exportRow[x].owner
  OBVIOUS
<1>1. /\ waiting' = [waiting EXCEPT ![u] = Append(waiting[u], x)] /\ creating' \subseteq creating
      /\ UNCHANGED <<exportRow, zips, alive, zipJob, retention, stranded, leaked, exportFaults>>
  BY DEF Enqueue, history
<1>2. waiting' \in [Owners -> Seq(Exports)]
  <2>1. CASE u \in Owners
    <3>1. waiting[u] \in Seq(Exports)
      BY <2>1 DEF ExportsInv, ExportTypes
    <3>2. Append(waiting[u], x) \in Seq(Exports)
      BY <3>1
    <3> QED BY <1>1, <2>1, <3>2 DEF ExportsInv, ExportTypes
  <2>2. CASE u \notin Owners
    BY <1>1, <2>2 DEF ExportsInv, ExportTypes
  <2> QED BY <2>1, <2>2
<1>3. ExportTypes'
  BY <1>1, <1>2 DEF ExportsInv, ExportTypes
<1>4. ExportsFit'
  BY <1>1, ExportsRest
<1> QED BY <1>3, <1>4 DEF ExportsInv

LEMMA JobOver == NoJob \in ZipJob /\ NoJob.pc = "idle" /\ NoJob.x = "none"
BY DEF NoJob, ZipJob

LEMMA ClaimFits ==
  ASSUME ExportsInv, NEW o \in Owners, Claim(o)
  PROVE  ExportsInv'
<1>1. /\ waiting[o] \in Seq(Exports) /\ waiting[o] # <<>> /\ zipJob[o].pc = "idle"
      /\ waiting' = [waiting EXCEPT ![o] = Tail(waiting[o])]
      /\ UNCHANGED <<zips, alive, creating, retention, leaked>>
  BY DEF Claim, ExportsInv, ExportTypes
<1>2. Head(waiting[o]) \in Exports /\ Tail(waiting[o]) \in Seq(Exports)
  BY <1>1
<1> PICK x \in Exports : x = Head(waiting[o])
  BY <1>2
<1>3. waiting' \in [Owners -> Seq(Exports)]
  BY <1>1, <1>2 DEF ExportsInv, ExportTypes
<1>4. CASE Movable(x, {"queued"}, o)
           /\ exportRow' = [exportRow EXCEPT ![x].status = "running", ![x].fresh = TRUE]
           /\ ToJob(o, [NoJob EXCEPT !.pc = "build", !.x = x]) /\ UNCHANGED <<stranded, exportFaults>>
  <2> PICK k : k = NoJob
    OBVIOUS
  <2> PICK j : j = [k EXCEPT !.pc = "build", !.x = x]
    OBVIOUS
  <2>1. j \in ZipJob /\ j.pc = "build" /\ j.x = x
    BY JobOver DEF ZipJob
  <2>2. zipJob' = [zipJob EXCEPT ![o] = j]
    BY <1>4 DEF ToJob
  <2>3. /\ exportRow' \in [Exports -> ExportRow] /\ exportRow[x].status = "queued" /\ exportRow[x].owner = o
        /\ exportRow'[x].status = "running" /\ exportRow'[x].owner = o
        /\ \A y \in Exports \ {x} : exportRow'[y] = exportRow[y]
    BY <1>4 DEF Movable, ExportsInv, ExportTypes, ExportRow, Statuses, Unfinished
  <2>4. zipJob'[o] = j /\ zipJob[o].x = "none" /\ x \notin zips
    BY <1>1, <2>2, <2>3 DEF ExportsInv, ExportTypes, ExportsFit, JobFits, RowFits
  <2>5. JobFits(o)' /\ RowFits(x)'
    BY <1>1, <2>1, <2>3, <2>4 DEF JobFits, RowFits
  <2>6. ExportsFit'
    BY <1>1, <2>1, <2>2, <2>3, <2>4, <2>5, JobAdvances
  <2>7. ExportTypes'
    BY <1>1, <1>3, <1>4, <2>1, <2>2, <2>3 DEF ExportsInv, ExportTypes
  <2> QED BY <2>6, <2>7 DEF ExportsInv
<1>5. CASE UNCHANGED <<exportRow, zipJob>>
           /\ (UNCHANGED <<stranded, exportFaults>> \/ (ExportFault /\ stranded' = stranded \cup {x}))
  <2>1. exportFaults' \in 0 .. MaxExportFaults /\ stranded' \subseteq Exports
    BY <1>5, ExportFaultIs DEF ExportsInv, ExportTypes
  <2>2. ExportTypes'
    BY <1>1, <1>3, <1>5, <2>1 DEF ExportsInv, ExportTypes
  <2>3. ExportsFit'
    BY <1>1, <1>5, ExportsRest
  <2> QED BY <2>2, <2>3 DEF ExportsInv
<1>6. QED
  BY <1>4, <1>5 DEF Claim

\* A job at work, and its export.
LEMMA AtWork ==
  ASSUME ExportsInv, NEW o \in Owners, zipJob[o].pc # "idle"
  PROVE  /\ zipJob[o].x \in Exports /\ exportRow[zipJob[o].x].owner = o /\ JobFits(o)
         /\ exportRow[zipJob[o].x].status \notin {"none", "queued"} /\ RowFits(zipJob[o].x)
         /\ zipJob[o] \in ZipJob /\ exportRow[zipJob[o].x] \in ExportRow
<1>1. zipJob[o] \in ZipJob /\ JobFits(o)
  BY DEF ExportsInv, ExportTypes, ExportsFit
<1>2. zipJob[o].x \in Exports /\ exportRow[zipJob[o].x].owner = o
  BY <1>1 DEF JobFits
<1>3. exportRow[zipJob[o].x].status \notin {"none", "queued"}
  BY <1>1, <1>2 DEF JobFits, ZipJob
<1> QED BY <1>1, <1>2, <1>3 DEF ExportsInv, ExportTypes, ExportsFit

\* The job moves on with its own export in hand, or ends.
LEMMA JobMoves ==
  ASSUME ExportsInv, NEW o \in Owners, zipJob[o].pc # "idle", NEW x, x = zipJob[o].x,
         NEW j \in ZipJob, zipJob' = [zipJob EXCEPT ![o] = j],
         exportRow' \in [Exports -> ExportRow],
         \A y \in Exports \ {x} : exportRow'[y] = exportRow[y] /\ (y \in zips' <=> y \in zips),
         exportRow'[x].owner = exportRow[x].owner,
         exportRow[x].status \in {"past", "expired"} =>
           exportRow'[x].status = exportRow[x].status /\ (x \in zips' => x \in zips),
         zips' \subseteq zips \cup {x}, exportFaults' \in 0 .. MaxExportFaults,
         stranded' \in {stranded, stranded \cup {x}}, leaked' \in {leaked, leaked \cup {x}},
         UNCHANGED <<alive, creating, waiting, retention>>,
         JobFits(o)', RowFits(x)'
  PROVE  ExportsInv'
<1>1. /\ x \in Exports /\ exportRow[x].owner = o /\ exportRow[x].status # "none"
      /\ zipJob[o].x \in {x, "none"} /\ leaked \subseteq leaked'
  BY AtWork
<1>2. ExportsFit'
  BY <1>1, JobAdvances
<1>3. zips' \subseteq Exports /\ stranded' \subseteq Exports /\ leaked' \subseteq Exports
  BY <1>1 DEF ExportsInv, ExportTypes
<1>4. ExportTypes'
  BY <1>3 DEF ExportsInv, ExportTypes
<1> QED BY <1>2, <1>4 DEF ExportsInv

LEMMA JobAt ==
  ASSUME ExportsInv, NEW o \in Owners, NEW pc \in {"mark", "delete", "fail", "hung"}
  PROVE  At(o, pc) \in ZipJob /\ At(o, pc).pc = pc /\ At(o, pc).x = zipJob[o].x
<1>1. zipJob[o] \in ZipJob
  BY DEF ExportsInv, ExportTypes
<1> QED BY <1>1 DEF At, ZipJob

\* The copies are read and written, and the upload is completed or fails.
LEMMA CopiesFit ==
  ASSUME ExportsInv, NEW o \in Owners, OpenCopy(o) \/ WriteCopy(o)
  PROVE  ExportsInv'
<1>1. zipJob[o].pc = "build" /\ UNCHANGED <<exportRow, zips, alive, creating, waiting, retention,
                                            stranded, leaked, exportFaults>>
  BY DEF OpenCopy, WriteCopy, history
<1>2. PICK j \in ZipJob : /\ zipJob' = [zipJob EXCEPT ![o] = j]
                          /\ j.pc = "build" /\ j.x = zipJob[o].x
  <2>1. zipJob[o] \in ZipJob
    BY DEF ExportsInv, ExportTypes
  <2>2. CASE OpenCopy(o)
    <3> PICK j : j = [zipJob[o] EXCEPT !.reading = @ + 1]
      OBVIOUS
    <3>1. j \in ZipJob /\ j.pc = "build" /\ j.x = zipJob[o].x
      BY <1>1, <2>1, <2>2 DEF OpenCopy, ZipJob
    <3>2. zipJob' = [zipJob EXCEPT ![o] = j]
      BY <2>2 DEF OpenCopy, ToJob
    <3> QED BY <3>1, <3>2
  <2>3. CASE WriteCopy(o)
    <3> PICK k, c, d : k = zipJob[o] /\ c = k.reading - 1 /\ d = k.copies + 1
      OBVIOUS
    <3> PICK j : j = [k EXCEPT !.reading = c, !.copies = d]
      OBVIOUS
    <3>1. k \in ZipJob /\ c \in 0 .. 2 /\ d \in Nat
      BY <2>1, <2>3 DEF WriteCopy, ZipJob
    <3>2. j \in ZipJob /\ j.pc = "build" /\ j.x = zipJob[o].x
      BY <1>1, <3>1 DEF ZipJob
    <3>3. zipJob' = [zipJob EXCEPT ![o] = j]
      BY <2>3 DEF WriteCopy, ToJob
    <3> QED BY <3>2, <3>3
  <2> QED BY <2>2, <2>3
<1> PICK x : x = zipJob[o].x
  OBVIOUS
<1>3. zipJob'[o] = j /\ zipJob[o].pc # "idle"
  BY <1>1, <1>2 DEF ExportsInv, ExportTypes
<1>4. x \in Exports /\ JobFits(o) /\ RowFits(x) /\ exportRow[x].status \notin {"none", "queued"}
  BY <1>3, AtWork
<1>5. JobFits(o)' /\ RowFits(x)'
  BY <1>1, <1>2, <1>3, <1>4 DEF JobFits, RowFits, InHand
<1>6. exportRow' \in [Exports -> ExportRow] /\ exportFaults' \in 0 .. MaxExportFaults
  BY <1>1 DEF ExportsInv, ExportTypes
<1> QED BY <1>1, <1>2, <1>3, <1>5, <1>6, JobMoves

LEMMA EndZipFits ==
  ASSUME ExportsInv, NEW o \in Owners, EndZip(o)
  PROVE  ExportsInv'
<1> PICK x : x = zipJob[o].x
  OBVIOUS
<1> PICK j : j = At(o, "mark")
  OBVIOUS
<1>1. /\ zipJob[o].pc = "build" /\ zips' = zips \cup {x} /\ zipJob' = [zipJob EXCEPT ![o] = j]
      /\ UNCHANGED <<exportRow, alive, creating, waiting, retention, stranded, leaked, exportFaults>>
  BY DEF EndZip, ToJob, history
<1>2. j \in ZipJob /\ j.pc = "mark" /\ j.x = x
  BY JobAt
<1>3. zipJob'[o] = j /\ zipJob[o].pc # "idle"
  BY <1>1 DEF ExportsInv, ExportTypes
<1>4. x \in Exports /\ JobFits(o) /\ RowFits(x) /\ exportRow[x].owner = o
      /\ exportRow[x].status \in {"running", "failed"}
  BY <1>1, <1>3, AtWork DEF JobFits
<1>5. JobFits(o)' /\ RowFits(x)'
  BY <1>1, <1>2, <1>3, <1>4 DEF JobFits, RowFits, InHand
<1>6. exportRow' \in [Exports -> ExportRow] /\ exportFaults' \in 0 .. MaxExportFaults
  BY <1>1 DEF ExportsInv, ExportTypes
<1> QED BY <1>1, <1>2, <1>3, <1>4, <1>5, <1>6, JobMoves

LEMMA ZipFailsFits ==
  ASSUME ExportsInv, NEW o \in Owners, ZipFails(o)
  PROVE  ExportsInv'
<1> PICK x : x = zipJob[o].x
  OBVIOUS
<1> PICK j : j = At(o, "fail")
  OBVIOUS
<1>1. /\ zipJob[o].pc = "build" /\ zipJob' = [zipJob EXCEPT ![o] = j] /\ ExportFault
      /\ UNCHANGED <<exportRow, alive, creating, waiting, retention, stranded>>
      /\ \/ UNCHANGED <<zips, leaked>>
         \/ zips' = zips \cup {x} /\ leaked' = leaked \cup {x}
  BY DEF ZipFails, ToJob
<1>2. j \in ZipJob /\ j.pc = "fail" /\ j.x = x
  BY JobAt
<1>3. zipJob'[o] = j /\ zipJob[o].pc # "idle"
  BY <1>1 DEF ExportsInv, ExportTypes
<1>4. x \in Exports /\ JobFits(o) /\ RowFits(x) /\ exportRow[x].owner = o
      /\ exportRow[x].status \in {"running", "failed"} /\ (x \in zips => x \in leaked)
  BY <1>1, <1>3, AtWork DEF JobFits
<1>5. JobFits(o)' /\ RowFits(x)'
  BY <1>1, <1>2, <1>3, <1>4 DEF JobFits, RowFits, InHand
<1>6. exportRow' \in [Exports -> ExportRow] /\ exportFaults' \in 0 .. MaxExportFaults
  BY <1>1, ExportFaultIs DEF ExportsInv, ExportTypes
<1>7. \A y \in Exports \ {x} : exportRow'[y] = exportRow[y] /\ (y \in zips' <=> y \in zips)
  BY <1>1
<1>8. zips' \subseteq zips \cup {x} /\ leaked' \in {leaked, leaked \cup {x}} /\ stranded' = stranded
  BY <1>1
<1> QED BY <1>1, <1>2, <1>3, <1>4, <1>5, <1>6, <1>7, <1>8, JobMoves

\* A build that hangs keeps its export in hand, with its ZIP or without.
LEMMA HangsFits ==
  ASSUME ExportsInv, NEW o \in Owners, Hangs(o)
  PROVE  ExportsInv'
<1> PICK x : x = zipJob[o].x
  OBVIOUS
<1> PICK j : j = At(o, "hung")
  OBVIOUS
<1>1. /\ zipJob[o].pc \in {"build", "delete"} /\ zipJob' = [zipJob EXCEPT ![o] = j] /\ ExportFault
      /\ UNCHANGED <<exportRow, alive, creating, waiting, retention, stranded, leaked>>
      /\ zips' \in {zips, zips \cup {x}, zips \ {x}}
  BY DEF Hangs, ToJob, history
<1>2. j \in ZipJob /\ j.pc = "hung" /\ j.x = x
  BY JobAt
<1>3. zipJob'[o] = j /\ zipJob[o].pc # "idle"
  BY <1>1 DEF ExportsInv, ExportTypes
<1>4. x \in Exports /\ JobFits(o) /\ RowFits(x) /\ exportRow[x].owner = o
      /\ exportRow[x].status \in {"running", "failed"}
  BY <1>1, <1>3, AtWork DEF JobFits
<1>5. JobFits(o)' /\ RowFits(x)'
  BY <1>1, <1>2, <1>3, <1>4 DEF JobFits, RowFits, InHand
<1>6. exportRow' \in [Exports -> ExportRow] /\ exportFaults' \in 0 .. MaxExportFaults
  BY <1>1, ExportFaultIs DEF ExportsInv, ExportTypes
<1>7. \A y \in Exports \ {x} : exportRow'[y] = exportRow[y] /\ (y \in zips' <=> y \in zips)
  BY <1>1
<1>8. zips' \subseteq zips \cup {x}
  BY <1>1
<1> QED BY <1>1, <1>2, <1>3, <1>4, <1>5, <1>6, <1>7, <1>8, JobMoves

\* A row that is moved is still its owner's.
LEMMA RowMoves ==
  ASSUME ExportsInv, NEW x \in Exports, NEW status \in Statuses, Moved(x, status)
  PROVE  /\ exportRow' \in [Exports -> ExportRow]
         /\ exportRow'[x].status = status /\ exportRow'[x].owner = exportRow[x].owner
         /\ \A y \in Exports \ {x} : exportRow'[y] = exportRow[y]
BY DEF Moved, ExportsInv, ExportTypes, ExportRow

LEMMA MarkReadyFits ==
  ASSUME ExportsInv, NEW o \in Owners, MarkReady(o)
  PROVE  ExportsInv'
<1> PICK x : x = zipJob[o].x
  OBVIOUS
<1>1. zipJob[o].pc = "mark" /\ UNCHANGED <<zips, alive, creating, waiting, retention, stranded>>
  BY DEF MarkReady
<1>2. /\ x \in Exports /\ JobFits(o) /\ RowFits(x) /\ exportRow[x].owner = o
      /\ exportRow[x].status \in {"running", "failed"} /\ x \in zips
  BY <1>1, AtWork DEF JobFits
<1>3. PICK j \in ZipJob : ToJob(o, j) /\ \/ j = NoJob /\ Moved(x, "ready") /\ UNCHANGED <<leaked, exportFaults>>
                                         \/ /\ j = At(o, "delete") /\ exportRow[x].status = "failed"
                                            /\ UNCHANGED <<exportRow, leaked, exportFaults>>
                                         \/ /\ j = At(o, "fail") /\ ExportFault
                                            /\ \/ Moved(x, "ready") /\ UNCHANGED leaked
                                               \/ UNCHANGED exportRow /\ leaked' = leaked \cup {x}
  BY <1>2, JobAt, JobOver DEF MarkReady, Movable
<1>4. zipJob' = [zipJob EXCEPT ![o] = j] /\ zipJob'[o] = j /\ zipJob[o].pc # "idle"
  BY <1>1, <1>3 DEF ToJob, ExportsInv, ExportTypes
<1>5. /\ exportFaults' \in 0 .. MaxExportFaults
      /\ leaked' = leaked \/ (leaked' = leaked \cup {x} /\ UNCHANGED exportRow)
  BY <1>3, ExportFaultIs DEF ExportsInv, ExportTypes
<1>6. UNCHANGED exportRow \/ Moved(x, "ready")
  BY <1>3
<1>7. /\ exportRow' \in [Exports -> ExportRow]
      /\ \A y \in Exports \ {x} : exportRow'[y] = exportRow[y]
      /\ exportRow'[x].owner = o
      /\ exportRow'[x].status = exportRow[x].status \/ exportRow'[x].status = "ready"
      /\ Moved(x, "ready") => exportRow'[x].status = "ready"
  BY <1>2, <1>6, RowMoves DEF ExportsInv, ExportTypes, Statuses
<1>8. JobFits(o)' /\ RowFits(x)'
  <2>1. CASE j = NoJob /\ Moved(x, "ready")
    BY <1>1, <1>2, <1>4, <1>7, <2>1, JobOver DEF JobFits, RowFits
  <2>2. CASE j = At(o, "delete") /\ exportRow[x].status = "failed" /\ UNCHANGED exportRow
    <3>1. j.pc = "delete" /\ j.x = x
      BY <2>2, JobAt
    <3> QED BY <1>1, <1>2, <1>4, <1>7, <2>2, <3>1 DEF JobFits, RowFits, InHand
  <2>3. CASE /\ j = At(o, "fail")
             /\ Moved(x, "ready") \/ (UNCHANGED exportRow /\ leaked' = leaked \cup {x})
    <3>1. j.pc = "fail" /\ j.x = x
      BY <2>3, JobAt
    <3>2. exportRow'[x].status = "ready" \/ (x \in leaked' /\ exportRow'[x] = exportRow[x])
      BY <1>7, <2>3
    <3>3. exportRow'[x].status \in {"running", "failed", "ready"} /\ exportRow'[x].owner = o
      BY <1>2, <1>7
    <3>4. JobFits(o)'
      BY <1>1, <1>2, <1>4, <3>1, <3>2, <3>3 DEF JobFits
    <3>5. RowFits(x)'
      BY <1>1, <1>2, <1>4, <3>1, <3>3 DEF RowFits, InHand
    <3> QED BY <3>4, <3>5
  <2> QED BY <1>3, <2>1, <2>2, <2>3
<1> QED BY <1>1, <1>2, <1>4, <1>5, <1>7, <1>8, JobMoves

LEMMA DeleteZipFits ==
  ASSUME ExportsInv, NEW o \in Owners, DeleteZip(o)
  PROVE  ExportsInv'
<1> PICK x : x = zipJob[o].x
  OBVIOUS
<1>1. zipJob[o].pc = "delete" /\ UNCHANGED <<exportRow, alive, creating, waiting, retention, stranded>>
  BY DEF DeleteZip
<1>2. /\ x \in Exports /\ JobFits(o) /\ RowFits(x) /\ exportRow[x].owner = o
      /\ exportRow[x].status = "failed"
  BY <1>1, AtWork DEF JobFits
<1>3. PICK j \in ZipJob : ToJob(o, j) /\ \/ /\ j = NoJob /\ zips' = zips \ {x}
                                            /\ UNCHANGED <<leaked, exportFaults>>
                                         \/ /\ j = At(o, "fail") /\ ExportFault
                                            /\ leaked' = leaked \cup {x}
                                            /\ zips' \in {zips, zips \ {x}}
  BY JobAt, JobOver DEF DeleteZip
<1>4. zipJob' = [zipJob EXCEPT ![o] = j] /\ zipJob'[o] = j /\ zipJob[o].pc # "idle"
  BY <1>1, <1>3 DEF ToJob, ExportsInv, ExportTypes
<1>5. exportFaults' \in 0 .. MaxExportFaults /\ exportRow' \in [Exports -> ExportRow]
      /\ zips' \in {zips, zips \ {x}} /\ leaked' \in {leaked, leaked \cup {x}}
  BY <1>1, <1>3, ExportFaultIs DEF ExportsInv, ExportTypes
<1>6. JobFits(o)' /\ RowFits(x)'
  <2>1. CASE j = NoJob /\ zips' = zips \ {x}
    BY <1>1, <1>2, <1>4, <2>1, JobOver DEF JobFits, RowFits
  <2>2. CASE j = At(o, "fail") /\ leaked' = leaked \cup {x} /\ zips' \in {zips, zips \ {x}}
    <3>1. j.pc = "fail" /\ j.x = x
      BY <2>2, JobAt
    <3> QED BY <1>1, <1>2, <1>4, <2>2, <3>1 DEF JobFits, RowFits, InHand
  <2> QED BY <1>3, <2>1, <2>2
<1> QED BY <1>1, <1>2, <1>4, <1>5, <1>6, JobMoves

LEMMA MarkFailedFits ==
  ASSUME ExportsInv, NEW o \in Owners, MarkFailed(o)
  PROVE  ExportsInv'
<1> PICK x : x = zipJob[o].x
  OBVIOUS
<1> PICK j : j = NoJob
  OBVIOUS
<1>1. /\ zipJob[o].pc = "fail" /\ zipJob' = [zipJob EXCEPT ![o] = j]
      /\ UNCHANGED <<zips, alive, creating, waiting, retention, leaked>>
  BY DEF MarkFailed, ToJob
<1>2. /\ x \in Exports /\ JobFits(o) /\ RowFits(x) /\ exportRow[x].owner = o
      /\ exportRow[x].status \in {"running", "failed", "ready", "past", "expired"}
      /\ x \in zips => exportRow[x].status \in {"ready", "past"} \/ x \in leaked
  BY <1>1, AtWork DEF JobFits
<1>3. zipJob'[o] = j /\ zipJob[o].pc # "idle" /\ j \in ZipJob /\ j.pc = "idle" /\ j.x = "none"
  BY <1>1, JobOver DEF ExportsInv, ExportTypes
<1>4. /\ exportFaults' \in 0 .. MaxExportFaults /\ stranded' \in {stranded, stranded \cup {x}}
      /\ UNCHANGED exportRow \/ (exportRow[x].status = "running" /\ Moved(x, "failed"))
  BY ExportFaultIs DEF MarkFailed, Movable, ExportsInv, ExportTypes
<1>5. /\ exportRow' \in [Exports -> ExportRow]
      /\ \A y \in Exports \ {x} : exportRow'[y] = exportRow[y]
      /\ exportRow'[x].owner = o
      /\ \/ exportRow'[x].status = exportRow[x].status
         \/ exportRow[x].status = "running" /\ exportRow'[x].status = "failed"
  BY <1>2, <1>4, RowMoves DEF ExportsInv, ExportTypes, Statuses
<1>6. JobFits(o)' /\ RowFits(x)'
  BY <1>1, <1>2, <1>3, <1>5 DEF JobFits, RowFits
<1> QED BY <1>1, <1>2, <1>3, <1>4, <1>5, <1>6, JobMoves

\* Heartbeats, recovery and expiry write rows only.
LEMMA RowsFit ==
  ASSUME ExportsInv,
         \/ \E o \in Owners : Heartbeat(o)
         \/ \E x \in Exports : TurnsStale(x) \/ PassExpiry(x)
         \/ RecoverStale
  PROVE  ExportsInv'
<1>1. UNCHANGED <<zips, alive, creating, waiting, zipJob, retention, stranded, leaked>>
  BY DEF Heartbeat, TurnsStale, PassExpiry, RecoverStale, work, history
<1>2. exportFaults' \in 0 .. MaxExportFaults
  BY ExportFaultIs DEF Heartbeat, TurnsStale, PassExpiry, RecoverStale, ExportsInv, ExportTypes
<1> DEFINE Forward == /\ exportRow' \in [Exports -> ExportRow]
                      /\ \A x \in Exports : /\ Advances(exportRow[x].status, exportRow'[x].status)
                                            /\ exportRow'[x].owner = exportRow[x].owner
<1>3. Forward
  <2>1. ASSUME NEW o \in Owners, Heartbeat(o) PROVE Forward
    BY <2>1 DEF Heartbeat, Advances, ExportsInv, ExportTypes, ExportRow
  <2>2. ASSUME NEW x \in Exports, TurnsStale(x) PROVE Forward
    BY <2>2 DEF TurnsStale, Advances, ExportsInv, ExportTypes, ExportRow
  <2>3. ASSUME NEW x \in Exports, PassExpiry(x) PROVE Forward
    BY <2>3, RowMoves DEF PassExpiry, Advances, ExportsInv, ExportTypes, Statuses
  <2>4. CASE RecoverStale
    <3>1. ASSUME NEW x \in Exports
          PROVE  /\ exportRow'[x] \in ExportRow /\ exportRow'[x].owner = exportRow[x].owner
                 /\ Advances(exportRow[x].status, exportRow'[x].status)
      <4> PICK r \in ExportRow : r = exportRow[x]
        BY DEF ExportsInv, ExportTypes
      <4>1. exportRow'[x] = IF x \in Stale THEN [r EXCEPT !.status = "failed"] ELSE r
        BY <2>4 DEF RecoverStale
      <4>2. [r EXCEPT !.status = "failed"] \in ExportRow
        BY DEF ExportRow, Statuses
      <4>3. x \in Stale => r.status \in Unfinished
        BY DEF Stale, RecoveredStatuses
      <4> QED BY <4>1, <4>2, <4>3 DEF Advances, ExportRow
    <3>2. exportRow' = [x \in Exports |-> exportRow'[x]]
      BY <2>4 DEF RecoverStale
    <3> QED BY <3>1, <3>2
  <2> QED BY <2>1, <2>2, <2>3, <2>4
<1>4. ExportsFit'
  BY <1>1, <1>3, RowsAdvance
<1>5. ExportTypes'
  BY <1>1, <1>2, <1>3 DEF ExportsInv, ExportTypes
<1> QED BY <1>4, <1>5 DEF ExportsInv

\* A process that dies leaves the ZIP it had in hand behind.
LEMMA DieFits ==
  ASSUME ExportsInv, NEW o \in Owners, Die(o)
  PROVE  ExportsInv'
<1> PICK x : x = zipJob[o].x
  OBVIOUS
<1> PICK j : j = NoJob
  OBVIOUS
<1>1. /\ zipJob' = [zipJob EXCEPT ![o] = j] /\ alive' \subseteq alive /\ creating' \subseteq creating
      /\ waiting' = [waiting EXCEPT ![o] = <<>>] /\ leaked' = leaked \cup ({x} \cap zips)
      /\ UNCHANGED <<exportRow, zips, retention, stranded>> /\ ExportFault
  BY DEF Die, ToJob
<1>2. j \in ZipJob /\ j.pc = "idle" /\ j.x = "none" /\ zipJob[o] \in ZipJob /\ zipJob'[o] = j
  BY <1>1, JobOver DEF ExportsInv, ExportTypes
<1>3. ExportTypes'
  <2>1. waiting' \in [Owners -> Seq(Exports)]
    BY <1>1 DEF ExportsInv, ExportTypes
  <2> QED BY <1>1, <1>2, <2>1, ExportFaultIs DEF ExportsInv, ExportTypes
<1>4. ExportsFit'
  <2>1. CASE zipJob[o].pc = "idle"
    <3>1. x = "none"
      BY <2>1 DEF ExportsInv, ExportsFit, JobFits
    <3>2. zipJob[o].x = "none" /\ leaked' = leaked
      BY <1>1, <3>1, ExportsAssumption DEF ExportsInv, ExportTypes
    <3>3. ASSUME NEW u \in Owners PROVE JobFits(u)'
      <4>1. u # o => zipJob'[u] = zipJob[u]
        BY <1>1 DEF ExportsInv, ExportTypes
      <4> QED BY <1>1, <1>2, <3>2, <4>1 DEF ExportsInv, ExportsFit, JobFits
    <3>4. ASSUME NEW y \in Exports PROVE RowFits(y)'
      <4>1. InHand(y) => InHand(y)'
        BY <1>1, <1>2, <3>2, ExportsAssumption DEF ExportsInv, ExportTypes, InHand
      <4> QED BY <1>1, <3>2, <4>1 DEF ExportsInv, ExportsFit, RowFits
    <3>5. ASSUME NEW p \in Passes PROVE RetentionFits(p)'
      BY <1>1 DEF ExportsInv, ExportsFit, RetentionFits
    <3> QED BY <3>3, <3>4, <3>5 DEF ExportsFit
  <2>2. CASE zipJob[o].pc # "idle"
    <3>1. /\ x \in Exports /\ RowFits(x) /\ exportRow[x].owner = o
          /\ exportRow[x].status \notin {"none", "queued"}
      BY <2>2, AtWork
    <3>2. JobFits(o)' /\ RowFits(x)'
      BY <1>1, <1>2, <3>1 DEF JobFits, RowFits
    <3>3. exportRow' \in [Exports -> ExportRow]
      BY <1>1 DEF ExportsInv, ExportTypes
    <3> QED BY <1>1, <1>2, <3>1, <3>2, <3>3, JobAdvances
  <2> QED BY <2>1, <2>2
<1> QED BY <1>3, <1>4 DEF ExportsInv

LEMMA ListExpiredFits ==
  ASSUME ExportsInv, NEW p \in Passes, ListExpired(p)
  PROVE  ExportsInv'
<1> PICK k : k = NoRetention
  OBVIOUS
<1> PICK r : r = [k EXCEPT !.pc = "next", !.listed = Expired]
  OBVIOUS
<1>1. /\ retention' = [retention EXCEPT ![p] = r]
      /\ UNCHANGED <<exportRow, zips, alive, creating, waiting, zipJob, stranded, leaked, exportFaults>>
  BY DEF ListExpired, ToPass, work, history
<1>2. k \in RetentionJob /\ Expired \subseteq Exports
  BY DEF NoRetention, RetentionJob, Expired
<1>3. r \in RetentionJob /\ r.pc = "next" /\ r.listed = Expired
  BY <1>2 DEF RetentionJob
<1>4. ExportTypes'
  BY <1>1, <1>3 DEF ExportsInv, ExportTypes
<1>5. ASSUME NEW q \in Passes PROVE RetentionFits(q)'
  BY <1>1, <1>3 DEF ExportsInv, ExportTypes, ExportsFit, RetentionFits, Expired
<1>6. ExportsFit'
  BY <1>1, <1>5 DEF ExportsInv, ExportsFit, JobFits, RowFits, InHand
<1> QED BY <1>4, <1>6 DEF ExportsInv

\* What is listed was ready once: whatever the job of its process, the ZIP may go.
LEMMA DropZipFits ==
  ASSUME ExportsInv, NEW p \in Passes, DropZip(p)
  PROVE  ExportsInv'
<1>1. UNCHANGED <<exportRow, alive, creating, waiting, zipJob, stranded, leaked>>
  BY DEF DropZip, work, history
<1>2. retention[p] \in RetentionJob /\ RetentionFits(p) /\ retention[p].pc = "next"
  BY DEF DropZip, ExportsInv, ExportTypes, ExportsFit
<1> DEFINE Drops(r, gone) == /\ ToPass(p, r) /\ zips' = zips \ gone /\ r.listed \subseteq retention[p].listed
                             /\ r.pc = "expire" => r.x \in gone
                             /\ gone \subseteq retention[p].listed
<1>3. PICK r \in RetentionJob, gone \in SUBSET Exports : Drops(r, gone)
  <2>1. CASE retention[p].listed = {} /\ ToPass(p, NoRetention) /\ UNCHANGED zips
    <3>1. NoRetention \in RetentionJob /\ NoRetention.listed = {} /\ NoRetention.pc = "idle"
      BY DEF NoRetention, RetentionJob
    <3>2. zips' = zips \ {}
      BY <2>1
    <3> QED BY <2>1, <3>1, <3>2
  <2>2. ASSUME NEW x \in retention[p].listed, zips' = zips \ {x},
               ToPass(p, [pc |-> "expire", listed |-> retention[p].listed \ {x}, x |-> x])
        PROVE  \E r \in RetentionJob, gone \in SUBSET Exports : Drops(r, gone)
    <3> PICK r : r = [pc |-> "expire", listed |-> retention[p].listed \ {x}, x |-> x]
      OBVIOUS
    <3>1. r \in RetentionJob /\ {x} \in SUBSET Exports
      BY <1>2 DEF RetentionJob
    <3>2. r.listed \subseteq retention[p].listed /\ r.x \in {x} /\ {x} \subseteq retention[p].listed
      OBVIOUS
    <3> QED BY <2>2, <3>1, <3>2
  <2>3. ASSUME NEW x \in retention[p].listed, zips' \in {zips, zips \ {x}},
               ToPass(p, [retention[p] EXCEPT !.listed = @ \ {x}])
        PROVE  \E r \in RetentionJob, gone \in SUBSET Exports : Drops(r, gone)
    <3> PICK k, l : k = retention[p] /\ l = k.listed \ {x}
      OBVIOUS
    <3> PICK r : r = [k EXCEPT !.listed = l]
      OBVIOUS
    <3>1. r \in RetentionJob /\ r.pc = "next" /\ r.listed = l
      BY <1>2 DEF RetentionJob
    <3>2. PICK gone \in SUBSET {x} : zips' = zips \ gone
      <4>1. zips' = zips => {} \in SUBSET {x} /\ zips' = zips \ {}
        OBVIOUS
      <4>2. zips' = zips \ {x} => {x} \in SUBSET {x}
        OBVIOUS
      <4> QED BY <2>3, <4>1, <4>2
    <3>3. ToPass(p, r)
      BY <2>3
    <3>4. gone \subseteq retention[p].listed /\ gone \in SUBSET Exports
      BY <1>2 DEF RetentionJob
    <3>5. Drops(r, gone)
      BY <3>1, <3>2, <3>3, <3>4
    <3> HIDE DEF Drops
    <3> QED BY <3>1, <3>4, <3>5
  <2> QED BY <2>1, <2>2, <2>3 DEF DropZip
<1>4. retention' = [retention EXCEPT ![p] = r]
  BY <1>3 DEF ToPass
<1>5. exportFaults' \in 0 .. MaxExportFaults
  BY ExportFaultIs DEF DropZip, ExportsInv, ExportTypes
<1>6. \A x \in gone : exportRow[x].status \in {"past", "expired"}
  BY <1>2, <1>3 DEF RetentionFits
<1>7. ExportTypes'
  BY <1>1, <1>3, <1>4, <1>5 DEF ExportsInv, ExportTypes
<1>8. ASSUME NEW o \in Owners PROVE JobFits(o)'
  <2>1. JobFits(o) /\ (zipJob[o].x \in gone => exportRow[zipJob[o].x].status \in {"past", "expired"})
    BY <1>6 DEF ExportsInv, ExportsFit
  <2> QED BY <1>1, <1>3, <2>1 DEF JobFits
<1>9. ASSUME NEW x \in Exports PROVE RowFits(x)'
  BY <1>1, <1>3, <1>6 DEF ExportsInv, ExportsFit, RowFits, InHand
<1>10. ASSUME NEW q \in Passes PROVE RetentionFits(q)'
  <2>1. RetentionFits(q) /\ RetentionFits(p)
    BY DEF ExportsInv, ExportsFit
  <2>2. CASE q = p
    <3>1. retention'[q] = r
      BY <1>4, <2>2 DEF ExportsInv, ExportTypes
    <3> QED BY <1>1, <1>3, <1>6, <2>1, <3>1 DEF RetentionFits
  <2>3. CASE q # p
    <3>1. retention'[q] = retention[q]
      BY <1>4, <2>3 DEF ExportsInv, ExportTypes
    <3> QED BY <1>1, <1>3, <2>1, <3>1 DEF RetentionFits
  <2> QED BY <2>2, <2>3
<1>11. ExportsFit'
  BY <1>8, <1>9, <1>10 DEF ExportsFit
<1> QED BY <1>7, <1>11 DEF ExportsInv

\* Its ZIP is gone, so what is marked leaves nothing behind; its row was past.
LEMMA MarkExpiredFits ==
  ASSUME ExportsInv, NEW p \in Passes, MarkExpired(p)
  PROVE  ExportsInv'
<1> PICK x, k : x = retention[p].x /\ k = retention[p]
  OBVIOUS
<1> PICK r : r = [k EXCEPT !.pc = "next", !.x = "none"]
  OBVIOUS
<1>1. /\ retention' = [retention EXCEPT ![p] = r] /\ k.pc = "expire"
      /\ UNCHANGED <<zips, alive, creating, waiting, zipJob, stranded, leaked>>
  BY DEF MarkExpired, ToPass, work, history
<1>2. k \in RetentionJob /\ RetentionFits(p)
  BY DEF ExportsInv, ExportTypes, ExportsFit
<1>3. r \in RetentionJob /\ r.pc = "next" /\ r.listed = k.listed
  BY <1>2 DEF RetentionJob
<1>4. x \in Exports /\ x \notin zips /\ exportRow[x].status \in {"past", "expired"}
  BY <1>1, <1>2 DEF RetentionFits
<1>5. exportFaults' \in 0 .. MaxExportFaults /\ (UNCHANGED exportRow \/ Moved(x, "expired"))
  BY ExportFaultIs DEF MarkExpired, ExportsInv, ExportTypes
<1>6. /\ exportRow' \in [Exports -> ExportRow]
      /\ \A y \in Exports : /\ exportRow'[y].owner = exportRow[y].owner
                            /\ y # x => exportRow'[y].status = exportRow[y].status
      /\ exportRow'[x].status \in {"past", "expired"}
  BY <1>4, <1>5, RowMoves DEF ExportsInv, ExportTypes, Statuses
<1>7. ExportTypes'
  BY <1>1, <1>3, <1>5, <1>6 DEF ExportsInv, ExportTypes
<1>8. ASSUME NEW o \in Owners PROVE JobFits(o)'
  <2>1. JobFits(o) /\ zipJob[o] \in ZipJob
    BY DEF ExportsInv, ExportTypes, ExportsFit
  <2>2. zipJob[o].x = x => zipJob[o].pc = "fail"
    BY <1>4, <2>1, ExportsAssumption DEF JobFits, ZipJob
  <2> QED BY <1>1, <1>4, <1>6, <2>1, <2>2 DEF JobFits
<1>9. ASSUME NEW y \in Exports PROVE RowFits(y)'
  BY <1>1, <1>4, <1>6 DEF ExportsInv, ExportsFit, RowFits, InHand
<1>10. ASSUME NEW q \in Passes PROVE RetentionFits(q)'
  <2>1. retention'[q].listed = retention[q].listed /\ (retention'[q].pc = "expire" => retention'[q] = retention[q])
    BY <1>1, <1>3 DEF ExportsInv, ExportTypes
  <2>2. RetentionFits(q) /\ retention[q].listed \subseteq Exports
    BY DEF ExportsInv, ExportTypes, ExportsFit, RetentionJob
  <2>3. \A y \in Exports : exportRow[y].status \in {"past", "expired"} =>
          exportRow'[y].status \in {"past", "expired"}
    BY <1>6
  <2> QED BY <1>1, <2>1, <2>2, <2>3 DEF RetentionFits
<1>11. ExportsFit'
  BY <1>8, <1>9, <1>10 DEF ExportsFit
<1> QED BY <1>7, <1>11 DEF ExportsInv

LEMMA ExportsStep ==
  ASSUME ExportsInv, [ExportsNext]_exportVars
  PROVE  ExportsInv'
<1>1. CASE UNCHANGED exportVars
  <2>1. ExportsFit'
    BY <1>1, ExportsRest DEF exportVars
  <2> QED BY <1>1, <2>1 DEF exportVars, ExportsInv, ExportTypes
<1>2. CASE ExportsNext
  <2>1. ASSUME NEW o \in Owners, Build(o) PROVE ExportsInv'
    BY <2>1, ClaimFits, CopiesFit, EndZipFits, ZipFailsFits, MarkReadyFits, DeleteZipFits, MarkFailedFits
    DEF Build
  <2> QED
    BY <1>2, <2>1, HangsFits, CreateFits, EnqueueFits, RowsFit, DieFits, ListExpiredFits, DropZipFits, MarkExpiredFits
    DEF ExportsNext
<1> QED BY <1>1, <1>2

\* An export that can be downloaded has its ZIP, and no other ZIP is left behind except by a
\* call that failed or a process that died: whichever processes build, beat, recover and die,
\* and however many passes of the retention run beside them (DocumentExportsService.run, failStale
\* and DocumentExportRetentionService.run).
THEOREM ZipsMatched == ExportsSpec => []ZipsMatch
<1>1. ExportsInv => ZipsMatch
  <2> SUFFICES ASSUME ExportsInv PROVE ZipsMatch
    OBVIOUS
  <2>1. ExportsTypeOK
    BY DEF ExportsInv, ExportTypes, ExportsTypeOK, ExportRow, ZipJob
  <2> QED BY <2>1 DEF ExportsInv, ExportsFit, RowFits, ZipsMatch
<1>2. QED
  BY InitExports, ExportsStep, <1>1, PTL DEF ExportsSpec
=============================================================================
