---- MODULE PublicApi ----
(* The public API: a request presents a key, is counted, and gets a page of the visible instructors,    *)
(* assembled from the list, a second read of the rows and reads of their relations.                     *)
(*   public-api/api-key.guard.ts, api-keys.service.ts, api-keys.repository.ts, api-key-rate-limiter.ts,  *)
(*   public-instructors.service.ts, public-instructors.repository.ts, locale.util.ts,                    *)
(*   supabase/migrations/252_public_list_active_refs.sql                                                 *)
(* Names, dates and levels are numbers.  Of the relations: the teaching places, the two kinds of         *)
(* certifications on the regular track and the ski trainer level.                                        *)
EXTENDS Integers, FiniteSets, Sequences, TLC

CONSTANTS
  Keys, RateLimit, Window,  \* RateLimit requests of a key in a Window
  Staff,                    \* the instructors at the start, by number
  Places, Edits,            \* what an instructor's row may become: a set of records
  Queries,                  \* lists and single reads asked for
  Requests, PageSize,
  LastTime,                 \* bound of the clock
  MaxChanges,               \* bound: keys revoked and edits of rows and places
  MaxAsked, MaxFaults       \* bounds: requests sent, restarts

VARIABLES
  now,
  keys,           \* api_keys: "absent", "active" or "revoked"
  audit,          \* the audit rows of keys: <<action, key>>
  buckets,        \* the limiter of the running process: [count, resetAt] by key
  staff, active,  \* the instructors, and the active places
  ask,            \* the requests
  passed,         \* history: how many requests of a key passed the limiter at each time, since the start
  changes, asked, faults

apiVars == <<now, keys, audit, buckets, staff, active, ask, passed, changes, asked, faults>>
keyVars == <<keys, audit>>
dataVars == <<staff, active>>

None == -1
Blank == 0      \* a name of spaces only
Idle == [pc |-> "idle"]
NoBucket == [count |-> 0, resetAt |-> None]
Ids == DOMAIN Staff

ApiInit ==
  /\ now = 0 /\ keys = [k \in Keys |-> "absent"] /\ audit = {}
  /\ buckets = [k \in Keys |-> NoBucket]
  /\ staff = Staff /\ active = Places
  /\ ask = [r \in Requests |-> Idle]
  /\ passed = [k \in Keys |-> [t \in 0 .. LastTime |-> 0]]
  /\ changes = 0 /\ asked = 0 /\ faults = 0

Became(r, step) == ask' = [ask EXCEPT ![r] = step]
Stirred == [r \in Requests |-> IF ask[r].pc = "idle" THEN Idle ELSE [ask[r] EXCEPT !.stirred = TRUE]]
Change == changes < MaxChanges /\ changes' = changes + 1

------------------------------------------------------------------------------
(* Keys. *)
(* issue: the row with the hash, then its audit row (one step: nothing reads it between). *)
Issue(k) ==
  /\ keys[k] = "absent"
  /\ keys' = [keys EXCEPT ![k] = "active"] /\ audit' = audit \cup {<<"api_key.create", k>>}
  /\ UNCHANGED <<now, buckets, dataVars, ask, passed, changes, asked, faults>>

(* revoke: a soft delete of an active key, then its audit row. *)
Revoke(k) ==
  /\ Change /\ keys[k] = "active"
  /\ keys' = [keys EXCEPT ![k] = "revoked"] /\ audit' = audit \cup {<<"api_key.revoke", k>>}
  /\ UNCHANGED <<now, buckets, dataVars, ask, passed, asked, faults>>

\* Mutation: a revoked key is still found.
KnownByHash(k) == keys[k] # "absent"
(* findActiveByHash *)
Known(k) == keys[k] = "active"

(* canActivate: a bearer token arrives; "dead" remembers that its key was revoked by then. *)
Send(r, k, q) ==
  /\ ask[r].pc = "idle" /\ asked < MaxAsked /\ asked' = asked + 1
  /\ Became(r, [pc |-> "sent", key |-> k, query |-> q, dead |-> keys[k] = "revoked", stirred |-> FALSE,
                public |-> {i \in Ids : staff[i].visible}])
  /\ UNCHANGED <<now, keyVars, buckets, dataVars, passed, changes, faults>>

(* verify: a key that is unknown or revoked is answered 401. *)
Verify(r) ==
  /\ ask[r].pc = "sent"
  /\ Became(r, IF Known(ask[r].key) THEN [ask[r] EXCEPT !.pc = "verified"] ELSE Idle)
  /\ UNCHANGED <<now, keyVars, buckets, dataVars, passed, changes, asked, faults>>

\* Mutation: one request more than the limit.
FullPast(b) == b.count > RateLimit
(* bucket.count >= limit *)
Full(b) == b.count >= RateLimit

Pass(r) ==
  /\ Became(r, [ask[r] EXCEPT !.pc = "passed"])
  /\ passed' = [passed EXCEPT ![ask[r].key][now] = @ + 1]

(* consume, the first request of a window. *)
OpenWindow(r) ==
  /\ ask[r].pc = "verified"
  /\ LET b == buckets[ask[r].key] IN b = NoBucket \/ now >= b.resetAt
  /\ buckets' = [buckets EXCEPT ![ask[r].key] = [count |-> 1, resetAt |-> now + Window]]
  /\ Pass(r)
  /\ UNCHANGED <<now, keyVars, dataVars, changes, asked, faults>>

(* consume within the window: counted, or answered 429. *)
Count(r) ==
  LET b == buckets[ask[r].key] IN
  /\ ask[r].pc = "verified" /\ b # NoBucket /\ now < b.resetAt
  /\ IF Full(b)
     THEN Became(r, Idle) /\ UNCHANGED <<buckets, passed>>
     ELSE buckets' = [buckets EXCEPT ![ask[r].key].count = @ + 1] /\ Pass(r)
  /\ UNCHANGED <<now, keyVars, dataVars, changes, asked, faults>>

------------------------------------------------------------------------------
(* public_list_instructors, in one snapshot. *)
SortName(s, locale) == IF locale = "zh-CN" /\ s.zh # None THEN s.zh ELSE s.en
SortKey(s, q) == IF q.sort = "seniority" THEN s.since ELSE SortName(s, q.locale)

Matching(q) ==
  {i \in Ids :
     LET s == staff[i] IN
     /\ s.visible
     /\ q.place # "any" => q.place \in s.places \cap active
     /\ q.discipline = "ski" => s.csia > 0
     /\ q.minCsia # None => s.csia >= q.minCsia
     /\ q.trainersOnly => s.trainer > 0}

\* The seniority's default order, "desc", lists the earliest date first.
Ascending(q) == (q.sort = "seniority") = (q.order = "desc")
\* Mutation: those without a date come first when the order is turned.
PrecedesNullsTurned(q, a, b) == IF Ascending(q) THEN a < b ELSE b < a
(* nulls last, in either order *)
Precedes(q, a, b) ==
  a # b /\ a # None /\ (b = None \/ IF Ascending(q) THEN a < b ELSE b < a)

(* order by the key, then by id *)
Earlier(q, i, j) ==
  LET a == SortKey(staff[i], q) b == SortKey(staff[j], q) IN
  Precedes(q, a, b) \/ (a = b /\ i < j)

Page(q) ==
  LET all == Matching(q)
      place(i) == 1 + Cardinality({j \in all : Earlier(q, j, i)})
      first == PageSize * (q.page - 1)
      length == Cardinality({i \in all : place(i) \in first + 1 .. first + PageSize}) IN
  [n \in 1 .. length |-> CHOOSE i \in all : place(i) = first + n]

(* listVisible: the ids of the page, and the count of all, which is 0 when the page is empty. *)
List(r) ==
  LET q == ask[r].query IN
  /\ ask[r].pc = "passed" /\ q.kind = "list"
  /\ LET page == Page(q) IN
     Became(r, [ask[r] EXCEPT !.pc = "listed", !.query =
                  [kind |-> "list", query |-> q, ids |-> page,
                   total |-> IF page = <<>> THEN 0 ELSE Cardinality(Matching(q))]])
  /\ UNCHANGED <<now, keyVars, buckets, dataVars, passed, changes, asked, faults>>

\* Mutation: the rows are read without the filter.
ShownAlways(i) == TRUE
(* .eq('approval_status', 'approved').eq('is_active', true) *)
Shown(i) == staff[i].visible

Loaded(r, job) ==
  Became(r, [ask[r] EXCEPT !.pc = "loaded", !.query =
               [job EXCEPT !.ids = SelectSeq(job.ids, Shown)]
               @@ [rows |-> [i \in {job.ids[n] : n \in DOMAIN job.ids} |-> staff[i]]]])

(* findVisibleByIds: those hidden since are dropped, the order of the ids is kept. *)
LoadRows(r) ==
  /\ ask[r].pc = "listed"
  /\ Loaded(r, ask[r].query)
  /\ UNCHANGED <<now, keyVars, buckets, dataVars, passed, changes, asked, faults>>

(* getById: findVisibleById. *)
LoadOne(r) ==
  LET q == ask[r].query IN
  /\ ask[r].pc = "passed" /\ q.kind = "one"
  /\ Loaded(r, [kind |-> "one", query |-> q, ids |-> <<q.id>>, total |-> 1])
  /\ UNCHANGED <<now, keyVars, buckets, dataVars, passed, changes, asked, faults>>

\* Mutation: a name of spaces is a name.
LocalizedBlank(locale, s) == IF locale = "zh-CN" /\ s.zh # None THEN s.zh ELSE s.en
(* pickLocalized: the Chinese name unless it is missing or blank. *)
Localized(locale, s) == IF locale = "zh-CN" /\ s.zh \notin {None, Blank} THEN s.zh ELSE s.en

\* Mutation: a place that was switched off is shown.
RefsEvenInactive(i) == staff[i].places
(* fetchRefs: inactive references are left out. *)
Refs(i) == staff[i].places \cap active

(* buildCertifications: a discipline is there with a certification, or a trainer level, of its own. *)
Blocks(s) == (IF s.csia > 0 \/ s.trainer > 0 THEN {"ski"} ELSE {})
             \cup (IF s.casi > 0 THEN {"snowboard"} ELSE {})

(* assembleFromRows: the relations, whatever they are by now, and the rows read before. *)
Answer(r) ==
  LET job == ask[r].query IN
  /\ ask[r].pc = "loaded"
  /\ Became(r, [ask[r] EXCEPT !.pc = "answered", !.query =
                  [query |-> job.query, total |-> job.total,
                   data |-> [n \in DOMAIN job.ids |->
                               [id |-> job.ids[n],
                                name |-> Localized(job.query.locale, job.rows[job.ids[n]]),
                                places |-> Refs(job.ids[n]),
                                blocks |-> Blocks(staff[job.ids[n]])]]]])
  /\ UNCHANGED <<now, keyVars, buckets, dataVars, passed, changes, asked, faults>>

Done(r) ==
  /\ ask[r].pc = "answered"
  /\ Became(r, Idle)
  /\ UNCHANGED <<now, keyVars, buckets, dataVars, passed, changes, asked, faults>>

------------------------------------------------------------------------------
(* What the rest of the program does to the rows (admin.service.ts, instructors.service.ts). *)
EditStaff(i, s) ==
  /\ Change /\ s # staff[i]
  /\ staff' = [staff EXCEPT ![i] = s]
  /\ ask' = [r \in Requests |->
               IF ask[r].pc = "idle" \/ ~s.visible THEN Stirred[r]
               ELSE [Stirred[r] EXCEPT !.public = @ \cup {i}]]
  /\ UNCHANGED <<now, keyVars, buckets, active, passed, asked, faults>>

SwitchPlace(p) ==
  /\ Change
  /\ active' = IF p \in active THEN active \ {p} ELSE active \cup {p}
  /\ ask' = Stirred
  /\ UNCHANGED <<now, keyVars, buckets, staff, passed, asked, faults>>

\* The process restarts: its counters and its requests are gone.
Restart ==
  /\ faults < MaxFaults /\ faults' = faults + 1
  /\ buckets' = [k \in Keys |-> NoBucket]
  /\ ask' = [r \in Requests |-> Idle]
  /\ passed' = [k \in Keys |-> [t \in 0 .. LastTime |-> 0]]
  /\ UNCHANGED <<now, keyVars, dataVars, changes, asked>>

Tick ==
  /\ now < LastTime /\ now' = now + 1
  /\ UNCHANGED <<keyVars, buckets, dataVars, ask, passed, changes, asked, faults>>

ApiNext ==
  \/ \E k \in Keys : Issue(k) \/ Revoke(k)
  \/ \E r \in Requests :
       \/ \E k \in Keys, q \in Queries : Send(r, k, q)
       \/ Verify(r) \/ OpenWindow(r) \/ Count(r)
       \/ List(r) \/ LoadRows(r) \/ LoadOne(r) \/ Answer(r) \/ Done(r)
  \/ \E i \in Ids, s \in Edits : EditStaff(i, s)
  \/ \E p \in Places : SwitchPlace(p)
  \/ Restart \/ Tick

ApiSpec == ApiInit /\ [][ApiNext]_apiVars

------------------------------------------------------------------------------
Sum(f, lo, hi) == LET s[n \in lo - 1 .. hi] == IF n < lo THEN 0 ELSE s[n - 1] + f[n] IN s[hi]

\* Whenever its requests come, a key has no more than twice its limit let through within one window's
\* length, and its limit when they begin with a fresh window; a key revoked before a request arrived
\* is refused.
KeysHold ==
  /\ \A k \in Keys : \A t \in 0 .. LastTime - Window + 1 :
       Sum(passed[k], t, t + Window - 1) <= 2 * RateLimit
  /\ \A r \in Requests : ask[r].pc \in {"verified", "passed", "listed", "loaded", "answered"} => ~ask[r].dead

Answered == {r \in Requests : ask[r].pc = "answered"}

\* Nobody is shown who was hidden all the time the request took.
NobodyHidden ==
  \A r \in Answered : \A n \in DOMAIN ask[r].query.data : ask[r].query.data[n].id \in ask[r].public

\* A list during which nothing changed is the page it was asked for: those who match, ordered by the
\* names it shows (or by seniority, those without a date last), so that the pages before it have just
\* those who come before; with their active places only.  Names of spaces are left out: the list is
\* sorted by the spaces and shows the English name.
PageIsRight ==
  \A r \in Answered :
    LET job == ask[r].query
        q == job.query
        data == job.data
        key(i) == IF q.sort = "seniority" THEN staff[i].since
                  ELSE IF q.locale = "zh-CN" /\ staff[i].zh > Blank THEN staff[i].zh ELSE staff[i].en
        before(i, j) == IF key(i) = key(j) THEN i < j
                        ELSE IF None \in {key(i), key(j)} THEN key(j) = None
                        ELSE IF q.sort = "seniority"
                             THEN (key(i) < key(j)) = (q.order = "desc")
                             ELSE (key(i) < key(j)) = (q.order = "asc")
        all == Matching(q)
        here == {data[n].id : n \in DOMAIN data} IN
    (~ask[r].stirred /\ q.kind = "list" /\ \A i \in all : staff[i].zh # Blank) =>
      /\ here \subseteq all /\ Cardinality(here) = Len(data)
      /\ \A n \in 2 .. Len(data) : before(data[n - 1].id, data[n].id)
      /\ \A n \in DOMAIN data :
           /\ Cardinality({i \in all : before(i, data[n].id)}) = PageSize * (q.page - 1) + n - 1
           /\ q.sort = "name" => data[n].name = key(data[n].id)
           /\ data[n].places = staff[data[n].id].places \cap active
           /\ q.place # "any" => q.place \in data[n].places
           /\ q.discipline = "ski" => "ski" \in data[n].blocks
      /\ Len(data) < PageSize => \A i \in all \ here :
           Cardinality({j \in all : before(j, i)}) < PageSize * (q.page - 1)
      /\ data # <<>> => job.total = Cardinality(all)

\* No name of spaces is ever shown.
NamesAreShown ==
  \A r \in Answered : \A n \in DOMAIN ask[r].query.data : ask[r].query.data[n].name # Blank

PublicAnswersHold == KeysHold /\ NobodyHidden /\ PageIsRight /\ NamesAreShown
====
