---- MODULE BookingOffers ----
(* What a booking is checked against: the links of instructors to Google calendars, the caches of  *)
(* BookingCalendarsService, and the two readers of both.                                            *)
(*   booking/availability.service.ts, booking-calendars.service.ts, booking-settings.service.ts,     *)
(*   booking.service.ts (create, update: requireWritable, conflicts, googleBusy),                     *)
(*   lessons/instructor-calendars.service.ts                                                          *)
(* A time range is the set of the minutes it covers, so that Google's merged busy blocks are a union  *)
(* and taking the class's own block out of them is a difference.                                       *)
EXTENDS Naturals, FiniteSets

CONSTANTS
  Instructors, Calendars,
  Askers, Bookers,  \* requests: for availability, and to book or change a class
  Classes,      \* ids
  Minutes,      \* the minutes of the day asked for
  Durations,    \* of lesson types
  Windows,      \* opening hours a setting may give that day: sets of minutes, {} when closed
  TTL,          \* CALENDAR_CACHE_TTL_MS
  LastMinute,   \* bound: the clock
  MaxEvents,    \* bound: events of other people
  MaxChanges,   \* bound: changes of links, access, instructors and settings
  MaxFaults     \* bound: calls to Google that fail

VARIABLES
  now,
  window,       \* booking_settings, of that day
  bookable,     \* instructors active and approved
  link,         \* instructor_calendars
  writable,     \* the calendars Google lets the app write
  foreign,      \* events of others: [calendar, minutes, since]
  classes,      \* the live classes: [instructor, minutes, calendar, event], event = {} when none
  left,         \* events to delete: [calendar, minutes]
  access,       \* the cached list of writable calendars
  busy,         \* freeBusyCache: the entries, one for each key
  req,
  events, changes, googleFaults

googleVars == <<foreign, left, writable>>
budgets == <<events, changes, googleFaults>>
offerVars == <<now, window, bookable, link, googleVars, classes, access, busy, req, budgets>>

None == "none"
Requests == Askers \cup Bookers
NoClass == [instructor |-> None, minutes |-> {}, calendar |-> None, event |-> {}]
NoAccess == [expires |-> 0, by |-> None, value |-> {}]
NoBusy == [c \in {} |-> {}]
NoReq == [pc |-> "idle", kind |-> None, wait |-> None, who |-> {}, minutes |-> {}, long |-> 1,
          class |-> None, from |-> NoClass, calendar |-> None, write |-> None, seen |-> {},
          asked |-> 0, key |-> [calendars |-> {}, window |-> {}], can |-> {}, value |-> NoBusy, links |-> [i \in {} |-> None], offer |-> [i \in {} |-> {}]]

OffersInit ==
  /\ now = 0 /\ window \in Windows /\ bookable = Instructors
  /\ link \in {f \in [Instructors -> Calendars] : \A i, j \in Instructors : i # j => f[i] # f[j]}
  /\ writable = Calendars /\ foreign = {} /\ left = {}
  /\ classes = [k \in Classes |-> NoClass]
  /\ access = NoAccess /\ busy = {}
  /\ req = [r \in Requests |-> NoReq]
  /\ events = 0 /\ changes = 0 /\ googleFaults = 0

To(r, s) == req' = [req EXCEPT ![r] = s]
Done(r) == To(r, NoReq)
Range(s, n) == s..(s + n - 1)
Live(k) == classes[k] # NoClass
Change == changes < MaxChanges /\ changes' = changes + 1 /\ UNCHANGED <<events, googleFaults>>

(* The minutes of a calendar that Google reports busy. *)
Held(c) ==
  UNION {e.minutes : e \in {f \in foreign \cup left : f.calendar = c}}
    \cup UNION {classes[k].event : k \in {l \in Classes : classes[l].calendar = c}}

(* The rows of busyClasses. *)
Taken(i, but) == UNION {classes[k].minutes : k \in {l \in Classes \ but : classes[l].instructor = i}}

------------------------------------------------------------------------------
(* BookingCalendarsService: an answer under way is cached too, and shared by who asks meanwhile.   *)
(* A reader waits for the request that made the call; "got" marks an answer that has come.          *)
Got == "got"

WritableExpired(entry) == entry.expires <= now

(* writableCalendars *)
AskAccess(r, s) ==
  IF WritableExpired(access)
  THEN /\ access' = [expires |-> now + TTL, by |-> r, value |-> {}]
       /\ To(r, [s EXCEPT !.pc = "access", !.wait = r])
  ELSE /\ To(r, [s EXCEPT !.pc = "access", !.wait = access.by, !.can = access.value])
       /\ UNCHANGED access

(* Mutation: an entry is used whatever its age. *)
FreshAlways(entry, key) == entry.key = key
(* Mutation: the calendars alone are the key. *)
FreshOfCalendars(entry, key) == entry.key.calendars = key.calendars /\ entry.expires > now
(* cachedFreeBusy: the hit. *)
Fresh(entry, key) == entry.key = key /\ entry.expires > now

(* prune *)
Unexpired == {e \in busy : e.expires > now}

(* cachedFreeBusy: a miss drops what has expired and replaces the entry of its key. *)
AskBusy(r, s, key) ==
  LET hits == {e \in busy : Fresh(e, key)}
      mine == [key |-> key, expires |-> now + TTL, by |-> r, value |-> NoBusy] IN
  IF hits # {}
  THEN \E e \in hits : /\ To(r, [s EXCEPT !.pc = "busy", !.key = key, !.wait = e.by, !.value = e.value])
                       /\ UNCHANGED busy
  ELSE /\ busy' = {e \in Unexpired : e.key # key} \cup {mine}
       /\ To(r, [s EXCEPT !.pc = "busy", !.key = key, !.wait = r])

(* The answer reaches the cache and everyone who waits for it. *)
Deliver(r, can, value) ==
  req' = [q \in Requests |-> IF req[q].pc = req[r].pc /\ req[q].wait = r
                             THEN [req[q] EXCEPT !.wait = Got, !.can = can, !.value = value] ELSE req[q]]

AccessAnswered(r) ==
  /\ req[r].pc = "access" /\ req[r].wait = r
  /\ Deliver(r, writable, NoBusy)
  /\ access' = IF access.by = r THEN [access EXCEPT !.by = Got, !.value = writable] ELSE access
  /\ UNCHANGED <<now, window, bookable, link, googleVars, classes, busy, budgets>>

(* freeBusy: a calendar may come with errors instead. *)
BusyAnswered(r) ==
  /\ req[r].pc = "busy" /\ req[r].wait = r
  /\ LET key == req[r].key IN
     \E known \in {key.calendars} \cup {key.calendars \ {c} : c \in key.calendars} :
       LET value == [c \in known |-> Held(c) \cap key.window] IN
       /\ googleFaults' = googleFaults + (IF known = key.calendars THEN 0 ELSE 1)
       /\ googleFaults' <= MaxFaults
       /\ Deliver(r, {}, value)
       /\ busy' = {IF e.by = r THEN [e EXCEPT !.by = Got, !.value = value] ELSE e : e \in busy}
  /\ UNCHANGED <<now, window, bookable, link, googleVars, classes, access, events, changes>>

(* A call that fails takes the entry of its key along, and everyone who waits gets the error. *)
GoogleFails(r) ==
  /\ req[r].pc \in {"access", "busy"} /\ req[r].wait = r
  /\ googleFaults < MaxFaults /\ googleFaults' = googleFaults + 1
  /\ access' = IF access.by = r THEN NoAccess ELSE access
  /\ busy' = {e \in busy : req[r].pc = "busy" => e.key # req[r].key}
  /\ req' = [q \in Requests |-> IF req[q].pc = req[r].pc /\ req[q].wait = r THEN NoReq ELSE req[q]]
  /\ UNCHANGED <<now, window, bookable, link, googleVars, classes, events, changes>>

------------------------------------------------------------------------------
(* availability *)
Linked(i) == link[i] # None

OfferLoad(r, n) ==
  /\ req[r].pc = "idle"
  /\ window # {}
  /\ LET who == {i \in bookable : Linked(i)} IN
     /\ who # {}
     /\ AskAccess(r, [NoReq EXCEPT !.kind = "offer", !.minutes = window, !.long = n, !.who = who,
                                   !.links = [i \in who |-> link[i]]])
  /\ UNCHANGED <<now, window, bookable, link, googleVars, classes, busy, budgets>>

OfferAsk(r) ==
  /\ req[r].pc = "access" /\ req[r].kind = "offer" /\ req[r].wait = Got
  /\ LET who == {i \in req[r].who : req[r].links[i] \in req[r].can} IN
     IF who = {}
     THEN Done(r) /\ UNCHANGED busy
     ELSE AskBusy(r, [req[r] EXCEPT !.who = who, !.asked = now, !.can = {}],
                  [calendars |-> {req[r].links[i] : i \in who}, window |-> req[r].minutes])
  /\ UNCHANGED <<now, window, bookable, link, googleVars, classes, access, budgets>>

(* overlapsAny *)
FreeOf(slot, blocks) == slot \cap blocks = {}

(* busyClasses, then the slots of each calendar Google answered for. *)
OfferAnswer(r) ==
  /\ req[r].pc = "busy" /\ req[r].kind = "offer" /\ req[r].wait = Got
  /\ LET s == req[r]
         who == {i \in s.who : s.links[i] \in DOMAIN s.value}
         slots(i) == {t \in s.minutes : /\ t >= now
                                        /\ Range(t, s.long) \subseteq s.minutes
                                        /\ FreeOf(Range(t, s.long), s.value[s.links[i]] \cup Taken(i, {}))}
     IN To(r, [s EXCEPT !.pc = "offered", !.value = NoBusy, !.wait = None,
                        !.offer = [i \in who |-> slots(i)]])
  /\ UNCHANGED <<now, window, bookable, link, googleVars, classes, access, busy, budgets>>

OfferSent(r) ==
  /\ req[r].pc = "offered" /\ Done(r)
  /\ UNCHANGED <<now, window, bookable, link, googleVars, classes, access, busy, budgets>>

------------------------------------------------------------------------------
(* create and update.  A time that is over is not checked against Google. *)
Past(minutes) == \E t \in minutes : t < now /\ \A u \in minutes : t <= u
ToGoogle(r, s) == To(r, [s EXCEPT !.pc = "classes"]) /\ UNCHANGED access

Create(r, i, t, n, add) ==
  /\ req[r].pc = "idle"
  /\ LET minutes == Range(t, n) IN
     /\ minutes \subseteq Minutes
     /\ ~Past(minutes) => i \in bookable
     /\ LET s == [NoReq EXCEPT !.kind = "create", !.who = {i}, !.minutes = minutes, !.asked = now,
                    !.calendar = IF Past(minutes) THEN None ELSE link[i],
                    !.write = IF add THEN link[i] ELSE None] IN
        IF ~add THEN ToGoogle(r, s)
        ELSE link[i] # None /\ AskAccess(r, s)
  /\ UNCHANGED <<now, window, bookable, link, googleVars, classes, busy, budgets>>

Update(r, k, i, t, n) ==
  /\ req[r].pc = "idle" /\ Live(k)
  /\ LET minutes == Range(t, n)
         class == classes[k]
         moves == class.calendar # None /\ i # class.instructor
         s == [NoReq EXCEPT !.kind = "update", !.class = k, !.from = class, !.who = {i}, !.minutes = minutes, !.asked = now,
                 !.calendar = IF Past(minutes) THEN None ELSE link[i],
                 !.write = IF moves THEN link[i] ELSE class.calendar] IN
     /\ minutes \subseteq Minutes
     /\ IF moves THEN link[i] # None /\ AskAccess(r, s) ELSE ToGoogle(r, s)
  /\ UNCHANGED <<now, window, bookable, link, googleVars, classes, busy, budgets>>

(* requireWritable *)
BookAccess(r) ==
  /\ req[r].pc = "access" /\ req[r].kind # "offer" /\ req[r].wait = Got
  /\ IF req[r].write \in req[r].can
     THEN To(r, [req[r] EXCEPT !.pc = "classes", !.wait = None, !.can = {}])
     ELSE Done(r)
  /\ UNCHANGED <<now, window, bookable, link, googleVars, classes, access, busy, budgets>>

(* conflicts: the classes first, then googleBusy. *)
ReadClasses(r) ==
  /\ req[r].pc = "classes"
  /\ \E i \in req[r].who :
       To(r, [req[r] EXCEPT !.pc = "google", !.seen = Taken(i, {req[r].class})])
  /\ UNCHANGED <<now, window, bookable, link, googleVars, classes, access, busy, budgets>>

(* Mutation: booking uses the cache of availability. *)
BusyCached(calendar) ==
  LET hits == {e \in busy : calendar \in DOMAIN e.value /\ e.expires > now} IN
  IF hits = {} THEN Held(calendar) ELSE (CHOOSE e \in hits : TRUE).value[calendar]
(* freshFreeBusy *)
BusyNow(calendar) == Held(calendar)

(* Mutation: the old time of the class is ignored whatever calendar its event is in. *)
OwnBlockAlways(s) == IF s.from.event # {} THEN s.from.minutes ELSE {}
(* The block of the class's own event, which the new time may overlap. *)
OwnBlock(s) == IF s.from.event # {} /\ s.from.calendar = s.calendar THEN s.from.minutes ELSE {}

Conflicts(s) ==
  s.minutes \cap (s.seen \cup IF s.calendar = None THEN {} ELSE BusyNow(s.calendar) \ OwnBlock(s)) # {}

ReadGoogle(r) ==
  /\ req[r].pc = "google"
  /\ \/ /\ IF Conflicts(req[r]) THEN Done(r) ELSE To(r, [req[r] EXCEPT !.pc = "write"])
        /\ UNCHANGED googleFaults
     \/ /\ req[r].calendar # None
        /\ googleFaults < MaxFaults /\ googleFaults' = googleFaults + 1
        /\ Done(r)
  /\ UNCHANGED <<now, window, bookable, link, googleVars, classes, access, busy, events, changes>>

(* book_classes and rebook_class look for other classes once more, under the instructor's lock. *)
(* A class that changes its calendar leaves its event to be deleted.                             *)
Write(r) ==
  /\ req[r].pc = "write"
  /\ \E i \in req[r].who :
       LET s == req[r] IN
       IF s.minutes \cap Taken(i, {s.class}) # {}
       THEN UNCHANGED <<classes, left>>
       ELSE IF s.kind = "create"
       THEN \E k \in Classes :
              /\ ~Live(k) /\ \A q \in Requests : req[q].class # k
              /\ classes' = [classes EXCEPT ![k] =
                   [NoClass EXCEPT !.instructor = i, !.minutes = s.minutes, !.calendar = s.write]]
              /\ UNCHANGED left
       ELSE LET class == classes[s.class] drops == class.calendar # s.write IN
            IF ~Live(s.class) THEN UNCHANGED <<classes, left>>
            ELSE /\ classes' = [classes EXCEPT ![s.class] =
                      [instructor |-> i, minutes |-> s.minutes, calendar |-> s.write,
                       event |-> IF drops THEN {} ELSE class.event]]
                 /\ left' = left \cup IF drops /\ class.event # {}
                                      THEN {[calendar |-> class.calendar, minutes |-> class.event]} ELSE {}
  /\ Done(r)
  /\ UNCHANGED <<now, window, bookable, link, foreign, writable, access, busy, budgets>>

(* cancel *)
Cancel(k) ==
  /\ Live(k)
  /\ classes' = [classes EXCEPT ![k] = NoClass]
  /\ left' = left \cup IF classes[k].event = {} THEN {}
                       ELSE {[calendar |-> classes[k].calendar, minutes |-> classes[k].event]}
  /\ UNCHANGED <<now, window, bookable, link, foreign, writable, access, busy, req, budgets>>

(* CalendarSyncService puts the class into its calendar, deletes what is left over. *)
SyncClass(k) ==
  /\ Live(k) /\ classes[k].calendar # None /\ classes[k].event # classes[k].minutes
  /\ classes' = [classes EXCEPT ![k].event = classes[k].minutes]
  /\ UNCHANGED <<now, window, bookable, link, googleVars, access, busy, req, budgets>>
SyncDeletion ==
  /\ \E e \in left : left' = left \ {e}
  /\ UNCHANGED <<now, window, bookable, link, foreign, writable, classes, access, busy, req, budgets>>

------------------------------------------------------------------------------
(* InstructorCalendarsService.set: a calendar belongs to one instructor. *)
SetCalendar(i, c) ==
  /\ Change /\ link[i] # c
  /\ c # None => \A j \in Instructors : link[j] # c
  /\ link' = [link EXCEPT ![i] = c]
  /\ UNCHANGED <<now, window, bookable, googleVars, classes, access, busy, req>>

(* BookingSettingsService.update: a day ends after it starts, or is closed. *)
SaveSettings(w) ==
  /\ Change /\ window' = w /\ w # window
  /\ UNCHANGED <<now, bookable, link, googleVars, classes, access, busy, req>>

SetActive(i) ==
  /\ Change
  /\ bookable' = IF i \in bookable THEN bookable \ {i} ELSE bookable \cup {i}
  /\ UNCHANGED <<now, window, link, googleVars, classes, access, busy, req>>

(* Sharing of a calendar, in Google. *)
Share(c) ==
  /\ Change
  /\ writable' = IF c \in writable THEN writable \ {c} ELSE writable \cup {c}
  /\ UNCHANGED <<now, window, bookable, link, foreign, left, classes, access, busy, req>>

(* Other people's events. *)
AddEvent(c, t, n) ==
  /\ events < MaxEvents /\ events' = events + 1
  /\ Range(t, n) \subseteq Minutes
  /\ foreign' = foreign \cup {[calendar |-> c, minutes |-> Range(t, n), since |-> now]}
  /\ UNCHANGED <<now, window, bookable, link, left, writable, classes, access, busy, req, changes, googleFaults>>

Tick ==
  /\ now < LastMinute /\ now' = now + 1
  /\ UNCHANGED <<window, bookable, link, googleVars, classes, access, busy, req, budgets>>

OffersNext ==
  \/ \E r \in Requests :
       \/ AccessAnswered(r) \/ BusyAnswered(r) \/ GoogleFails(r)
       \/ OfferAsk(r) \/ OfferAnswer(r) \/ OfferSent(r)
       \/ BookAccess(r) \/ ReadClasses(r) \/ ReadGoogle(r) \/ Write(r)
  \/ \E r \in Askers, n \in Durations : OfferLoad(r, n)
  \/ \E r \in Bookers, n \in Durations, i \in Instructors, t \in Minutes :
       \/ \E add \in BOOLEAN : Create(r, i, t, n, add)
       \/ \E k \in Classes : Update(r, k, i, t, n)
  \/ \E k \in Classes : Cancel(k) \/ SyncClass(k)
  \/ SyncDeletion
  \/ \E i \in Instructors : SetActive(i) \/ \E c \in Calendars \cup {None} : SetCalendar(i, c)
  \/ \E w \in Windows : SaveSettings(w)
  \/ \E c \in Calendars : Share(c) \/ \E t \in Minutes, n \in Durations : AddEvent(c, t, n)
  \/ Tick

OffersSpec == OffersInit /\ [][OffersNext]_offerVars

------------------------------------------------------------------------------
(* What availability offers is inside the hours it read, is taken by none of the instructor's classes  *)
(* when it answers, and by no event that had been in the calendar since the oldest answer still in      *)
(* the cache when it asked (CALENDAR_CACHE_TTL_MS).                                                     *)
OfferIsFree(r) ==
  req[r].pc = "busy" /\ req'[r].pc = "offered" =>
    \A i \in DOMAIN req'[r].offer : \A t \in req'[r].offer[i] :
      LET slot == Range(t, req[r].long) IN
      /\ slot \subseteq req[r].minutes
      /\ \A k \in Classes : classes[k].instructor = i => slot \cap classes[k].minutes = {}
      /\ \A e \in foreign : e.calendar = req[r].links[i] /\ e.since + TTL <= req[r].asked
                              => slot \cap e.minutes = {}

(* A class is written over no event of somebody else that was in the instructor's calendar before the  *)
(* request began, except where the class's own event in that calendar was; the cache of availability    *)
(* has no part in it.                                                                                    *)
BookingIsClear(r, k) ==
  LET s == req[r]
      own == IF s.from.calendar = s.calendar /\ s.from.event # {} THEN s.from.minutes ELSE {} IN
  s.pc = "write" /\ req'[r].pc = "idle" /\ s.calendar # None
    /\ classes'[k] # classes[k] /\ classes'[k].minutes # {} =>
    \A e \in foreign : e.calendar = s.calendar /\ e.since < s.asked
      => (classes'[k].minutes \ own) \cap e.minutes = {}

(* Both, of every step. *)
OffersHold == \A r \in Requests : OfferIsFree(r) /\ \A k \in Classes : BookingIsClear(r, k)
====
