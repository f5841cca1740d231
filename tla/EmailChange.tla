---- MODULE EmailChange ----
(* How an admin changes the email of an instructor's account:                     *)
(*   admin/admin-instructor-email.service.ts, admin.repository.ts                  *)
(*   activation/activation.service.ts (moveInvites)                                *)
(*   supabase/migrations/014_email_sync_trigger.sql                                *)
(* The address is in three places: the instructors row, the auth user, whose       *)
(* trigger writes the row, and the invites. Changes of one instructor keep off     *)
(* each other by the rows they append to the audit log and read again before each  *)
(* step; a change that stopped halfway is resumed by the same request sent again.  *)
(* A step is one query, or reads that follow each other; one instructor, one       *)
(* invite.                                                                          *)
EXTENDS Naturals, Sequences, FiniteSetsExt

CONSTANTS
  Emails,
  First,          \* the address at the start
  Admins,         \* requests under way at once
  HistoryRows,    \* CHANGE_HISTORY_ROWS
  MaxChanges,     \* bound: changes begun
  MaxFaults       \* bound: calls that fail, processes that die

VARIABLES
  profile,        \* instructors.email
  authEmail,      \* auth.users.email
  inviteEmail,    \* instructor_invites.email
  trail,          \* the audit rows of instructorEmailChange, oldest first
  aged,           \* the rows that are IN_FLIGHT_MS old
  change,         \* change[a]: the request of an admin
  told,           \* history: addresses that were told they are given up, with the change
  slow,           \* history: a change was at work for IN_FLIGHT_MS after its last row
  emailFaults

emailVars == <<profile, authEmail, inviteEmail, trail, aged, change, told, slow, emailFaults>>
addresses == <<profile, authEmail, inviteEmail>>
outside == <<aged, told, slow>>

None == "none"
Idle == [pc |-> "idle", from |-> None, to |-> None, id |-> 0, resumed |-> FALSE, old |-> None,
         invites |-> {}, older |-> {}, seen |-> 0, waited |-> FALSE, auth |-> None,
         failed |-> FALSE, restored |-> FALSE, status |-> None]

EmailInit ==
  /\ profile = First /\ authEmail = First /\ inviteEmail = First
  /\ trail = <<>> /\ aged = 0 /\ told = {} /\ slow = FALSE /\ emailFaults = 0
  /\ change = [a \in Admins |-> Idle]

Fault == emailFaults < MaxFaults /\ emailFaults' = emailFaults + 1
To(a, c) == change' = [change EXCEPT ![a] = c]
Go(a, pc) == To(a, [change[a] EXCEPT !.pc = pc])

------------------------------------------------------------------------------
(* The log *)

History(n) == {i \in 1 .. n : i + HistoryRows > n}
KeyOf(a) == <<change[a].from, change[a].to>>

(* latestOf among the first n rows, 0 when there is none. *)
Latest(n, id) == Max({0} \cup {i \in History(n) : trail[i].id = id})
Open(n, id) == Latest(n, id) > 0 /\ trail[Latest(n, id)].status \in {"started", "superseding"}
Running(n, id) == Open(n, id) /\ Latest(n, id) > aged

(* unfinishedIn: the newest rows of this key, past the changes that took nothing. *)
Unclaimed ==
  {trail[i].id : i \in {j \in History(Len(trail)) :
     trail[j].status = "stale" \/ (trail[j].status = "aborted" /\ trail[j].restored)}}
Chain(key, skip) ==
  LET rows == {i \in History(Len(trail)) : trail[i].id \notin Unclaimed \cup {skip}}
  IN {i \in rows : \A j \in rows : j >= i => trail[j].key = key}
Unfinished(key, skip) ==
  Chain(key, skip) # {} /\ trail[Max(Chain(key, skip))].status # "completed"
InFlight(key) ==
  LET last == Max(Chain(key, 0))
  IN trail[last].status \in {"started", "superseding"} /\ last > aged
Notified(key) == \E i \in Chain(key, 0) : trail[i].status = "incomplete"

Superseded(id) ==
  \E i \in History(Len(trail)) : trail[i].status = "superseding" /\ id \in trail[i].supersedes
Current(id) ==
  /\ \E i \in History(Len(trail)) : trail[i].id = id /\ trail[i].status = "started"
  /\ ~Superseded(id)

Entry(a, status) ==
  [id |-> change[a].id, key |-> KeyOf(a), status |-> status, resumed |-> change[a].resumed,
   supersedes |-> IF status = "superseding" THEN change[a].older ELSE {},
   restored |-> change[a].restored]

(* recordAudit, which throws. *)
Append1(a, status, next) ==
  \/ trail' = Append(trail, Entry(a, status)) /\ Go(a, next) /\ UNCHANGED emailFaults
  \/ Fault /\ To(a, Idle) /\ UNCHANGED trail

(* audit.record: the last row of a request; when it fails it is only missing. *)
Last(a, status) == To(a, [change[a] EXCEPT !.pc = "last", !.status = status])
RecordLast(a) ==
  /\ change[a].pc = "last"
  /\ \/ trail' = Append(trail, Entry(a, change[a].status)) /\ UNCHANGED emailFaults
     \/ Fault /\ UNCHANGED trail
  /\ To(a, Idle)
  /\ UNCHANGED <<addresses, outside>>

(* assertCurrent, then what follows. *)
StillCurrent(a) == Current(change[a].id)
Check(a, pc, next) ==
  /\ change[a].pc = pc
  /\ IF StillCurrent(a) THEN To(a, next) ELSE Last(a, "superseded")

------------------------------------------------------------------------------
(* changeEmail *)

Begun == Max({0} \cup {change[a].id : a \in Admins} \cup {trail[i].id : i \in DOMAIN trail})

Look(a, c) ==
  IF profile # c.to
  THEN /\ profile = c.from
       /\ To(a, [c EXCEPT !.pc = "read"])
  ELSE c.from # c.to /\ To(a, [c EXCEPT !.pc = "history"])

Submit(a, from, to) ==
  /\ change[a].pc = "idle" /\ Begun < MaxChanges
  /\ Look(a, [Idle EXCEPT !.from = from, !.to = to])
  /\ UNCHANGED <<addresses, trail, outside, emailFaults>>

(* The row already has the address: the request is resumed, refused, or waits for the *)
(* one that is in flight.                                                              *)
ReadHistory(a) ==
  /\ change[a].pc = "history"
  /\ IF ~Unfinished(KeyOf(a), 0) THEN To(a, Idle)
     ELSE IF InFlight(KeyOf(a)) THEN Go(a, "again")
     ELSE To(a, [change[a] EXCEPT !.pc = "begin", !.resumed = TRUE,
                    !.old = IF Notified(KeyOf(a)) THEN None ELSE change[a].from,
                    !.invites = {change[a].from, inviteEmail}])
  /\ UNCHANGED <<addresses, trail, outside, emailFaults>>

LookAgain(a) ==
  /\ change[a].pc = "again"
  /\ IF profile \in {change[a].to, change[a].from} THEN Look(a, change[a]) ELSE To(a, Idle)
  /\ UNCHANGED <<addresses, trail, outside, emailFaults>>

ReadStart(a) ==
  /\ change[a].pc = "read"
  /\ To(a, [change[a] EXCEPT !.pc = "begin", !.old = authEmail,
                             !.invites = {change[a].from, inviteEmail}])
  /\ UNCHANGED <<addresses, trail, outside, emailFaults>>

Begin(a) ==
  /\ change[a].pc = "begin" /\ Begun < MaxChanges
  /\ \/ LET c == [change[a] EXCEPT !.id = Begun + 1,
                                   !.pc = IF change[a].resumed THEN "take" ELSE "claim"]
        IN /\ trail' = Append(trail, [Entry(a, "started") EXCEPT !.id = c.id])
           /\ To(a, c) /\ UNCHANGED emailFaults
     \/ Fault /\ To(a, Idle) /\ UNCHANGED trail
  /\ UNCHANGED <<addresses, outside>>

(* claimInstructorEmail *)
Claim(a) ==
  /\ change[a].pc = "claim"
  /\ \/ /\ profile = change[a].from
        /\ profile' = change[a].to /\ Go(a, "take") /\ UNCHANGED emailFaults
     \/ profile # change[a].from /\ Last(a, "stale") /\ UNCHANGED <<profile, emailFaults>>
     \/ Fault /\ To(a, Idle) /\ UNCHANGED profile
  /\ UNCHANGED <<authEmail, inviteEmail, trail, outside>>

------------------------------------------------------------------------------
(* takeOver *)

Mine(a) == Max({0} \cup {i \in History(Len(trail)) :
                           trail[i].id = change[a].id /\ trail[i].status = "started"})
OlderOf(a) ==
  {trail[i].id : i \in {j \in History(Len(trail)) :
     /\ trail[j].status = "started" /\ trail[j].id # change[a].id
     /\ Open(Len(trail), trail[j].id)
     /\ IF change[a].resumed THEN j < Mine(a) /\ trail[j].key = KeyOf(a)
        ELSE j < Mine(a) \/ trail[j].resumed}}

Take(a) ==
  /\ change[a].pc = "take"
  /\ IF change[a].resumed /\ ~Unfinished(KeyOf(a), change[a].id) THEN Last(a, "stale")
     ELSE IF OlderOf(a) = {} THEN Go(a, "auth")
     ELSE To(a, [change[a] EXCEPT !.pc = "supersede", !.older = OlderOf(a), !.seen = Len(trail)])
  /\ UNCHANGED <<addresses, trail, outside, emailFaults>>

Supersede(a) ==
  /\ change[a].pc = "supersede"
  /\ Append1(a, "superseding", IF change[a].waited THEN "auth" ELSE "wait")
  /\ UNCHANGED <<addresses, outside>>

MustWait(a) ==
  \E id \in change[a].older :
    /\ \E i \in 1 .. change[a].seen : trail[i].id = id /\ trail[i].key # KeyOf(a)
    /\ Running(change[a].seen, id)
Wait(a) ==
  /\ change[a].pc = "wait"
  /\ IF MustWait(a)
     THEN Check(a, "wait", [change[a] EXCEPT !.seen = Len(trail), !.waited = TRUE])
     ELSE Go(a, IF change[a].waited THEN "supersede" ELSE "auth")
  /\ UNCHANGED <<addresses, trail, outside, emailFaults>>

------------------------------------------------------------------------------
(* moveAuthEmail *)

ReadAuth(a) ==
  /\ Check(a, "auth", [change[a] EXCEPT !.auth = authEmail,
                         !.pc = IF authEmail = change[a].to THEN "sessions" ELSE "update"])
  /\ UNCHANGED <<addresses, trail, outside, emailFaults>>

(* The trigger writes the address into the row. A call that fails is looked into: it *)
(* stands if it had its effect and the lookup says so.                                *)
Update(a) ==
  /\ change[a].pc = "update"
  /\ \/ authEmail' = change[a].to /\ profile' = change[a].to
        /\ \/ Go(a, "sessions") /\ UNCHANGED emailFaults
           \/ Fault /\ Go(a, "undo")
     \/ Fault /\ Go(a, "undo") /\ UNCHANGED <<profile, authEmail>>
  /\ UNCHANGED <<inviteEmail, trail, outside>>

CheckUndo(a) ==
  /\ Check(a, "undo", [change[a] EXCEPT !.pc = "release"])
  /\ UNCHANGED <<addresses, trail, outside, emailFaults>>

(* releaseClaim *)
RestoreTo(a) == IF change[a].resumed THEN change[a].auth ELSE change[a].from
Release(a) ==
  /\ change[a].pc = "release"
  /\ LET aborted(restored) ==
           To(a, [change[a] EXCEPT !.pc = "last", !.status = "aborted", !.restored = restored])
     IN \/ /\ profile' = IF profile = change[a].to THEN RestoreTo(a) ELSE profile
           /\ aborted(profile = change[a].to) /\ UNCHANGED emailFaults
        \/ Fault /\ aborted(FALSE) /\ UNCHANGED profile
  /\ UNCHANGED <<authEmail, inviteEmail, trail, outside>>

------------------------------------------------------------------------------
(* finish *)

RevokeSessions(a) ==
  /\ \/ Check(a, "sessions", [change[a] EXCEPT !.pc = "invites"]) /\ UNCHANGED emailFaults
     \/ Check(a, "sessions", [change[a] EXCEPT !.pc = "invites", !.failed = TRUE]) /\ Fault
  /\ UNCHANGED <<addresses, trail, outside>>

CheckInvites(a) ==
  /\ Check(a, "invites", [change[a] EXCEPT !.pc = "move"])
  /\ UNCHANGED <<addresses, trail, outside, emailFaults>>

(* moveInvites; Mutation: the invites are looked up under the new address. *)
MovableOfNew(a) == inviteEmail = change[a].to
Movable(a) == inviteEmail \in change[a].invites
MoveInvites(a) ==
  /\ change[a].pc = "move"
  /\ LET next == IF change[a].old = None THEN "record" ELSE "notify" IN
     \/ /\ inviteEmail' = IF Movable(a) THEN change[a].to ELSE inviteEmail
        /\ Go(a, next) /\ UNCHANGED emailFaults
     \/ /\ Fault /\ To(a, [change[a] EXCEPT !.pc = next, !.failed = TRUE])
        /\ UNCHANGED inviteEmail
  /\ UNCHANGED <<profile, authEmail, trail, outside>>

Notify(a) ==
  /\ Check(a, "notify", [change[a] EXCEPT !.pc = "record"])
  /\ told' = IF StillCurrent(a) THEN told \cup {KeyOf(a)} ELSE told
  /\ UNCHANGED <<addresses, trail, aged, slow, emailFaults>>

Record(a) ==
  /\ Check(a, "record", [change[a] EXCEPT !.pc = "last",
                           !.status = IF change[a].failed THEN "incomplete" ELSE "completed"])
  /\ UNCHANGED <<addresses, trail, outside, emailFaults>>

------------------------------------------------------------------------------

AtWork(a) == change[a].id > 0

(* IN_FLIGHT_MS pass. *)
TimePasses ==
  /\ aged < Len(trail) /\ aged' = Len(trail)
  /\ slow' = (slow \/ \E a \in Admins : AtWork(a))
  /\ UNCHANGED <<addresses, trail, change, told, emailFaults>>

Die(a) ==
  /\ change[a].pc # "idle" /\ Fault
  /\ To(a, Idle)
  /\ UNCHANGED <<addresses, trail, outside>>

EmailNext ==
  \/ TimePasses
  \/ \E a \in Admins :
       \/ \E from, to \in Emails : Submit(a, from, to)
       \/ ReadHistory(a) \/ LookAgain(a) \/ ReadStart(a) \/ Begin(a) \/ Claim(a)
       \/ Take(a) \/ Supersede(a) \/ Wait(a)
       \/ ReadAuth(a) \/ Update(a) \/ CheckUndo(a) \/ Release(a)
       \/ RevokeSessions(a) \/ CheckInvites(a) \/ MoveInvites(a) \/ Notify(a) \/ Record(a)
       \/ RecordLast(a) \/ Die(a)

EmailSpec == EmailInit /\ [][EmailNext]_emailVars

------------------------------------------------------------------------------

EmailTypeOK ==
  /\ {profile, authEmail, inviteEmail} \subseteq Emails
  /\ aged \in 0 .. Len(trail) /\ emailFaults \in 0 .. MaxFaults
  /\ \A i \in DOMAIN trail : trail[i].id \in 1 .. MaxChanges
  /\ \A a, b \in Admins : AtWork(a) /\ change[a].id = change[b].id => a = b

(* A change the log calls completed is complete, while no later one was begun and none   *)
(* is open: the row, the auth user and the invite have its address, and the old address  *)
(* was told; unless a change was at work for longer than others wait for it.             *)
NewestChange == Max({0} \cup {trail[i].id : i \in DOMAIN trail})
CompletedIsTrue ==
  \A i \in DOMAIN trail :
    /\ trail[i].status = "completed" /\ trail[i].id = NewestChange /\ ~slow
    /\ \A j \in DOMAIN trail : ~Open(Len(trail), trail[j].id)
    => /\ {profile, authEmail, inviteEmail} = {trail[i].key[2]}
       /\ trail[i].key \in told
====
