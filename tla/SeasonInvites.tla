---- MODULE SeasonInvites ----
(* The invites of one account: their emails, links and moves to another address.   *)
(*   activation/activation.service.ts, invite-dispatcher.ts, invite-delivery.ts,     *)
(*   invites.repository.ts, resend-cooldown.repository.ts, invite-token.ts           *)
(*   activation/roster/roster-import.ts (send, remind, release-stale-claims)         *)
(*   supabase/migrations/271_instructor_invites.sql, 304_activation_resend_cooldowns *)
(* Only the hash of the newest token is stored, so every email kills the links of     *)
(* those before it. A run claims an invite before it emails it; resends hold off by   *)
(* the age of the token; a move compares the address it has read.                     *)
EXTENDS Naturals, FiniteSets

CONSTANTS
  Invites,      \* numbers, in the order they were created; the greatest is the latest
  Emails,
  First,        \* the address at the start
  Runs,         \* deliveries: the script's --send and --remind, the worker's reminders
  Resends,      \* requests of a new link
  MaxTokens,    \* bound: tokens issued
  MaxMoves,     \* bound: changes of the address
  MaxByHand,    \* bound: releases of stale claims
  MaxInviteFaults  \* bound: calls that fail, processes that die

VARIABLES
  invite,       \* invite[i]: the row
  account,      \* the auth user's email
  tokens,       \* tokens issued
  run,          \* run[d]: a delivery
  resend,       \* resend[q]
  cooling,      \* addresses whose last request is under RESEND_COOLDOWN_SECONDS old
  move,         \* the move of the invites
  mails,        \* what was emailed: invite, kind, token, address
  moves,
  crossed,      \* history: invites whose link a move crossed
  unmailed,     \* history: invites whose newest link was emailed to nobody
  repeatable,   \* history: claims that were released after an email may have gone out
  misled,       \* history: somebody signed in by a link sent to another address
  byHand,
  inviteFaults

\* There is an address to start with; no run is called nobody, and no invite has the number 0.
ASSUME InviteBounds ==
  /\ First \in Emails /\ "nobody" \notin Runs /\ 0 \notin Invites
  /\ {MaxTokens, MaxMoves, MaxByHand, MaxInviteFaults} \subseteq Nat

inviteVars == <<invite, account, tokens, run, resend, cooling, move, mails, moves, crossed,
                unmailed, repeatable, misled, byHand, inviteFaults>>
jobs == <<run, resend, move>>
history == <<crossed, unmailed, repeatable, misled, byHand>>

Kinds == {"send", "remind"}
Latest == CHOOSE i \in Invites : \A j \in Invites : j <= i
NoRun == [pc |-> "idle", kind |-> "send", i |-> 0, to |-> First, token |-> 0]
NoMove == [pc |-> "idle", rows |-> {}, unsent |-> {}]
Unclaimed == "nobody"

InvitesInit ==
  /\ invite = [i \in Invites |->
       [email |-> First, token |-> 0, expired |-> TRUE, fresh |-> FALSE, week |-> FALSE,
        claim |-> [k \in Kinds |-> Unclaimed], done |-> [k \in Kinds |-> FALSE],
        redeemed |-> FALSE, activated |-> FALSE]]
  /\ account = First /\ tokens = 0 /\ moves = 0 /\ byHand = 0 /\ inviteFaults = 0
  /\ run = [d \in Runs |-> NoRun] /\ resend = [q \in Resends |-> NoRun] /\ move = NoMove
  /\ cooling = {} /\ mails = {} /\ crossed = {} /\ unmailed = {} /\ repeatable = {} /\ misled = FALSE

Fault == inviteFaults < MaxInviteFaults /\ inviteFaults' = inviteFaults + 1
ToRun(d, r) == run' = [run EXCEPT ![d] = r]
ToResend(q, r) == resend' = [resend EXCEPT ![q] = r]
Row(i, entry) == invite' = [invite EXCEPT ![i] = entry]

(* issueInviteToken, stored with an expiry 30 days ahead. *)
Issued(entry, token) == [entry EXCEPT !.token = token, !.expired = FALSE, !.fresh = TRUE]
Issue == tokens < MaxTokens /\ tokens' = tokens + 1
Mailed(r, kind) == [invite |-> r.i, kind |-> kind, token |-> r.token, to |-> r.to]

------------------------------------------------------------------------------
(* deliverOne: what listUnsent and listDueForReminder find, claimed, emailed, marked. *)

Unsent(entry) == ~entry.done["send"] /\ entry.claim["send"] = Unclaimed
DueForReminder(entry) ==
  /\ entry.week /\ ~entry.redeemed /\ ~entry.activated /\ ~entry.expired
  /\ ~entry.done["remind"] /\ entry.claim["remind"] = Unclaimed
Due(i, kind) == IF kind = "send" THEN Unsent(invite[i]) ELSE DueForReminder(invite[i])

StartRun(d, i, kind) ==
  /\ run[d].pc = "idle" /\ Due(i, kind)
  /\ ToRun(d, [NoRun EXCEPT !.pc = "claim", !.kind = kind, !.i = i, !.to = invite[i].email])
  /\ UNCHANGED <<invite, account, tokens, resend, cooling, move, mails, moves, history, inviteFaults>>

(* claim; Mutation: it does not look for the claim of another run. *)
ClaimableUnsent(i, kind) == ~invite[i].done[kind]
Claimable(i, kind) == invite[i].claim[kind] = Unclaimed /\ ~invite[i].done[kind]
ClaimInvite(d) ==
  /\ run[d].pc = "claim"
  /\ LET i == run[d].i kind == run[d].kind IN
     \/ /\ IF Claimable(i, kind)
           THEN Row(i, [invite[i] EXCEPT !.claim[kind] = d]) /\ ToRun(d, [run[d] EXCEPT !.pc = "token"])
           ELSE ToRun(d, NoRun) /\ UNCHANGED invite
        /\ UNCHANGED inviteFaults
     \/ Fault /\ ToRun(d, NoRun) /\ UNCHANGED invite
  /\ UNCHANGED <<account, tokens, resend, cooling, move, mails, moves, history>>

(* dispatch: setToken whatever the row has, then the email to the address that was listed. *)
SetToken(d) ==
  /\ run[d].pc = "token"
  /\ LET i == run[d].i IN
     \/ /\ Issue /\ Row(i, Issued(invite[i], tokens + 1))
        /\ ToRun(d, [run[d] EXCEPT !.pc = "mail", !.token = tokens + 1])
        /\ crossed' = IF run[d].to # invite[i].email THEN crossed \cup {i} ELSE crossed
        /\ UNCHANGED inviteFaults
     \/ /\ Fault /\ ToRun(d, [run[d] EXCEPT !.pc = "release"])
        /\ UNCHANGED <<invite, tokens, crossed>>
  /\ UNCHANGED <<account, resend, cooling, move, mails, moves, unmailed, repeatable, misled, byHand>>

MailRun(d) ==
  /\ run[d].pc = "mail"
  /\ LET r == run[d] kind == r.kind sent == mails \cup {Mailed(r, kind)} IN
     \/ /\ mails' = sent /\ ToRun(d, [r EXCEPT !.pc = "mark"])
        /\ UNCHANGED <<unmailed, repeatable, inviteFaults>>
     \/ /\ Fault /\ ToRun(d, [r EXCEPT !.pc = "release"])
        /\ \/ mails' = sent /\ repeatable' = repeatable \cup {<<r.i, kind>>} /\ UNCHANGED unmailed
           \/ unmailed' = unmailed \cup {r.i} /\ UNCHANGED <<mails, repeatable>>
  /\ UNCHANGED <<invite, account, tokens, resend, cooling, move, moves, crossed, misled, byHand>>

(* releaseClaim: this claim, and not once the email was marked. *)
Released(entry, kind, d) ==
  IF entry.claim[kind] = d /\ ~entry.done[kind] THEN [entry EXCEPT !.claim[kind] = Unclaimed] ELSE entry
ReleaseClaim(d) ==
  /\ run[d].pc = "release"
  /\ LET i == run[d].i IN
     \/ Row(i, Released(invite[i], run[d].kind, d)) /\ UNCHANGED inviteFaults
     \/ Fault /\ UNCHANGED invite
  /\ ToRun(d, NoRun)
  /\ UNCHANGED <<account, tokens, resend, cooling, move, mails, moves, history>>

(* markSent, markReminded *)
Marked(entry, kind) == [entry EXCEPT !.done[kind] = TRUE]
Mark(d) ==
  /\ run[d].pc = "mark"
  /\ \/ Row(run[d].i, Marked(invite[run[d].i], run[d].kind)) /\ UNCHANGED inviteFaults
     \/ Fault /\ UNCHANGED invite
  /\ ToRun(d, NoRun)
  /\ UNCHANGED <<account, tokens, resend, cooling, move, mails, moves, history>>

(* --release-stale-claims: the operator clears claims whose email was never marked. *)
UnfinishedClaims(kind) ==
  {i \in Invites : invite[i].claim[kind] # Unclaimed /\ ~invite[i].done[kind]}
ReleaseStale(kind) ==
  /\ byHand < MaxByHand /\ byHand' = byHand + 1
  /\ LET stale == UnfinishedClaims(kind) IN
     /\ stale # {}
     /\ invite' = [i \in Invites |->
          IF i \in stale THEN [invite[i] EXCEPT !.claim[kind] = Unclaimed] ELSE invite[i]]
     /\ repeatable' = repeatable \cup (stale \X {kind})
  /\ UNCHANGED <<account, tokens, jobs, cooling, mails, moves, crossed, unmailed, misled, inviteFaults>>

------------------------------------------------------------------------------
(* requestResend, then resend in the background *)

ClaimCooldown(e) == e \notin cooling /\ cooling' = cooling \cup {e}
RequestLink(q, e) ==
  /\ resend[q].pc = "idle" /\ ClaimCooldown(e)
  /\ ToResend(q, [NoRun EXCEPT !.pc = "read", !.to = e])
  /\ UNCHANGED <<invite, account, tokens, run, move, mails, moves, history, inviteFaults>>

LatestByEmail(e) ==
  LET found == {i \in Invites : invite[i].email = e} IN
  {i \in found : \A j \in found : j <= i}
(* resend: it was sent, and is not activated or its link is over. *)
Resendable(entry) == entry.done["send"] /\ (entry.activated => entry.expired)
ReadLatest(q) ==
  /\ resend[q].pc = "read"
  /\ LET found == {i \in LatestByEmail(resend[q].to) : Resendable(invite[i])} IN
     IF found = {} THEN ToResend(q, NoRun)
     ELSE \E i \in found : ToResend(q, [resend[q] EXCEPT !.pc = "replace", !.i = i])
  /\ UNCHANGED <<invite, account, tokens, run, cooling, move, mails, moves, history, inviteFaults>>

(* replaceTokenIfExpiringBy: not while the token is under a minute old. *)
Replace(q) ==
  /\ resend[q].pc = "replace"
  /\ LET i == resend[q].i IN
     IF invite[i].fresh
     THEN ToResend(q, NoRun) /\ UNCHANGED <<invite, tokens, crossed>>
     ELSE /\ Issue /\ Row(i, Issued(invite[i], tokens + 1))
          /\ ToResend(q, [resend[q] EXCEPT !.pc = "mail", !.token = tokens + 1])
          /\ crossed' = IF resend[q].to # invite[i].email THEN crossed \cup {i} ELSE crossed
  /\ UNCHANGED <<account, run, cooling, move, mails, moves, unmailed, repeatable, misled, byHand, inviteFaults>>

MailLink(q) ==
  /\ resend[q].pc = "mail"
  /\ \/ mails' = mails \cup {Mailed(resend[q], "resend")} /\ UNCHANGED <<unmailed, inviteFaults>>
     \/ Fault /\ unmailed' = unmailed \cup {resend[q].i} /\ UNCHANGED mails
  /\ ToResend(q, NoRun)
  /\ UNCHANGED <<invite, account, tokens, run, cooling, move, moves, crossed, repeatable, misled, byHand>>

------------------------------------------------------------------------------
(* moveInvites, after an email change has given the account another address *)

ChangeAddress(e) ==
  /\ move.pc = "idle" /\ moves < MaxMoves /\ e # account
  /\ moves' = moves + 1 /\ account' = e
  /\ move' = [move EXCEPT !.pc = "list"]
  /\ UNCHANGED <<invite, tokens, run, resend, cooling, mails, history, inviteFaults>>

ListInvites ==
  /\ move.pc = "list"
  /\ move' = [move EXCEPT !.pc = "move",
                !.rows = {[i |-> i, row |-> invite[i]] :
                            i \in {j \in Invites : invite[j].email # account}}]
  /\ UNCHANGED <<invite, account, tokens, run, resend, cooling, mails, moves, history, inviteFaults>>

(* moveTo: a link that was issued is replaced; only the latest invite that was sent and *)
(* not activated gets a new one. Mutation: an invite keeps its link.                     *)
RotatesNever(entry) == FALSE
Rotates(entry) == entry.token # 0
Reissues(i, entry) == i = Latest /\ Rotates(entry) /\ entry.done["send"] /\ ~entry.activated
OnItsWay(i) ==
  \E r \in {run[d] : d \in Runs} \cup {resend[q] : q \in Resends} : r.pc = "mail" /\ r.i = i
MoveTo(read) ==
  /\ move.pc = "move" /\ read \in move.rows
  /\ LET i == read.i
         entry == [invite[i] EXCEPT !.email = account] IN
     IF invite[i].email # read.row.email
     THEN UNCHANGED <<invite, tokens, crossed, unmailed>> /\ move' = [move EXCEPT !.rows = @ \ {read}]
     ELSE /\ IF Rotates(read.row) THEN Issue ELSE UNCHANGED tokens
          /\ Row(i, IF Reissues(i, read.row) THEN Issued(entry, tokens + 1)
                    ELSE IF Rotates(read.row) THEN [entry EXCEPT !.token = tokens + 1] ELSE entry)
          /\ crossed' = IF read.row.token # invite[i].token \/ OnItsWay(i)
                        THEN crossed \cup {i} ELSE crossed
          /\ unmailed' = IF Reissues(i, read.row) THEN unmailed ELSE unmailed \cup {i}
          /\ move' = [move EXCEPT !.rows = @ \ {read},
                        !.unsent = IF Reissues(i, read.row)
                                   THEN @ \cup {[NoRun EXCEPT !.i = i, !.to = account, !.token = tokens + 1]}
                                   ELSE @]
  /\ UNCHANGED <<account, run, resend, cooling, mails, moves, repeatable, misled, byHand, inviteFaults>>

MailMoved(r) ==
  /\ r \in move.unsent
  /\ \/ mails' = mails \cup {Mailed(r, "move")} /\ UNCHANGED <<unmailed, inviteFaults>>
     \/ Fault /\ unmailed' = unmailed \cup {r.i} /\ UNCHANGED mails
  /\ move' = [move EXCEPT !.unsent = @ \ {r}]
  /\ UNCHANGED <<invite, account, tokens, run, resend, cooling, moves, crossed, repeatable, misled, byHand>>

EndMove ==
  /\ move.pc = "move" /\ move.rows = {} /\ move.unsent = {}
  /\ move' = NoMove
  /\ UNCHANGED <<invite, account, tokens, run, resend, cooling, mails, moves, history, inviteFaults>>

------------------------------------------------------------------------------
(* redeem: the newest link, in time, of an invite that has the account's address. *)
ByToken(token) == {i \in Invites : invite[i].token = token}
Redeemed(entry) == [entry EXCEPT !.redeemed = TRUE]
Redeem(letter) ==
  /\ \E i \in ByToken(letter.token) :
       /\ ~invite[i].expired /\ account = invite[i].email
       /\ Row(i, Redeemed(invite[i]))
  /\ misled' = (misled \/ (letter.to # account /\ letter.invite \notin crossed))
  /\ UNCHANGED <<account, tokens, jobs, cooling, mails, moves, crossed, unmailed, repeatable, byHand, inviteFaults>>

(* complete: whoever signed in has set a password; all invites of the account count. *)
MarkActivated == invite' = [i \in Invites |-> [invite[i] EXCEPT !.activated = TRUE]]
CompleteInvites ==
  /\ \E i \in Invites : invite[i].redeemed /\ ~invite[i].activated
  /\ MarkActivated
  /\ UNCHANGED <<account, tokens, jobs, cooling, mails, moves, history, inviteFaults>>

(* A minute, a week, the 30 days of a link, a minute since a request. *)
Age(i) ==
  /\ \/ invite[i].fresh /\ Row(i, [invite[i] EXCEPT !.fresh = FALSE])
     \/ invite[i].done["send"] /\ ~invite[i].week /\ Row(i, [invite[i] EXCEPT !.week = TRUE])
     \/ ~invite[i].expired /\ ~invite[i].fresh /\ Row(i, [invite[i] EXCEPT !.expired = TRUE])
  /\ UNCHANGED <<account, tokens, jobs, cooling, mails, moves, history, inviteFaults>>
Cool(e) ==
  /\ e \in cooling /\ cooling' = cooling \ {e}
  /\ UNCHANGED <<invite, account, tokens, jobs, mails, moves, history, inviteFaults>>

DieRun(d) ==
  /\ run[d].pc # "idle" /\ Fault
  /\ ToRun(d, NoRun)
  /\ unmailed' = IF run[d].pc = "mail" THEN unmailed \cup {run[d].i} ELSE unmailed
  /\ UNCHANGED <<invite, account, tokens, resend, cooling, move, mails, moves, crossed, repeatable, misled, byHand>>

------------------------------------------------------------------------------

InvitesNext ==
  \/ \E d \in Runs :
       \/ \E i \in Invites, kind \in Kinds : StartRun(d, i, kind)
       \/ ClaimInvite(d) \/ SetToken(d) \/ MailRun(d) \/ ReleaseClaim(d) \/ Mark(d) \/ DieRun(d)
  \/ \E kind \in Kinds : ReleaseStale(kind)
  \/ \E q \in Resends :
       \/ \E e \in Emails : RequestLink(q, e)
       \/ ReadLatest(q) \/ Replace(q) \/ MailLink(q)
  \/ \E e \in Emails : ChangeAddress(e) \/ Cool(e)
  \/ ListInvites \/ EndMove
  \/ \E read \in move.rows : MoveTo(read)
  \/ \E r \in move.unsent : MailMoved(r)
  \/ \E letter \in mails : Redeem(letter)
  \/ CompleteInvites
  \/ \E i \in Invites : Age(i)

InvitesSpec == InvitesInit /\ [][InvitesNext]_inviteVars

------------------------------------------------------------------------------

InvitesTypeOK ==
  /\ tokens \in 0 .. MaxTokens /\ inviteFaults \in 0 .. MaxInviteFaults
  /\ \A i \in Invites : /\ invite[i].token \in 0 .. tokens /\ invite[i].email \in Emails
                        /\ invite[i].token = 0 => invite[i].expired
  /\ \A i, j \in Invites : invite[i].token = invite[j].token => i = j \/ invite[i].token = 0

(* The season email and the reminder of an invite go out once, whatever runs overlap or  *)
(* die, unless a claim was released after its email may have gone out.                    *)
EmailedOnce ==
  \A i \in Invites, kind \in Kinds :
    <<i, kind>> \notin repeatable =>
      Cardinality({letter \in mails : letter.invite = i /\ letter.kind = kind}) <= 1

(* When nobody works on an invite, the link that works was emailed to the address the    *)
(* invite has, and nobody signs in by one that was sent elsewhere: except where an email  *)
(* failed or a move crossed an email that was under way.                                  *)
Busy(i) == \/ \E d \in Runs : run[d].i = i
           \/ \E q \in Resends : resend[q].i = i
           \/ move.pc # "idle"
LinksFollowAddress ==
  /\ ~misled
  /\ \A i \in Invites :
       invite[i].token # 0 /\ ~Busy(i) /\ i \notin crossed \cup unmailed =>
         \E letter \in mails : /\ letter.invite = i /\ letter.token = invite[i].token
                              /\ letter.to = invite[i].email

(* A season email and a reminder go out once per invite, and the link that works was  *)
(* emailed to the address the invite has.                                             *)
InvitesReachOnce == InvitesTypeOK /\ EmailedOnce /\ LinksFollowAddress
====
