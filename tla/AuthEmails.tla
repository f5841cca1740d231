---- MODULE AuthEmails ----
(* The emails of the auth service's hook and how the mailer sends them: one or two at a time, each      *)
(* tried again when the provider fails or does not answer, audited and logged.                          *)
(*   auth-hooks/send-email-hook.service.ts, send-email-hook.controller.ts, hook-error.filter.ts,         *)
(*   mailer/mailer.service.ts, resend-email-sender.ts, email-attachments.ts                              *)
(* A payload gives the action, the addresses and the hashes of the links; the empty string is Absent.   *)
(* Rendering, languages and the notices without a link other than one are left out.                     *)
EXTENDS Integers, Sequences

CONSTANTS
  HookCalls,      \* hook calls, and sends of the rest of the program in the background
  Payloads,       \* [type, email, new, old, hash, hashNew] of the hook
  Absent,
  Timeout, Quick, \* how long an attempt takes, by mode, in units of the backoff: not answered, answered
  MaxMailFaults   \* bound: log and audit rows not written

\* The auth service waits five seconds, twenty units of 250 ms, for the hook's attempts and pauses;
\* and the two hashes of a change of address are of different links.
Budget == 20
ASSUME MailBounds ==
  /\ Quick \in Nat /\ Timeout.sync \in Nat /\ Timeout.background \in Nat
  /\ Quick <= Timeout.sync /\ 2 * Timeout.sync + 1 <= Budget
  /\ \A p \in Payloads : p.hash # Absent => p.hash # p.hashNew

VARIABLES
  configured,     \* the provider's key and sender are set
  hookCall,       \* the calls: their mode, answer and planned emails
  mail,           \* each call's emails, by position
  inbox,          \* external: what the provider accepted, [call, n, to, link] with how often
  log, audit,     \* email_log and the notification.failure rows
  mailFaults

mailVars == <<configured, hookCall, mail, inbox, log, audit, mailFaults>>

Positions == {1, 2}
NoPayload == [type |-> "none", email |-> Absent, new |-> Absent, old |-> Absent, hash |-> Absent, hashNew |-> Absent]
NotCalled == [pc |-> "idle", mode |-> "none", payload |-> NoPayload, count |-> 0]
NoEmail ==
  [pc |-> "idle", to |-> Absent, link |-> Absent, tries |-> 0, elapsed |-> 0, lost |-> 0, outcome |-> "none"]

MailInit ==
  /\ configured \in BOOLEAN
  /\ hookCall = [c \in HookCalls |-> NotCalled]
  /\ mail = [c \in HookCalls |-> [n \in Positions |-> NoEmail]]
  /\ inbox = [c \in HookCalls |-> [n \in Positions |-> 0]]
  /\ log = {} /\ audit = {} /\ mailFaults = 0

Linked == {"signup", "recovery", "magiclink", "invite"}
\* The email carries the payload's code; "hash" stands for it.
Coded == {"reauthentication"}
Notices == {"password_changed_notification", "phone_changed_notification", "identity_linked_notification"}
MailTo(to, link) == [to |-> to, link |-> link]

\* Mutation: the hashes go to the addresses they are named for.
PlanEmailChangeAsNamed(p) ==
  IF p.hash # Absent /\ p.hashNew # Absent
  THEN <<MailTo(p.email, p.hash), MailTo(p.new, p.hashNew)>>
  ELSE <<MailTo(IF p.new # Absent THEN p.new ELSE p.email, IF p.hash # Absent THEN p.hash ELSE p.hashNew)>>
(* planEmailChange: of two hashes the current address gets token_hash_new, the new one token_hash. *)
PlanEmailChange(p) ==
  IF p.hash # Absent /\ p.hashNew # Absent
  THEN <<MailTo(p.email, p.hashNew), MailTo(p.new, p.hash)>>
  ELSE <<MailTo(IF p.new # Absent THEN p.new ELSE p.email, IF p.hash # Absent THEN p.hash ELSE p.hashNew)>>

(* plan: the emails a payload calls for. *)
Planned(p) ==
  CASE p.type \in Linked \cup Coded -> <<MailTo(p.email, p.hash)>>
    [] p.type \in Notices -> <<MailTo(p.email, Absent)>>
    [] p.type = "email_change" -> PlanEmailChange(p)
    [] p.type = "email_changed_notification" -> <<MailTo(IF p.old # Absent THEN p.old ELSE p.email, Absent)>>
    [] OTHER -> <<MailTo(p.email, p.hash)>>

\* requireHash: these types cannot do without a link.
Addressed(p) ==
  /\ \A n \in DOMAIN Planned(p) : Planned(p)[n].to # Absent
  /\ p.type \in Linked \cup Coded \cup {"email_change"} => \A n \in DOMAIN Planned(p) : Planned(p)[n].link # Absent

Started(c, mode, p, emails) ==
  /\ hookCall' = [hookCall EXCEPT ![c] = [pc |-> "sending", mode |-> mode, payload |-> p, count |-> Len(emails)]]
  /\ mail' = [mail EXCEPT ![c] = [n \in Positions |->
       IF n > Len(emails) THEN NoEmail
       ELSE [NoEmail EXCEPT !.pc = "ready", !.to = emails[n].to, !.link = emails[n].link]]]

(* handle: a payload it cannot address is 400; the others are sent together, synchronously. *)
Handle(c, p) ==
  /\ hookCall[c].pc = "idle"
  /\ IF Addressed(p) THEN Started(c, "sync", p, Planned(p))
     ELSE hookCall' = [hookCall EXCEPT ![c].pc = "refused"] /\ UNCHANGED mail
  /\ UNCHANGED <<configured, inbox, log, audit, mailFaults>>

\* Another part of the program sends an email in the background.
SendInBackground(c, p) ==
  /\ hookCall[c].pc = "idle"
  /\ Started(c, "background", p, <<MailTo(p.email, Absent)>>)
  /\ UNCHANGED <<configured, inbox, log, audit, mailFaults>>

------------------------------------------------------------------------------
(* deliver, for each email of a call. *)
Moved(c, n, email) == mail' = [mail EXCEPT ![c][n] = email]
Step(c, n, pc, outcome) == Moved(c, n, [mail[c][n] EXCEPT !.pc = pc, !.outcome = outcome])

(* The sender is not configured: skipped, and logged. *)
Skip(c, n) ==
  /\ mail[c][n].pc = "ready" /\ ~configured
  /\ Step(c, n, "log", "skipped")
  /\ UNCHANGED <<configured, hookCall, inbox, log, audit, mailFaults>>

(* The attachments are too large, or the template fails: failed without an attempt. *)
Prepare(c, n, ok) ==
  /\ mail[c][n].pc = "ready" /\ configured
  /\ IF ok THEN Moved(c, n, [mail[c][n] EXCEPT !.pc = "trying"])
     ELSE hookCall[c].mode = "background" /\ Step(c, n, "audit", "failed")
  /\ UNCHANGED <<configured, hookCall, inbox, log, audit, mailFaults>>

\* Mutation: the background's policy for both modes.
AttemptsAlike(mode) == 3
(* RETRY_POLICY *)
Attempts(mode) == IF mode = "sync" THEN 2 ELSE 3

\* 2 ** (attempt - 1), of the attempts that another may follow
Pause == <<1, 2>>
(* BACKOFF_BASE_MS * 2 ** (attempt - 1), between attempts *)
Backoff(c, n) ==
  IF mail[c][n].tries + 1 < Attempts(hookCall[c].mode) THEN Pause[mail[c][n].tries + 1] ELSE 0

Deliver(c, n) == inbox' = [inbox EXCEPT ![c][n] = @ + 1]
Tried(c, n, time, lost) ==
  [mail[c][n] EXCEPT !.tries = @ + 1, !.elapsed = @ + time, !.lost = @ + lost]

(* sendWithRetry: the provider accepts, and answers. *)
Accept(c, n) ==
  /\ mail[c][n].pc = "trying"
  /\ Deliver(c, n)
  /\ Moved(c, n, [Tried(c, n, Quick, 0) EXCEPT !.pc = "log", !.outcome = "sent"])
  /\ UNCHANGED <<configured, hookCall, log, audit, mailFaults>>

TryAgain(c, n, time, lost) ==
  LET next == Tried(c, n, time + Backoff(c, n), lost) IN
  Moved(c, n, IF next.tries < Attempts(hookCall[c].mode) THEN next
              ELSE [next EXCEPT !.pc = "audit", !.outcome = "failed"])

(* It refuses, or does not answer in time: it may have accepted all the same. *)
RefuseMail(c, n) ==
  /\ mail[c][n].pc = "trying"
  /\ TryAgain(c, n, Quick, 0)
  /\ UNCHANGED <<configured, hookCall, inbox, log, audit, mailFaults>>

NoAnswer(c, n, accepted) ==
  /\ mail[c][n].pc = "trying"
  /\ IF accepted THEN Deliver(c, n) ELSE UNCHANGED inbox
  /\ TryAgain(c, n, Timeout[hookCall[c].mode], IF accepted THEN 1 ELSE 0)
  /\ UNCHANGED <<configured, hookCall, log, audit, mailFaults>>

Written(ok) == IF ok THEN UNCHANGED mailFaults ELSE mailFaults < MaxMailFaults /\ mailFaults' = mailFaults + 1

(* auditFailure: best effort. *)
AuditFailure(c, n, ok) ==
  /\ mail[c][n].pc = "audit" /\ Written(ok)
  /\ audit' = IF ok THEN audit \cup {<<c, n>>} ELSE audit
  /\ Moved(c, n, [mail[c][n] EXCEPT !.pc = "log"])
  /\ UNCHANGED <<configured, hookCall, inbox, log>>

\* Mutation: the row says "sent" whatever came of it.
OutcomeSent(e) == "sent"
(* status: result.outcome *)
Outcome(e) == e.outcome

(* writeLog: best effort. *)
WriteLog(c, n, ok) ==
  /\ mail[c][n].pc = "log" /\ Written(ok)
  /\ log' = IF ok THEN log \cup {[call |-> c, n |-> n, status |-> Outcome(mail[c][n])]} ELSE log
  /\ Moved(c, n, [mail[c][n] EXCEPT !.pc = "done"])
  /\ UNCHANGED <<configured, hookCall, inbox, audit>>

------------------------------------------------------------------------------
Sent(c) == 1 .. hookCall[c].count

\* Mutation: the call is answered when any of its emails is sent.
SettledByAny(c) == \E n \in Sent(c) : mail[c][n].pc = "done" /\ mail[c][n].outcome = "sent"
(* Promise.all *)
Settled(c) == \A n \in Sent(c) : mail[c][n].pc = "done" /\ mail[c][n].outcome = "sent"

(* handle returns: 200, or 500 as soon as one email failed; the other one goes on. *)
AnswerOk(c) ==
  /\ hookCall[c].pc = "sending" /\ hookCall[c].mode = "sync" /\ Settled(c)
  /\ hookCall' = [hookCall EXCEPT ![c].pc = "ok"]
  /\ UNCHANGED <<configured, mail, inbox, log, audit, mailFaults>>
AnswerError(c) ==
  /\ hookCall[c].pc = "sending" /\ hookCall[c].mode = "sync"
  /\ \E n \in Sent(c) : mail[c][n].pc = "done" /\ mail[c][n].outcome # "sent"
  /\ hookCall' = [hookCall EXCEPT ![c].pc = "error"]
  /\ UNCHANGED <<configured, mail, inbox, log, audit, mailFaults>>

(* In the background send never rejects: its caller is told the outcome. *)
Resolve(c) ==
  /\ hookCall[c].pc = "sending" /\ hookCall[c].mode = "background" /\ mail[c][1].pc = "done"
  /\ hookCall' = [hookCall EXCEPT ![c].pc = mail[c][1].outcome]
  /\ UNCHANGED <<configured, mail, inbox, log, audit, mailFaults>>

MailNext ==
  \E c \in HookCalls :
    \/ \E p \in Payloads : Handle(c, p) \/ SendInBackground(c, p)
    \/ AnswerOk(c) \/ AnswerError(c) \/ Resolve(c)
    \/ \E n \in Positions :
         \/ Skip(c, n) \/ Accept(c, n) \/ RefuseMail(c, n)
         \/ \E ok \in BOOLEAN : \/ Prepare(c, n, ok) \/ NoAnswer(c, n, ok)
                                \/ AuditFailure(c, n, ok) \/ WriteLog(c, n, ok)

MailSpec == MailInit /\ [][MailNext]_mailVars

------------------------------------------------------------------------------
\* The hook answers 200 only when the provider took every email the action needs, and nothing was sent
\* of a call it refused.
OkMeansAccepted ==
  \A c \in HookCalls :
    /\ hookCall[c].pc = "ok" => \A n \in DOMAIN Planned(hookCall[c].payload) : inbox[c][n] > 0
    /\ hookCall[c].pc = "refused" => \A n \in Positions : inbox[c][n] = 0

\* A link that confirms an address reaches that address and no other: of an email change's two hashes,
\* the auth service pairs token_hash_new with the current address and token_hash with the new one.
LinksReachTheirOwner ==
  \A c \in HookCalls : \A n \in Positions :
    inbox[c][n] > 0 /\ mail[c][n].link # Absent /\ hookCall[c].payload.type = "email_change" =>
      LET p == hookCall[c].payload
          ofCurrent == p.hash # Absent /\ mail[c][n].link = p.hashNew IN
      mail[c][n].to = IF ofCurrent \/ p.new = Absent THEN p.email ELSE p.new

\* The attempts and the pauses of a call of the hook fit what the auth service waits.
WithinBudget ==
  \A c \in HookCalls : \A n \in Positions :
    mail[c][n].pc # "idle" /\ hookCall[c].mode = "sync" => mail[c][n].elapsed <= Budget

\* The log tells what happened: "sent" is in an inbox, and an email that was skipped is in none; an email
\* comes twice only when an attempt that was not answered had been accepted; a failure that is not
\* audited is one whose audit row was lost.
LogIsTrue ==
  /\ \A line \in log :
       /\ line.status = "sent" => inbox[line.call][line.n] > 0
       /\ line.status = "skipped" => inbox[line.call][line.n] = 0
       /\ line.status = "failed" => inbox[line.call][line.n] = mail[line.call][line.n].lost
  /\ \A c \in HookCalls : \A n \in Positions :
       mail[c][n].pc # "idle" => inbox[c][n] <= mail[c][n].lost + 1
  /\ mailFaults = 0 => \A c \in HookCalls : \A n \in Positions : mail[c][n].pc = "done" =>
       \E line \in log : line.call = c /\ line.n = n /\ (line.status = "failed") = (<<c, n>> \in audit)

HookKeepsItsWord == OkMeansAccepted /\ LinksReachTheirOwner /\ WithinBudget /\ LogIsTrue
====
