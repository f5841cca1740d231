---- MODULE CertificationUploads ----
(* Proof of one certification of an instructor: uploading, review, expiry emails. *)
(*   documents/me-certification-uploads.service.ts, admin-certification-uploads.   *)
(*   service.ts, certification-uploads.repository.ts, certification-validity.ts,   *)
(*   certification-expiry.service.ts                                               *)
(* A file goes to a staging key the client may write again until the URL ends, and *)
(* is copied under its hash. Confirms, reviews and passes of the daily emails run   *)
(* at once; a step is one query, one call of the storage or one email.             *)
EXTENDS Naturals, FiniteSets

CONSTANTS
  Uploads,      \* upload ids, numbers; at the start 1 is confirmed, 2 is staged
  Requests,     \* confirms and reviews under way at once
  Passes,       \* runs of the expiry emails, by the worker or the endpoint
  Window,       \* EXPIRING_WITHIN_DAYS
  Grace,        \* EXPIRED_REMINDER_GRACE_DAYS
  LastDate,     \* bound: dates are 1 .. LastDate
  MaxRequests,  \* bound: calls of instructors and admins
  MaxPasses,    \* bound: passes
  MaxCertFaults \* bound: crashes, failed calls and emails

VARIABLES
  date,
  certUpload,   \* certUpload[u]: the row of certification_uploads
  intent,       \* intent[u]: valid_until as declared, 0 without an intent
  staging,      \* staging[u]: what is at the staging key
  files,        \* final keys: upload and hash
  onProfile,    \* the profile has the certification, and its owner is approved
  request,      \* request[s]
  pass,         \* pass[p]
  told,         \* history: emails sent: upload, stage, version of the date
  excused,      \* history: uploads whose record was disturbed, see Disturbed
  certCounts

certVars == <<date, certUpload, intent, staging, files, onProfile, request, pass, told, excused,
              certCounts>>

\* The bounds in days are natural numbers, and there is a day on which it begins.
ASSUME CertBounds ==
  /\ IsFiniteSet(Uploads) /\ 1 \in Uploads /\ 0 \notin Uploads
  /\ LastDate \in Nat \ {0} /\ Window \in Nat /\ Grace \in Nat

Dates == 1 .. LastDate
NotSent == [day |-> 0, by |-> "nobody"]
NoUpload == [status |-> "none", sha |-> "none", until |-> 0, sent |-> NotSent, order |-> 0, rev |-> 0]
NoRequest == [pc |-> "idle", u |-> 1, until |-> 0, status |-> "none", bytes |-> "none", same |-> TRUE]
NoPass == [pc |-> "idle", day |-> 0, due |-> {}, at |-> [u |-> 0, stage |-> "none", sent |-> NotSent, rev |-> 0]]

CertInit ==
  /\ date = 1
  /\ certUpload = [u \in Uploads |-> IF u = 1 THEN [NoUpload EXCEPT !.status = "pending", !.sha = "x",
                                                 !.until = 1, !.order = 1] ELSE NoUpload]
  /\ intent = [u \in Uploads |-> IF u = 2 THEN LastDate ELSE 0]
  /\ staging = [u \in Uploads |-> IF u = 2 THEN "x" ELSE "none"]
  /\ files = {<<1, "x">>}
  /\ onProfile = TRUE
  /\ request = [s \in Requests |-> NoRequest]
  /\ pass = [p \in Passes |-> NoPass]
  /\ told = {} /\ excused = {}
  /\ certCounts = [requests |-> 0, passes |-> 0, faults |-> 0]

Counted(k, max) == certCounts[k] < max /\ certCounts' = [certCounts EXCEPT ![k] = @ + 1]
Asked == Counted("requests", MaxRequests)
CertFault == Counted("faults", MaxCertFaults)
ToRequest(s, r) == request' = [request EXCEPT ![s] = r]
ToPass(p, r) == pass' = [pass EXCEPT ![p] = r]
objects == <<intent, staging, files>>
mailing == <<pass, told, excused>>

------------------------------------------------------------------------------
(* MeCertificationUploadsService *)

(* uploadUrl: the intent, and a URL to PUT to, any time before it ends. *)
UploadUrl(u) ==
  /\ certUpload[u].status = "none" /\ intent[u] = 0 /\ onProfile /\ Asked
  /\ \E v \in date .. LastDate : intent' = [intent EXCEPT ![u] = v]
  /\ UNCHANGED <<date, certUpload, staging, files, onProfile, request, mailing>>

PutFile(u) ==
  /\ intent[u] # 0 /\ Asked
  /\ \E b \in {"x", "y", "bad"} : staging' = [staging EXCEPT ![u] = b]
  /\ UNCHANGED <<date, certUpload, intent, files, onProfile, request, mailing>>

(* confirm: a row means it is confirmed, without an intent it is unknown. *)
Confirm(s, u) ==
  /\ request[s].pc = "idle" /\ Asked
  /\ certUpload[u].status = "none"
  /\ ToRequest(s, [NoRequest EXCEPT !.pc = "intent", !.u = u])
  /\ UNCHANGED <<date, certUpload, objects, onProfile, mailing>>

ReadIntent(s) ==
  /\ request[s].pc = "intent"
  /\ ToRequest(s, IF intent[request[s].u] = 0 THEN NoRequest
                  ELSE [request[s] EXCEPT !.pc = "read", !.until = intent[request[s].u]])
  /\ UNCHANGED <<date, certUpload, objects, onProfile, mailing, certCounts>>

(* readStaged: what does not match the intent is discarded. *)
ReadStaged(s) ==
  /\ request[s].pc = "read"
  /\ LET u == request[s].u IN
     CASE staging[u] = "none" -> ToRequest(s, NoRequest) /\ UNCHANGED <<intent, staging>>
       [] staging[u] = "bad" -> /\ staging' = [staging EXCEPT ![u] = "none"]
                                /\ intent' = [intent EXCEPT ![u] = 0]
                                /\ ToRequest(s, NoRequest)
       [] OTHER -> /\ ToRequest(s, [request[s] EXCEPT !.pc = "put", !.bytes = staging[u]])
                   /\ UNCHANGED <<intent, staging>>
  /\ UNCHANGED <<date, certUpload, files, onProfile, mailing, certCounts>>

PutFinal(s) ==
  /\ request[s].pc = "put"
  /\ files' = files \cup {<<request[s].u, request[s].bytes>>}
  /\ ToRequest(s, [request[s] EXCEPT !.pc = "insert"])
  /\ UNCHANGED <<date, certUpload, intent, staging, onProfile, mailing, certCounts>>

(* insertOnce. *)
InsertOnce(s) ==
  /\ request[s].pc = "insert"
  /\ LET r == request[s] IN
     IF certUpload[r.u].status = "none"
     THEN /\ certUpload' = [certUpload EXCEPT ![r.u] = [NoUpload EXCEPT
                !.status = "pending", !.sha = r.bytes, !.until = r.until,
                !.order = 1 + Cardinality({v \in Uploads : certUpload[v].status # "none"})]]
          /\ ToRequest(s, [r EXCEPT !.pc = "clean"])
     ELSE UNCHANGED certUpload /\ ToRequest(s, [r EXCEPT !.pc = "winner"])
  /\ UNCHANGED <<date, objects, onProfile, mailing, certCounts>>

(* The other confirm's file_key is this one's when they read the same bytes. *)
OwnCopyAlways(r) == TRUE   \* mutation: the loser discards what it put
OwnCopy(r) == certUpload[r.u].sha # r.bytes

Winner(s) ==
  /\ request[s].pc = "winner"
  /\ files' = IF OwnCopy(request[s]) THEN files \ {<<request[s].u, request[s].bytes>>} ELSE files
  /\ ToRequest(s, [request[s] EXCEPT !.pc = "clean"])
  /\ UNCHANGED <<date, certUpload, intent, staging, onProfile, mailing, certCounts>>

Discard(s) ==
  /\ request[s].pc = "clean"
  /\ staging' = [staging EXCEPT ![request[s].u] = "none"]
  /\ intent' = [intent EXCEPT ![request[s].u] = 0]
  /\ ToRequest(s, NoRequest)
  /\ UNCHANGED <<date, certUpload, files, onProfile, mailing, certCounts>>

------------------------------------------------------------------------------
(* AdminCertificationUploadsService.review *)

Statuses == {"pending", "approved", "rejected"}

(* Load: a rejected upload can only be rejected again. until is 0 when the date is *)
(* not sent; same: it is the date that was loaded.                                 *)
Load(s, u, status, until) ==
  /\ request[s].pc = "idle" /\ Asked
  /\ certUpload[u].status # "none" /\ (certUpload[u].status = "rejected" => status = "rejected")
  /\ ToRequest(s, [NoRequest EXCEPT !.pc = "review", !.u = u, !.status = status,
                     !.until = until, !.same = until \in {0, certUpload[u].until}])
  /\ UNCHANGED <<date, certUpload, objects, onProfile, mailing>>

(* A pass that has listed the upload goes by the date of then. *)
Disturbed(u) == \E p \in Passes : pass[p].at.u = u \/ \E d \in pass[p].due : d.u = u

Reviewed(row, r) ==
  IF r.same THEN [row EXCEPT !.status = r.status]
  ELSE [row EXCEPT !.status = r.status, !.until = r.until, !.sent = NotSent, !.rev = @ + 1]

ReviewableAlways(row, r) == TRUE     \* mutation: the update has no condition
Reviewable(row, r) == r.status = "rejected" \/ row.status # "rejected"

Review(s) ==
  /\ request[s].pc = "review"
  /\ LET r == request[s] IN
     IF Reviewable(certUpload[r.u], r)
     THEN /\ certUpload' = [certUpload EXCEPT ![r.u] = Reviewed(@, r)]
          /\ excused' = IF Disturbed(r.u) /\ ~r.same THEN excused \cup {r.u} ELSE excused
          /\ ToRequest(s, IF r.status = "rejected" THEN [r EXCEPT !.pc = "delete"] ELSE NoRequest)
     ELSE ToRequest(s, NoRequest) /\ UNCHANGED <<certUpload, excused>>
  /\ UNCHANGED <<date, objects, onProfile, pass, told, certCounts>>

(* deleteFile of a rejected upload, best effort. *)
DeleteFile(s) ==
  /\ request[s].pc = "delete"
  /\ \/ /\ files' = files \ {<<request[s].u, certUpload[request[s].u].sha>>}
        /\ UNCHANGED certCounts
     \/ CertFault /\ UNCHANGED files
  /\ ToRequest(s, NoRequest)
  /\ UNCHANGED <<date, certUpload, intent, staging, onProfile, mailing>>

------------------------------------------------------------------------------
(* certification-validity.ts and CertificationExpiryService.run *)

(* expiryReminderSent: which email the stamp records, read by the date. *)
SentFor(sent, until) ==
  IF sent.day = 0 THEN "none"
  ELSE IF sent.day > until THEN "expired"
  ELSE IF until <= sent.day + Window THEN "expiring" ELSE "none"

(* expiryReminderDue. *)
DueOn(row, day) ==
  IF row.status \notin {"pending", "approved"} THEN "none"
  ELSE IF day > row.until
  THEN IF day <= row.until + Grace /\ SentFor(row.sent, row.until) # "expired" THEN "expired" ELSE "none"
  ELSE IF row.until <= day + Window /\ SentFor(row.sent, row.until) = "none" THEN "expiring" ELSE "none"

StartPass(p) ==
  /\ pass[p].pc = "idle" /\ Counted("passes", MaxPasses)
  /\ ToPass(p, [NoPass EXCEPT !.pc = "list", !.day = date])
  /\ UNCHANGED <<date, certUpload, objects, onProfile, request, told, excused>>

(* listExpiryCandidates, of active and approved instructors. *)
ListCandidates(p) ==
  /\ pass[p].pc = "list"
  /\ LET due == {u \in Uploads : onProfile /\ DueOn(certUpload[u], pass[p].day) # "none"} IN
     ToPass(p, [pass[p] EXCEPT !.pc = "keys", !.due =
       {[u |-> u, stage |-> DueOn(certUpload[u], pass[p].day), sent |-> certUpload[u].sent,
         rev |-> certUpload[u].rev] : u \in due}])
  /\ UNCHANGED <<date, certUpload, objects, onProfile, request, told, excused, certCounts>>

(* currentUploads: the latest one of the certification, if the profile has it. *)
Current(u) == /\ certUpload[u].status # "none"
              /\ \A v \in Uploads : certUpload[v].order <= certUpload[u].order

KeepCurrent(p) ==
  /\ pass[p].pc = "keys"
  /\ ToPass(p, [pass[p] EXCEPT !.pc = "next",
                               !.due = {d \in @ : onProfile /\ Current(d.u)}])
  /\ UNCHANGED <<date, certUpload, objects, onProfile, request, told, excused, certCounts>>

(* swapExpiryReminderSentAt. *)
ReminderStamp(p) == [day |-> pass[p].day, by |-> p]
SwappedAlways(u, from, to) == [certUpload EXCEPT ![u].sent = to]  \* mutation: not compared
Swapped(u, from, to) == [certUpload EXCEPT ![u].sent = IF @ = from THEN to ELSE @]

ClaimMail(p, d) ==
  /\ pass[p].pc = "next" /\ d \in pass[p].due
  /\ certUpload' = Swapped(d.u, d.sent, ReminderStamp(p))
  /\ ToPass(p, [pass[p] EXCEPT !.due = @ \ {d},
                               !.pc = IF certUpload' # certUpload THEN "send" ELSE "next",
                               !.at = IF certUpload' # certUpload THEN d ELSE @])
  /\ UNCHANGED <<date, objects, onProfile, request, told, excused, certCounts>>

SendMail(p) ==
  /\ pass[p].pc = "send"
  /\ LET d == pass[p].at
         mail == <<d.u, d.stage, d.rev, 1>> IN
     \/ /\ told' = told \cup {IF mail \in told THEN <<d.u, d.stage, d.rev, 2>> ELSE mail}
        /\ ToPass(p, [pass[p] EXCEPT !.pc = "next", !.at = NoPass.at])
        /\ UNCHANGED certCounts
     \/ CertFault /\ ToPass(p, [pass[p] EXCEPT !.pc = "undo"]) /\ UNCHANGED told
  /\ UNCHANGED <<date, certUpload, objects, onProfile, request, excused>>

Unclaim(p) ==
  /\ pass[p].pc = "undo"
  /\ certUpload' = Swapped(pass[p].at.u, ReminderStamp(p), pass[p].at.sent)
  /\ ToPass(p, [pass[p] EXCEPT !.pc = "next", !.at = NoPass.at])
  /\ UNCHANGED <<date, objects, onProfile, request, told, excused, certCounts>>

EndPass(p) ==
  /\ pass[p].pc = "next" /\ pass[p].due = {}
  /\ ToPass(p, NoPass)
  /\ UNCHANGED <<date, certUpload, objects, onProfile, request, told, excused, certCounts>>

------------------------------------------------------------------------------

(* A request or a pass dies, or canSend says no; an email that was claimed and not *)
(* sent stays claimed.                                                             *)
DieRequest(s) ==
  /\ request[s].pc # "idle" /\ CertFault
  /\ ToRequest(s, NoRequest)
  /\ UNCHANGED <<date, certUpload, objects, onProfile, mailing>>

DiePass(p) ==
  /\ pass[p].pc # "idle" /\ CertFault
  /\ ToPass(p, NoPass)
  /\ excused' = excused \cup {pass[p].at.u}
  /\ UNCHANGED <<date, certUpload, objects, onProfile, request, told>>

NextDate ==
  /\ date < LastDate /\ date' = date + 1
  /\ \A p \in Passes : pass[p].pc = "idle"
  /\ UNCHANGED <<certUpload, objects, onProfile, request, mailing, certCounts>>

(* The certification leaves the profile, or its owner is deactivated. *)
LeaveProfile ==
  /\ onProfile /\ onProfile' = FALSE
  /\ UNCHANGED <<date, certUpload, objects, request, mailing, certCounts>>

CertNext ==
  \/ NextDate \/ LeaveProfile
  \/ \E u \in Uploads : UploadUrl(u) \/ PutFile(u)
  \/ \E s \in Requests :
       \/ ReadIntent(s) \/ ReadStaged(s) \/ PutFinal(s) \/ InsertOnce(s) \/ Winner(s)
       \/ Discard(s) \/ Review(s) \/ DeleteFile(s) \/ DieRequest(s)
       \/ \E u \in Uploads :
            \/ Confirm(s, u)
            \/ \E status \in Statuses, until \in Dates \cup {0} : Load(s, u, status, until)
  \/ \E p \in Passes :
       \/ StartPass(p) \/ ListCandidates(p) \/ KeepCurrent(p)
       \/ SendMail(p) \/ Unclaim(p) \/ EndPass(p) \/ DiePass(p)
       \/ \E d \in pass[p].due : ClaimMail(p, d)

CertSpec == CertInit /\ [][CertNext]_certVars

------------------------------------------------------------------------------

CertTypeOK ==
  /\ date \in Dates /\ onProfile \in BOOLEAN
  /\ files \subseteq Uploads \X {"x", "y"}
  /\ \A u \in Uploads : /\ certUpload[u].status \in Statuses \cup {"none"}
                        /\ certUpload[u].until \in Dates \cup {0} /\ intent[u] \in Dates \cup {0}
                        /\ certUpload[u].order \in 0 .. Cardinality(Uploads)
                        /\ staging[u] \in {"none", "x", "y", "bad"}
  /\ \A u, v \in Uploads : certUpload[u].order = certUpload[v].order => u = v \/ certUpload[u].order = 0

(* An upload that was not rejected has its file, whatever confirms of it and reviews *)
(* ran at once; what confirm discards is never the copy that is recorded.            *)
FileKept == \A u \in Uploads : certUpload[u].status \in {"pending", "approved"} =>
                                 <<u, certUpload[u].sha>> \in files

(* The stamp of an expiry email is true: each email went out once for a date, and    *)
(* one that is recorded went out or is about to, unless the date was changed under   *)
(* a pass that had listed the upload, or a pass died.                                *)
Sending(u) == \E p \in Passes : pass[p].at.u = u
StampIsTrue ==
  \A u \in Uploads \ excused :
    /\ \A mail \in told : mail[1] = u => mail[4] = 1
    /\ LET s == SentFor(certUpload[u].sent, certUpload[u].until)
       IN s = "none" \/ <<u, s, certUpload[u].rev, 1>> \in told \/ Sending(u)

(* What the records of a certification say is so: its file is kept and its stamp true. *)
CertificationsKept == CertTypeOK /\ FileKept /\ StampIsTrue
====
