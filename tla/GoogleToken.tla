---- MODULE GoogleToken ----
(* The connection to Google and the access token each process keeps:             *)
(*   google/google-calendar.client.ts, google-connection.service.ts,             *)
(*   google-connection.repository.ts, google-oauth.client.ts, oauth-state.ts     *)
(* The refresh token is one row; an access token and the refresh that is in       *)
(* flight belong to a process, and invalidate() reaches only the process that     *)
(* handled the callback. Tokens are known by the grant they come from. A step is  *)
(* one query or one call of Google; a fetch with its retries is one call.         *)
EXTENDS Naturals, FiniteSets

CONSTANTS
  Processes,    \* machines: each has one GoogleCalendarClient
  GoogleCalls,  \* calls of the Calendar API under way at once
  Admins,       \* connects and disconnects under way at once
  MaxGrants,    \* bound: consents given
  MaxCalls      \* bound: calls of the Calendar API

ASSUME GoogleAssumption ==
  /\ IsFiniteSet(GoogleCalls)
  /\ MaxGrants \in Nat \ {0} /\ MaxCalls \in Nat

VARIABLES
  granted,     \* the grants Google honours
  grants,      \* grants given so far
  connection,  \* google_connection: the grant whose refresh token is stored, NoGrant
               \* when it was cleared, NoRow when there is no row
  token,       \* token[q]: the cached access token of process q
  refresh,     \* refresh[q]: pendingToken
  call,        \* call[r]: a call of api()
  calls,       \* calls so far
  admin        \* admin[a]: a connect or disconnect

googleVars == <<granted, grants, connection, token, refresh, call, calls, admin>>

NoGrant == 0
NoRow == MaxGrants + 1     \* no row at all
NoToken == [of |-> NoGrant, copy |-> 0]
Grants == 1 .. MaxGrants
Stored == connection \in Grants

(* Token objects are told apart by identity (===). *)
Copies == 0 .. Cardinality(GoogleCalls)
Tokens == [of : Grants \cup {NoGrant}, copy : Copies]
Fresh(q, g) ==
  [of |-> g, copy |-> CHOOSE n \in Copies :
     \A r \in GoogleCalls : call[r].token # [of |-> g, copy |-> n]]

NoRefresh == [pc |-> "none", grant |-> NoGrant]
NoCall == [pc |-> "idle", at |-> "none", token |-> NoToken, retried |-> FALSE, excused |-> FALSE]
NoAdmin == [pc |-> "idle", grant |-> NoGrant, at |-> "none"]

GoogleInit ==
  /\ granted = {1} /\ grants = 1
  /\ connection = 1
  /\ token = [q \in Processes |-> NoToken]
  /\ refresh = [q \in Processes |-> NoRefresh]
  /\ call = [r \in GoogleCalls |-> NoCall]
  /\ calls = 0
  /\ admin = [a \in Admins |-> NoAdmin]

(* A call may fail when the stored grant is not honoured at some time while it    *)
(* runs, or the connection is replaced, or an earlier one is still being          *)
(* refreshed in its process.                                                      *)
Excuse(q) == \/ connection' \notin granted'
             \/ connection' # connection
             \/ refresh'[q].grant \notin {NoGrant, connection'}
Watch(c) ==
  call' = [r \in GoogleCalls |->
             IF c[r].pc # "idle" /\ Excuse(c[r].at) THEN [c[r] EXCEPT !.excused = TRUE] ELSE c[r]]

------------------------------------------------------------------------------
(* A call: api(), accessToken(), refreshAccessToken() *)

StartCall(r, q) ==
  /\ call[r].pc = "idle" /\ calls < MaxCalls
  /\ calls' = calls + 1
  /\ UNCHANGED <<granted, grants, connection, token, refresh, admin>>
  /\ Watch([call EXCEPT ![r] = [NoCall EXCEPT !.pc = "token", !.at = q]])

(* The cached token, while it is not near its expiry; else the refresh in flight, *)
(* or a new one.                                                                 *)
UseCached(r) ==
  LET q == call[r].at IN
  /\ call[r].pc = "token" /\ token[q] # NoToken
  /\ UNCHANGED <<granted, grants, connection, token, refresh, calls, admin>>
  /\ Watch([call EXCEPT ![r].pc = "send", ![r].token = token[q]])

AwaitRefresh(r) ==
  LET q == call[r].at IN
  /\ call[r].pc = "token" /\ token[q] = NoToken
  /\ refresh' = IF refresh[q] = NoRefresh
                THEN [refresh EXCEPT ![q] = [pc |-> "load", grant |-> NoGrant]] ELSE refresh
  /\ UNCHANGED <<granted, grants, connection, token, calls, admin>>
  /\ Watch([call EXCEPT ![r].pc = "wait"])

(* What the waiting calls of q get: the token, or the error. *)
Settled(q, tok) ==
  [r \in GoogleCalls |->
     IF call[r].pc = "wait" /\ call[r].at = q
     THEN IF tok = NoToken THEN [call[r] EXCEPT !.pc = "failed"]
          ELSE [call[r] EXCEPT !.pc = "send", !.token = tok]
     ELSE call[r]]

LoadGrant(q) ==
  /\ refresh[q].pc = "load"
  /\ UNCHANGED <<granted, grants, connection, token, calls, admin>>
  /\ IF Stored
     THEN /\ refresh' = [refresh EXCEPT ![q] = [pc |-> "ask", grant |-> connection]]
          /\ Watch(call)
     ELSE /\ refresh' = [refresh EXCEPT ![q] = NoRefresh]     \* GoogleNotConnectedError
          /\ Watch(Settled(q, NoToken))

AskGoogle(q) ==
  /\ refresh[q].pc = "ask"
  /\ refresh' = [refresh EXCEPT ![q].pc =
                   IF refresh[q].grant \in granted THEN "record" ELSE "clear"]
  /\ UNCHANGED <<granted, grants, connection, token, calls, admin>>
  /\ Watch(call)

(* recordRefresh, and the token is cached for the callers. *)
RecordRefresh(q) ==
  LET tok == Fresh(q, refresh[q].grant) IN
  /\ refresh[q].pc = "record"
  /\ refresh' = [refresh EXCEPT ![q] = NoRefresh]
  /\ token' = [token EXCEPT ![q] = tok]
  /\ UNCHANGED <<granted, grants, connection, calls, admin>>
  /\ Watch(Settled(q, tok))

(* invalid_grant: recordError clears the stored token, whichever it is by now. *)
Cleared == IF connection = NoRow THEN NoRow ELSE NoGrant

ClearGrant(q) ==
  /\ refresh[q].pc = "clear"
  /\ connection' = Cleared
  /\ refresh' = [refresh EXCEPT ![q] = NoRefresh]
  /\ UNCHANGED <<granted, grants, token, calls, admin>>
  /\ Watch(Settled(q, NoToken))

(* The call itself. A 401 drops the token, if it is still the cached one, and is *)
(* tried once more.                                                              *)
Answer(r) ==
  /\ call[r].pc = "send" /\ call[r].token.of \in granted
  /\ UNCHANGED <<granted, grants, connection, token, refresh, calls, admin>>
  /\ call' = [call EXCEPT ![r] = NoCall]

Kept(r) == token
Dropped(r) == [token EXCEPT ![call[r].at] = IF @ = call[r].token THEN NoToken ELSE @]

Unauthorized(r) ==
  /\ call[r].pc = "send" /\ call[r].token.of \notin granted
  /\ UNCHANGED <<granted, grants, connection, refresh, calls, admin>>
  /\ IF call[r].retried
     THEN Watch([call EXCEPT ![r].pc = "failed"]) /\ UNCHANGED token
     ELSE /\ token' = Dropped(r)
          /\ Watch([call EXCEPT ![r].pc = "token", ![r].token = NoToken, ![r].retried = TRUE])

EndFailed(r) ==
  /\ call[r].pc = "failed"
  /\ call' = [call EXCEPT ![r] = NoCall]
  /\ UNCHANGED <<granted, grants, connection, token, refresh, calls, admin>>

(* ACCESS_TOKEN_REFRESH_MARGIN_MS before its end a token is not used any more. *)
TokenExpires(q) ==
  /\ token[q] # NoToken
  /\ token' = [token EXCEPT ![q] = NoToken]
  /\ UNCHANGED <<granted, grants, connection, refresh, calls, admin>>
  /\ Watch(call)

------------------------------------------------------------------------------
(* handleCallback and disconnect *)

Invalidated(q) == [token EXCEPT ![q] = NoToken]

(* connectUrl: an admin is sent to Google with a signed state. *)
ConnectUrl(a) ==
  /\ admin[a].pc = "idle" /\ grants < MaxGrants
  /\ admin' = [admin EXCEPT ![a].pc = "consent"]
  /\ UNCHANGED <<granted, grants, connection, token, refresh, call, calls>>

(* No way back: no consent, no code, a state that is not ours or past its ten      *)
(* minutes, an exchange that fails. A state is not used up: consent may be given   *)
(* under it again, before or after another connection.                             *)
NoWayBack(a) ==
  /\ admin[a].pc = "consent"
  /\ admin' = [admin EXCEPT ![a] = NoAdmin]
  /\ UNCHANGED <<granted, grants, connection, token, refresh, call, calls>>

(* revoke() answers whether it worked, and nobody but the audit looks at it. *)
RevokedOrNot(g) == granted' \in {granted, granted \ {g}}

(* A valid state and code: exchangeCode makes a grant. *)
Exchange(a, q) ==
  /\ admin[a].pc = "consent" /\ grants < MaxGrants
  /\ grants' = grants + 1
  /\ granted' = granted \cup {grants + 1}
  /\ admin' = [admin EXCEPT ![a] = [pc |-> "lookup", grant |-> grants + 1, at |-> q]]
  /\ UNCHANGED <<connection, token, refresh, calls>>
  /\ Watch(call)

(* userInfo: whose account it is. *)
LookUpAccount(a) ==
  /\ admin[a].pc = "lookup"
  /\ admin' = [admin EXCEPT ![a].pc = "check"]
  /\ UNCHANGED <<granted, grants, connection, token, refresh, calls>>
  /\ Watch(call)

(* The lookup fails, or rejectionFor: another account, or scopes or the refresh     *)
(* token missing. What was granted is revoked.                                     *)
Reject(a) ==
  /\ admin[a].pc \in {"lookup", "check"}
  /\ RevokedOrNot(admin[a].grant)
  /\ admin' = [admin EXCEPT ![a] = NoAdmin]
  /\ UNCHANGED <<grants, connection, token, refresh, calls>>
  /\ Watch(call)

SaveConnection(a) ==
  /\ admin[a].pc = "check"
  /\ connection' = admin[a].grant
  /\ token' = Invalidated(admin[a].at)
  /\ admin' = [admin EXCEPT ![a] = NoAdmin]
  /\ UNCHANGED <<granted, grants, refresh, calls>>
  /\ Watch(call)

(* A save that failed, with or without effect: the grant is revoked, and no token   *)
(* is dropped.                                                                     *)
SaveFails(a) ==
  /\ admin[a].pc = "check"
  /\ connection' \in {connection, admin[a].grant}
  /\ RevokedOrNot(admin[a].grant)
  /\ admin' = [admin EXCEPT ![a] = NoAdmin]
  /\ UNCHANGED <<grants, token, refresh, calls>>
  /\ Watch(call)

StartDisconnect(a, q) ==
  /\ admin[a].pc = "idle" /\ connection # NoRow
  /\ admin' = [admin EXCEPT ![a] = [pc |-> "revoke", grant |-> connection, at |-> q]]
  /\ UNCHANGED <<granted, grants, connection, token, refresh, calls>>
  /\ Watch(call)

(* revoke() may fail, and then only the row goes. *)
Revoke(a) ==
  /\ admin[a].pc = "revoke"
  /\ RevokedOrNot(admin[a].grant)
  /\ admin' = [admin EXCEPT ![a].pc = "delete"]
  /\ UNCHANGED <<grants, connection, token, refresh, calls>>
  /\ Watch(call)

DeleteConnection(a) ==
  /\ admin[a].pc = "delete"
  /\ connection' = NoRow
  /\ token' = Invalidated(admin[a].at)
  /\ admin' = [admin EXCEPT ![a] = NoAdmin]
  /\ UNCHANGED <<granted, grants, refresh, calls>>
  /\ Watch(call)

(* The account's owner takes the consent back at Google. *)
Withdraw(g) ==
  /\ g \in granted /\ grants < MaxGrants
  /\ granted' = granted \ {g}
  /\ UNCHANGED <<grants, connection, token, refresh, calls, admin>>
  /\ Watch(call)

------------------------------------------------------------------------------

GoogleNext ==
  \/ \E r \in GoogleCalls :
       \/ \E q \in Processes : StartCall(r, q)
       \/ UseCached(r) \/ AwaitRefresh(r) \/ Answer(r) \/ Unauthorized(r) \/ EndFailed(r)
  \/ \E q \in Processes :
       LoadGrant(q) \/ AskGoogle(q) \/ RecordRefresh(q) \/ ClearGrant(q) \/ TokenExpires(q)
  \/ \E a \in Admins :
       \/ \E q \in Processes : Exchange(a, q) \/ StartDisconnect(a, q)
       \/ ConnectUrl(a) \/ NoWayBack(a) \/ LookUpAccount(a) \/ Reject(a) \/ SaveConnection(a)
       \/ SaveFails(a) \/ Revoke(a) \/ DeleteConnection(a)
  \/ \E g \in Grants : Withdraw(g)

GoogleSpec == GoogleInit /\ [][GoogleNext]_googleVars

(* Every column and field has its type. *)
GoogleTypeOK ==
  /\ granted \subseteq Grants /\ grants \in Grants
  /\ connection \in Grants \cup {NoGrant, NoRow}
  /\ token \in [Processes -> Tokens]
  /\ \A q \in Processes : refresh[q].pc \in {"none", "load", "ask", "record", "clear"}
  /\ \A r \in GoogleCalls : /\ call[r].pc \in {"idle", "token", "wait", "send", "failed"}
                         /\ call[r].token \in Tokens
  /\ calls \in 0 .. MaxCalls

(* A call of Google fails only if, at some time while it ran, the stored grant was *)
(* not honoured, the connection was replaced, or an earlier one was still being    *)
(* refreshed: a token cached from an earlier connection, in this process or in      *)
(* another one, costs at most the one retry after a 401. With the types.            *)
ServedWhenConnected ==
  GoogleTypeOK /\ \A r \in GoogleCalls : call[r].pc = "failed" => call[r].excused
====
