---- MODULE ShopifyClient ----
(* Calls of the shop's Admin API: one token for all of them, requested once however many wait for it,   *)
(* and calls tried again when refused, throttled or not answered.                                       *)
(*   shopify/shopify-admin.client.ts                                                                     *)
(* Time is in units of the shortest pause, 500 ms.                                                       *)
EXTENDS Integers, FiniteSets

CONSTANTS
  Calls, Costs,            \* GraphQL calls, each made once, and what they cost
  MaxTransport, MaxThrottle, MaxWait, \* MAX_TRANSPORT_ATTEMPTS, MAX_THROTTLE_ATTEMPTS, MAX_THROTTLE_WAIT_MS
  Lifetime, Margin,        \* of a token, and TOKEN_REFRESH_MARGIN_MS
  Capacity, Rate,          \* the shop's bucket of query costs
  LastTime,                \* bound of the clock
  MaxFaults                \* bound: errors, answers lost and tokens revoked

VARIABLES
  now,
  token,          \* the client's token: [id, refreshAt], or NoToken
  pending,        \* the id of the token being requested, or 0
  budget,         \* what the client last heard of the bucket: [left, at, cost], or NoBudget
  call,
  issued, valid,  \* external: how many tokens were requested, and until when each is good
  revoked,        \* external: the last token revoked, with those before it
  failed,         \* history: how many of those requests failed
  left,           \* external: what is left in the bucket
  faults

clientVars == <<now, token, pending, budget, call, issued, valid, revoked, failed, left, faults>>
shopVars == <<issued, valid, revoked, failed, left>>

NoToken == [id |-> 0, refreshAt |-> 0]
NoBudget == [left |-> 0, at |-> -1, cost |-> 0]

ClientInit ==
  /\ now = 0 /\ token = NoToken /\ pending = 0 /\ budget = NoBudget
  /\ call = [c \in Calls |-> [pc |-> "idle"]]
  /\ issued = 0 /\ failed = 0 /\ revoked = 0 /\ valid = <<>> /\ left = Capacity /\ faults = 0

Least(a, b) == IF a < b THEN a ELSE b
Most(a, b) == IF a < b THEN b ELSE a
Ceiling(a, b) == -((-a) \div b)
Fault == faults < MaxFaults /\ faults' = faults + 1
Became(c, step) == call' = [call EXCEPT ![c] = step]
Asleep(step, wait, then) == [step EXCEPT !.pc = "asleep", !.until = now + wait, !.then = then]

(* graphql *)
Begin(c, cost) ==
  /\ call[c].pc = "idle"
  /\ call' = [d \in Calls |->
       CASE d = c -> [pc |-> "budget", cost |-> cost, throttled |-> 0, tries |-> 0, token |-> 0,
                      renewed |-> FALSE, until |-> 0, then |-> "budget", ran |-> 0, lost |-> 0,
                      refused |-> {}, heard |-> budget.cost,
                      alone |-> \A e \in Calls \ {c} : call[e].pc \in {"idle", "done", "failed"}]
         [] d # c /\ call[d].pc # "idle" -> [call[d] EXCEPT !.alone = FALSE]
         [] OTHER -> call[d]]
  /\ UNCHANGED <<now, token, pending, budget, shopVars, faults>>

\* Mutation: the bucket is thought to fill before the call that emptied it is taken off.
ProjectedAsHeard == Least(Capacity, budget.left + budget.cost + Rate * (now - budget.at))
(* What is left by now, at most. *)
Projected == Least(Capacity, budget.left + Rate * (now - budget.at))

(* waitForBudget, and the counters of a new post. *)
WaitForBudget(c) ==
  LET ready == [call[c] EXCEPT !.pc = "token", !.tries = 0, !.renewed = FALSE] IN
  /\ call[c].pc = "budget"
  /\ Became(c, IF budget = NoBudget \/ Projected >= budget.cost THEN ready
               ELSE Asleep(ready, Least(MaxWait, Ceiling(budget.cost - Projected, Rate)), "token"))
  /\ UNCHANGED <<now, token, pending, budget, shopVars, faults>>

Wake(c) ==
  /\ call[c].pc = "asleep" /\ now >= call[c].until
  /\ Became(c, [call[c] EXCEPT !.pc = call[c].then])
  /\ UNCHANGED <<now, token, pending, budget, shopVars, faults>>

Fresh == token # NoToken /\ now < token.refreshAt

(* accessToken: the client's own while it is fresh, else the one request that is under way. *)
UseToken(c) ==
  /\ call[c].pc = "token" /\ Fresh
  /\ Became(c, [call[c] EXCEPT !.pc = "posting", !.token = token.id])
  /\ UNCHANGED <<now, token, pending, budget, shopVars, faults>>

\* Mutation: every call requests a token of its own.
NextTokenEach == issued + 1
(* pendingToken ??= requestToken *)
NextToken == IF pending # 0 THEN pending ELSE issued + 1

AwaitToken(c) ==
  /\ call[c].pc = "token" /\ ~Fresh
  /\ pending' = NextToken /\ issued' = Most(issued, NextToken)
  /\ Became(c, [call[c] EXCEPT !.pc = "awaiting"])
  /\ UNCHANGED <<now, token, budget, valid, revoked, failed, left, faults>>

\* All who await it go on, before anything else happens in the process.
TokenIssued ==
  /\ pending # 0
  /\ valid' = [t \in DOMAIN valid \cup {pending} |-> IF t = pending THEN now + Lifetime ELSE valid[t]]
  /\ token' = [id |-> pending, refreshAt |-> now + Most(Lifetime - Margin, 0)]
  /\ call' = [c \in Calls |->
       IF call[c].pc = "awaiting" THEN [call[c] EXCEPT !.pc = "posting", !.token = pending] ELSE call[c]]
  /\ pending' = 0
  /\ UNCHANGED <<now, budget, issued, revoked, failed, left, faults>>

(* requestToken fails, for everyone who waits: ShopifyAuthError. *)
TokenFails ==
  /\ Fault /\ pending # 0 /\ pending' = 0 /\ failed' = failed + 1
  /\ call' = [c \in Calls |->
       IF call[c].pc = "awaiting" THEN [call[c] EXCEPT !.pc = "failed", !.then = "auth"] ELSE call[c]]
  /\ UNCHANGED <<now, token, budget, issued, valid, revoked, left>>

------------------------------------------------------------------------------
(* post *)
Good(t) == t \in DOMAIN valid /\ t > revoked /\ now < valid[t]
Taken(c) == Good(call[c].token) /\ left >= call[c].cost

\* Mutation: whatever token the client has by now is thrown away.
InvalidatedAny(t) == NoToken
(* invalidateToken: if (this.token === token) *)
Invalidated(t) == IF token.id = t THEN NoToken ELSE token

Refused(c) == [call[c] EXCEPT !.refused = @ \cup {call[c].token}]

(* 401: once, with another token; it is not one of the attempts. *)
Unauthorized(c) ==
  /\ call[c].pc = "posting" /\ ~Good(call[c].token)
  /\ IF call[c].renewed
     THEN Became(c, [Refused(c) EXCEPT !.pc = "failed", !.then = "unauthorized"]) /\ UNCHANGED token
     ELSE Became(c, [Refused(c) EXCEPT !.pc = "token", !.renewed = TRUE])
          /\ token' = Invalidated(call[c].token)
  /\ UNCHANGED <<now, pending, budget, shopVars, faults>>

\* Mutation: one pause more than attempts.
SpentLate(tries, max) == tries > max
(* attempt >= MAX_... *)
Spent(tries, max) == tries >= max

Backoff(tries) == 2 ^ (tries - 1)

(* The request fails, 429 or 5xx, or its answer is lost when the shop had already done what it asks. *)
Fails(c, done) ==
  LET after == [call[c] EXCEPT !.tries = @ + 1, !.ran = @ + done, !.lost = @ + done] IN
  /\ Fault /\ call[c].pc = "posting" /\ done \in {0, 1} /\ (done = 1 => Taken(c))
  /\ left' = left - done * call[c].cost
  /\ Became(c, IF Spent(after.tries, MaxTransport) THEN [after EXCEPT !.pc = "failed", !.then = "transport"]
               ELSE Asleep(after, Backoff(after.tries), "token"))
  /\ UNCHANGED <<now, token, pending, budget, issued, valid, revoked, failed>>

(* recordCost: a query that was throttled cost nothing yet, so what it requested is kept. *)
RecordCost(c, rest) == budget' = [left |-> rest, at |-> now, cost |-> call[c].cost]

(* throttleWait: until the bucket holds what the query requests. *)
ThrottleWait(c) == Least(MaxWait, Most(1, Ceiling(Most(call[c].cost - left, 0), Rate)))

Throttled(c) ==
  LET after == [call[c] EXCEPT !.throttled = @ + 1] IN
  /\ call[c].pc = "posting" /\ Good(call[c].token) /\ left < call[c].cost
  /\ RecordCost(c, left)
  /\ Became(c, IF Spent(after.throttled, MaxThrottle) THEN [after EXCEPT !.pc = "failed", !.then = "throttled"]
               ELSE Asleep(after, ThrottleWait(c), "budget"))
  /\ UNCHANGED <<now, token, pending, shopVars, faults>>

(* The shop does it and answers, with data or with errors, which are not tried again. *)
Answered(c) ==
  /\ call[c].pc = "posting" /\ Taken(c)
  /\ left' = left - call[c].cost /\ RecordCost(c, left - call[c].cost)
  /\ Became(c, [call[c] EXCEPT !.pc = "done", !.ran = @ + 1])
  /\ UNCHANGED <<now, token, pending, issued, valid, revoked, failed, faults>>

\* The shop revokes the tokens it issued.
Revoke ==
  /\ Fault /\ \E t \in DOMAIN valid : Good(t)
  /\ revoked' \in DOMAIN valid /\ \A t \in DOMAIN valid : t <= revoked'
  /\ UNCHANGED <<now, token, pending, budget, call, issued, valid, failed, left>>

Tick ==
  /\ now < LastTime /\ now' = now + 1
  /\ left' = Least(Capacity, left + Rate)
  /\ UNCHANGED <<token, pending, budget, call, issued, valid, revoked, failed, faults>>

ClientNext ==
  \/ \E c \in Calls :
       \/ \E cost \in Costs : Begin(c, cost)
       \/ WaitForBudget(c) \/ Wake(c) \/ UseToken(c) \/ AwaitToken(c)
       \/ Unauthorized(c) \/ Throttled(c) \/ Answered(c)
       \/ \E done \in {0, 1} : Fails(c, done)
  \/ TokenIssued \/ TokenFails \/ Revoke \/ Tick

ClientSpec == ClientInit /\ [][ClientNext]_clientVars

------------------------------------------------------------------------------
Started == {c \in Calls : call[c].pc # "idle"}

\* A call gives up for its token only after two different tokens were refused it.
TwoTokensRefused ==
  \A c \in Started : call[c].pc = "failed" /\ call[c].then = "unauthorized" => Cardinality(call[c].refused) >= 2

\* Nobody requests a token while another is good as far as the calls know: of those issued, all but one
\* were refused to some call, have come to their refresh time, or their request failed.
TokensAreShared ==
  LET refused == UNION {call[c].refused : c \in Started}
      aged == {t \in DOMAIN valid : now >= valid[t] - Margin} IN
  issued <= 1 + failed + Cardinality(refused \cup aged)

\* What a call asks for is done once more than answers to it were lost, at most; a call that is answered
\* was done, and one that gives up otherwise was done only in an answer it never saw.
DoneAsAnswered ==
  \A c \in Started :
    /\ call[c].ran = call[c].lost + (IF call[c].pc = "done" THEN 1 ELSE 0)
    /\ call[c].lost < MaxTransport * MaxThrottle

\* A call is throttled only as often as the limit, and alone only once, since it then waits for what it
\* needs; and not at all when it costs no more than the call before it.
ThrottledSeldom ==
  \A c \in Started :
    /\ call[c].throttled <= MaxThrottle /\ call[c].tries <= MaxTransport
    /\ call[c].alone /\ call[c].lost = 0 => call[c].throttled <= 1
    /\ call[c].alone /\ call[c].cost <= call[c].heard /\ faults = 0 => call[c].throttled = 0

ShopifyCallsHold == TwoTokensRefused /\ TokensAreShared /\ DoneAsAnswered /\ ThrottledSeldom
====
