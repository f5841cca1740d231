---- MODULE AdminSessions ----
(* Who may act as an administrator: the role of a user, the sessions that carry it in their *)
(* tokens, and the cache in which each process remembers that a session is live.             *)
(*   admin/admin.service.ts setUserRole, admin.repository.ts, roles.guard.ts,                 *)
(*   auth/session-liveness.service.ts, supabase-jwt.strategy.ts,                               *)
(*   supabase/migrations/280_auth_session_revocation.sql                                        *)
(* A token keeps the role it was issued with, so a demotion deletes the sessions of the user.  *)
EXTENDS Naturals, FiniteSets

CONSTANTS
  UserSessions,  \* sessions of one user; each sends one request at a time
  Processes,     \* each has a cache of its own
  Changers,      \* administrators changing the role of that user
  TTL,           \* SESSION_LIVENESS_TTL_MS
  MaxCached,     \* MAX_CACHED_SESSIONS
  LastTime,      \* bound: the clock
  MaxChanges,    \* bound: changes of the role
  MaxRoleFaults  \* bound: queries that fail, processes that die

VARIABLES
  role,          \* app_metadata.role
  session,       \* session[s]: "new", "gone", or the role in the token of a live session
  activeUntil,   \* activeUntil[p][s]: 0 when the process remembers nothing
  check,         \* check[s]: the request of the session that is being authenticated
  change,        \* change[c]: a change of the role in progress
  now,
  outSince,      \* history: when a demotion had deleted the sessions, 0 otherwise
  admitted,      \* history: the latest arrival of a request that was let in as an administrator
  changes, roleFaults

roleVars == <<role, session, activeUntil, check, change, now, outSince, admitted, changes, roleFaults>>

Roles == {"admin", "instructor"}
NoCheck == [pc |-> "idle", process |-> "none", since |-> 0, claim |-> "none"]
NoChange == [pc |-> "idle", to |-> "none", previous |-> "none"]

RolesInit ==
  /\ role = "none"
  /\ session = [s \in UserSessions |-> "new"]
  /\ activeUntil = [p \in Processes |-> [s \in UserSessions |-> 0]]
  /\ check = [s \in UserSessions |-> NoCheck]
  /\ change = [c \in Changers |-> NoChange]
  /\ now = 1 /\ outSince = 0 /\ admitted = 0 /\ changes = 0 /\ roleFaults = 0

Live(s) == session[s] \notin {"new", "gone"}
RoleFault == roleFaults < MaxRoleFaults /\ roleFaults' = roleFaults + 1
caches == <<activeUntil, check, admitted>>
desk == <<change, outSince, changes>>

Tick == now < LastTime /\ now' = now + 1
        /\ UNCHANGED <<role, session, caches, desk, roleFaults>>

(* The auth service: a sign-in, or a refresh, puts the role of the moment into the token. *)
SignIn(s) ==
  /\ session[s] # "gone"
  /\ session' = [session EXCEPT ![s] = IF role = "admin" THEN "admin" ELSE "instructor"]
  /\ UNCHANGED <<role, caches, desk, now, roleFaults>>

------------------------------------------------------------------------------
(* The strategy and the liveness service, then RolesGuard. *)
AdmittedNow(claim, since) ==
  admitted' = IF claim = "admin" THEN since ELSE admitted

(* isActive: the cache first. *)
Arrive(s, p) ==
  /\ session[s] # "new" /\ check[s].pc = "idle"
  /\ \E claim \in Roles :
       /\ Live(s) => claim = session[s]
       /\ session[s] = "gone" => claim = "admin"
       /\ IF activeUntil[p][s] > now
          THEN AdmittedNow(claim, now) /\ UNCHANGED <<activeUntil, check>>
          ELSE /\ activeUntil' = [activeUntil EXCEPT ![p][s] = 0]
               /\ check' = [check EXCEPT ![s] = [pc |-> "ask", process |-> p, since |-> now, claim |-> claim]]
               /\ UNCHANGED admitted
  /\ UNCHANGED <<role, session, desk, now, roleFaults>>

(* session_is_active; a failed call is a 503. *)
Ask(s) ==
  /\ check[s].pc = "ask"
  /\ \/ /\ check' = [check EXCEPT ![s] = IF Live(s) THEN [@ EXCEPT !.pc = "active"] ELSE NoCheck]
        /\ UNCHANGED roleFaults
     \/ check' = [check EXCEPT ![s] = NoCheck] /\ RoleFault
  /\ UNCHANGED <<role, session, activeUntil, admitted, desk, now>>

UntilFromArrival(c) == c.since + TTL
UntilFromAnswer(c) == now + TTL
Until(c) == UntilFromArrival(c)

(* remember: at the limit the expired entries are dropped, and then all of them. *)
Remembered(cache, s, since, until) ==
  LET full(c) == Cardinality({t \in UserSessions : c[t] # 0}) >= MaxCached
      fresh == [t \in UserSessions |-> IF cache[t] <= since THEN 0 ELSE cache[t]]
      room == IF ~full(cache) THEN cache ELSE IF ~full(fresh) THEN fresh ELSE [t \in UserSessions |-> 0]
  IN [room EXCEPT ![s] = until]

Admit(s) ==
  /\ check[s].pc = "active"
  /\ LET c == check[s] IN
     /\ activeUntil' = [activeUntil EXCEPT ![c.process] = Remembered(@, s, c.since, Until(c))]
     /\ AdmittedNow(c.claim, c.since)
  /\ check' = [check EXCEPT ![s] = NoCheck]
  /\ UNCHANGED <<role, session, desk, now, roleFaults>>

------------------------------------------------------------------------------
(* setUserRole. *)
ReadRole(c, to) ==
  /\ change[c].pc = "idle" /\ changes < MaxChanges
  /\ changes' = changes + 1
  /\ change' = [change EXCEPT ![c] = IF role = to THEN NoChange
                                     ELSE [pc |-> "set", to |-> to, previous |-> role]]
  /\ UNCHANGED <<role, session, caches, now, outSince, roleFaults>>

Demotes(c) == c.previous = "admin"

SetRole(c) ==
  /\ change[c].pc = "set"
  /\ role' = change[c].to
  /\ outSince' = IF role' = "admin" THEN 0 ELSE outSince
  /\ change' = [change EXCEPT ![c] = IF Demotes(@) THEN [@ EXCEPT !.pc = "revoke"] ELSE NoChange]
  /\ UNCHANGED <<session, caches, now, changes, roleFaults>>

(* revoke_user_sessions. *)
Revoke(c) ==
  /\ change[c].pc = "revoke"
  /\ session' = [s \in UserSessions |-> IF Live(s) THEN "gone" ELSE session[s]]
  /\ outSince' = IF role = "admin" THEN 0 ELSE now
  /\ change' = [change EXCEPT ![c] = NoChange]
  /\ UNCHANGED <<role, caches, now, changes, roleFaults>>

(* A query that fails, or a process that dies, between two steps of a change: sent again, the *)
(* demotion finds the role as it is wanted and leaves the sessions alone.                      *)
Stop(c) ==
  /\ change[c].pc # "idle" /\ RoleFault
  /\ change' = [change EXCEPT ![c] = NoChange]
  /\ UNCHANGED <<role, session, caches, now, outSince, changes>>

(* A process that restarts has an empty cache. *)
Restart(p) ==
  /\ RoleFault
  /\ activeUntil' = [activeUntil EXCEPT ![p] = [s \in UserSessions |-> 0]]
  /\ check' = [s \in UserSessions |-> IF check[s].process = p THEN NoCheck ELSE check[s]]
  /\ UNCHANGED <<role, session, admitted, desk, now>>

RolesNext ==
  \/ Tick
  \/ \E s \in UserSessions : SignIn(s) \/ Ask(s) \/ Admit(s) \/ \E p \in Processes : Arrive(s, p)
  \/ \E c \in Changers : SetRole(c) \/ Revoke(c) \/ Stop(c) \/ \E to \in Roles : ReadRole(c, to)
  \/ \E p \in Processes : Restart(p)

RolesSpec == RolesInit /\ [][RolesNext]_roleVars

------------------------------------------------------------------------------
(* Once a demotion is through, no request that arrives TTL after it is let in as an        *)
(* administrator, whatever its token says and whatever a process remembers of its session:  *)
(* a session whose check overlaps the demotion is remembered from before its check.          *)
DemotedIsOut == outSince # 0 => admitted < outSince + TTL
====
