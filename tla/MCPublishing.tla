---- MODULE MCPublishing ----
(* What the storefront and the public see, checked side by side: the publishing of      *)
(* instructors, with its state in the module's own variables, and, one per behaviour    *)
(* and in v1, v2, ..., the legacy entries of the shop, the calls of Shopify, the public *)
(* pages and the public API.                                                            *)
EXTENDS InstructorPublishing, TLC

CONSTANTS anna, ben, amy, zoe

VARIABLES
  part,  \* what this behaviour is about
  \* the variables of that part, in the order its module declares them
  v1, v2, v3, v4, v5, v6, v7, v8, v9, v10, v11, v12, v13

slots == <<v1, v2, v3, v4, v5, v6, v7, v8, v9, v10, v11, v12, v13>>

MCForeign == {<<amy, 2>>}
MCFirstName == [i \in Instructors |-> amy]

MCScore == [i1 |-> [h1 |-> 100, h2 |-> 10], i2 |-> [h1 |-> 100, h2 |-> 60]]
MCEntry ==
  [i1 |-> [zh |-> TRUE, en |-> FALSE, photo |-> TRUE, level |-> 2],
   i2 |-> [zh |-> TRUE, en |-> TRUE, photo |-> FALSE, level |-> 0]]

\* Three instructors, what may be saved of the first, and what clients ask for.
Instructor(visible, en, zh, since, places, csia, trainer) ==
  [visible |-> visible, en |-> en, zh |-> zh, since |-> since, places |-> places,
   csia |-> csia, casi |-> 0, trainer |-> trainer]
MCStaff ==
  <<Instructor(TRUE, 2, -1, 1, {"whistler"}, 1, 0),
    Instructor(TRUE, 1, 3, -1, {"whistler"}, 2, 1), Instructor(TRUE, 2, 0, 2, {}, 0, 1)>>
MCEdits ==
  {Instructor(FALSE, 2, -1, 1, {"whistler"}, 1, 0),
   Instructor(TRUE, 2, 1, 1, {"whistler"}, 3, 0)}
FirstByName ==
  [kind: {"list"}, locale: {"en"}, page: {1}, place: {"any"}, discipline: {"any"},
   minCsia: {-1}, trainersOnly: {FALSE}, sort: {"name"}, order: {"asc"}]
MCQueries ==
  [kind: {"list"}, locale: {"en", "zh-CN"}, page: 1 .. 2, place: {"any", "whistler"},
   discipline: {"any"}, minCsia: {-1}, trainersOnly: {FALSE},
   sort: {"name", "seniority"}, order: {"asc", "desc"}]
  \cup [kind: {"list"}, locale: {"en"}, page: {1}, place: {"any"},
        discipline: {"any", "ski"}, minCsia: {-1, 2}, trainersOnly: BOOLEAN,
        sort: {"name"}, order: {"asc"}]
  \cup [kind: {"one"}, id: {1}, locale: {"en", "zh-CN"}]

Failing == INSTANCE PublicPages WITH
  Processes <- {"p"}, Requests <- {"x", "y"}, Bodies <- {1, 2}, MaxPages <- 2,
  MaxCalls <- 4, MaxFaults <- 2,
  page <- v1, store <- v2, created <- v3, held <- v4, req <- v5, called <- v6,
  reported <- v7, cut <- v8, crossed <- v9, pageFaults <- v10
Racing == INSTANCE PublicPages WITH
  Processes <- {"p", "q"}, Requests <- {"x", "y"}, Bodies <- {1, 2}, MaxPages <- 2,
  MaxCalls <- 3, MaxFaults <- 0,
  page <- v1, store <- v2, created <- v3, held <- v4, req <- v5, called <- v6,
  reported <- v7, cut <- v8, crossed <- v9, pageFaults <- v10
Pairing == INSTANCE LegacyPairing WITH
  Score <- MCScore, MinScore <- 30, PerInstructor <- 3, Runs <- {"a", "b"}, MaxRuns <- 2,
  MaxSyncs <- 1, MaxFaults <- 1,
  handle <- v1, dismissed <- v2, queue <- v3, shown <- v4, job <- v5, run <- v6,
  paired <- v7, recorded <- v8, raced <- v9, unqueued <- v10, begun <- v11, syncs <- v12,
  faults <- v13
Backfill == INSTANCE LegacyBackfill WITH
  Instructors <- {"i1", "i2"}, Entry <- MCEntry, Runs <- {"a"}, MaxRuns <- 2,
  MaxEdits <- 1, MaxFaults <- 1,
  profile <- v1, objects <- v2, job <- v3, audited <- v4, run <- v5, wrote <- v6,
  peak <- v7, touched <- v8, doubled <- v9, broken <- v10, begun <- v11, edits <- v12,
  faults <- v13
Tokens == INSTANCE ShopifyClient WITH
  Calls <- {"c", "d"}, Costs <- {2}, MaxTransport <- 2, MaxThrottle <- 2, MaxWait <- 3,
  Lifetime <- 3, Margin <- 1, Capacity <- 2, Rate <- 1, LastTime <- 4, MaxFaults <- 2,
  now <- v1, token <- v2, pending <- v3, budget <- v4, call <- v5, issued <- v6,
  valid <- v7, revoked <- v8, failed <- v9, left <- v10, faults <- v11
Costs == INSTANCE ShopifyClient WITH
  Calls <- {"c", "d"}, Costs <- {1, 3}, MaxTransport <- 2, MaxThrottle <- 2, MaxWait <- 3,
  Lifetime <- 9, Margin <- 1, Capacity <- 3, Rate <- 1, LastTime <- 6, MaxFaults <- 0,
  now <- v1, token <- v2, pending <- v3, budget <- v4, call <- v5, issued <- v6,
  valid <- v7, revoked <- v8, failed <- v9, left <- v10, faults <- v11
Answers == INSTANCE PublicApi WITH
  Staff <- MCStaff, Edits <- MCEdits, Queries <- MCQueries, Keys <- {"k"}, RateLimit <- 1,
  Window <- 1, Places <- {"whistler"}, Requests <- {"r"}, PageSize <- 2, LastTime <- 0,
  MaxChanges <- 2, MaxAsked <- 1, MaxFaults <- 0,
  now <- v1, keys <- v2, audit <- v3, buckets <- v4, staff <- v5, active <- v6, ask <- v7,
  passed <- v8, changes <- v9, asked <- v10, faults <- v11
Limits == INSTANCE PublicApi WITH
  Staff <- <<>>, Edits <- {}, Queries <- FirstByName, Keys <- {"k"}, RateLimit <- 2,
  Window <- 2, Places <- {}, Requests <- {"r", "q"}, PageSize <- 2, LastTime <- 4,
  MaxChanges <- 1, MaxAsked <- 6, MaxFaults <- 1,
  now <- v1, keys <- v2, audit <- v3, buckets <- v4, staff <- v5, active <- v6, ask <- v7,
  passed <- v8, changes <- v9, asked <- v10, faults <- v11

------------------------------------------------------------------------------

SuiteInit ==
  /\ Init
  /\ \/ /\ part = "publishing"
        /\ v1 = 0 /\ v2 = 0 /\ v3 = 0 /\ v4 = 0 /\ v5 = 0 /\ v6 = 0 /\ v7 = 0 /\ v8 = 0 /\ v9 = 0
        /\ v10 = 0 /\ v11 = 0 /\ v12 = 0 /\ v13 = 0
     \/ /\ part = "failing" /\ Failing!PagesInit
        /\ v11 = 0 /\ v12 = 0 /\ v13 = 0
     \/ /\ part = "racing" /\ Racing!PagesInit
        /\ v11 = 0 /\ v12 = 0 /\ v13 = 0
     \/ /\ part = "pairing" /\ Pairing!PairingInit
     \/ /\ part = "backfill" /\ Backfill!BackfillInit
     \/ /\ part = "tokens" /\ Tokens!ClientInit
        /\ v12 = 0 /\ v13 = 0
     \/ /\ part = "costs" /\ Costs!ClientInit
        /\ v12 = 0 /\ v13 = 0
     \/ /\ part = "answers" /\ Answers!ApiInit
        /\ v12 = 0 /\ v13 = 0
     \/ /\ part = "limits" /\ Limits!ApiInit
        /\ v12 = 0 /\ v13 = 0

PublishingStep == part = "publishing" /\ Next /\ UNCHANGED <<part, slots>>
FailingStep ==
  /\ part = "failing" /\ Failing!PagesNext
  /\ UNCHANGED <<part, vars, v11, v12, v13>>
RacingStep == part = "racing" /\ Racing!PagesNext /\ UNCHANGED <<part, vars, v11, v12, v13>>
PairingStep == part = "pairing" /\ Pairing!PairingNext /\ UNCHANGED <<part, vars>>
BackfillStep == part = "backfill" /\ Backfill!BackfillNext /\ UNCHANGED <<part, vars>>
TokensStep == part = "tokens" /\ Tokens!ClientNext /\ UNCHANGED <<part, vars, v12, v13>>
CostsStep == part = "costs" /\ Costs!ClientNext /\ UNCHANGED <<part, vars, v12, v13>>
AnswersStep == part = "answers" /\ Answers!ApiNext /\ UNCHANGED <<part, vars, v12, v13>>
LimitsStep == part = "limits" /\ Limits!ApiNext /\ UNCHANGED <<part, vars, v12, v13>>

SuiteNext ==
  \/ PublishingStep \/ FailingStep \/ RacingStep \/ PairingStep \/ BackfillStep
  \/ TokensStep \/ CostsStep \/ AnswersStep \/ LimitsStep

Suite == SuiteInit /\ [][SuiteNext]_<<part, vars, slots>>

------------------------------------------------------------------------------

(* What the public sees is what is recorded: the pages (PublicPages), and the answers  *)
(* of the public API, within the limits of its keys (PublicApi).                       *)
PublicIsServedRight ==
  /\ part = "failing" => Failing!ServedAsRecorded
  /\ part = "racing" => Racing!ServedAsRecorded
  /\ part = "answers" => Answers!PublicAnswersHold
  /\ part = "limits" => Limits!PublicAnswersHold

(* What an admin decides about the legacy entries takes effect (LegacyPairing), and    *)
(* taking over their content undoes nothing saved later (LegacyBackfill).              *)
LegacyIsTakenOver ==
  /\ part = "pairing" => Pairing!DecisionsTakeEffect
  /\ part = "backfill" => Backfill!BackfillUndoesNothing

(* Calls of Shopify share their token, and are throttled and retried as they should    *)
(* (ShopifyClient).                                                                    *)
ShopifyCallsHold ==
  /\ part = "tokens" => Tokens!ShopifyCallsHold
  /\ part = "costs" => Costs!ShopifyCallsHold
====
