---- MODULE MCDesk ----
(* The administration's desk, checked side by side: the assignment of documents, the    *)
(* sessions of administrators, the stages of onboarding, the saves of profiles, the     *)
(* emails of the auth service and the invites, each with its state in its module's own  *)
(* variables, and, one per behaviour and in v1, v2, ..., the people: addresses, the      *)
(* roster and its import.                                                               *)
EXTENDS DocumentAssignments, AdminSessions, OnboardingStages, InstructorAccounts,
  AuthEmails, SeasonInvites, TLC

\* Two people; and two of whatever a part has two interchangeable ones of.
CONSTANTS anna, ben, one, two

MCSymmetry == Permutations({one, two})

VARIABLES
  part,  \* what this behaviour is about
  \* the variables of that part, in the order its module declares them
  v1, v2, v3, v4, v5, v6, v7, v8, v9, v10

slots == <<v1, v2, v3, v4, v5, v6, v7, v8, v9, v10>>
deskVars == <<vars, roleVars, stageVars, accountVars, mailVars, inviteVars>>

\* Answers of a roster cell: whole, partial, contradictory and unknown ones, and what a
\* language model may say of them.
Answer ==
  [org |-> "none", level |-> 0, park |-> FALSE, carving |-> FALSE, partial |-> FALSE,
   trainer |-> FALSE, components |-> {}, unknown |-> FALSE]
MCClauses ==
  {[Answer EXCEPT !.org = "csia", !.level = l] : l \in {2, 5}}
  \cup {[Answer EXCEPT !.org = "csia", !.level = l, !.partial = TRUE] : l \in {2, 3}}
  \cup {[Answer EXCEPT !.org = "casi", !.level = 1, !.park = TRUE],
        [Answer EXCEPT !.org = "casi", !.carving = TRUE],
        [Answer EXCEPT !.org = "casi", !.level = 2, !.components = {"riding"}],
        [Answer EXCEPT !.level = 3, !.components = {"ski"}],
        [Answer EXCEPT !.components = {"teaching"}],
        [Answer EXCEPT !.trainer = TRUE], [Answer EXCEPT !.unknown = TRUE]}
MCDetails ==
  {[Answer EXCEPT !.level = 3, !.components = {"ski", "teaching"}],
   [Answer EXCEPT !.org = "casi", !.level = 2,
                  !.components = {"instructor_training", "teaching"}]}
Proposed(org, track, l, components) ==
  [org |-> org, track |-> track, level |-> l, partial |-> components # {},
   components |-> components, source |-> "llm"]
Item(certificates, trainer) ==
  [value |-> Answer, certificate |-> certificates, trainer |-> trainer, sure |-> TRUE]
MCItems ==
  {Item({}, "ski"), Item({}, "snowboard"), Item({}, "none"),
   Item({Proposed("csia", "regular", 3, {"teach"})}, "none"),
   Item({Proposed("csia", "regular", 3, {"ski"})}, "none"),
   Item({Proposed("csia", "park", 1, {"ski"})}, "none"),
   Item({Proposed("casi", "regular", 2, {"ski"})}, "ski"),
   Item({Proposed("casi", "carving", 1, {})}, "none"),
   [Item({Proposed("csia", "regular", 4, {})}, "none") EXCEPT !.sure = FALSE],
   Item({Proposed("csia", "regular", 2, {})}, "none")}

MCDocuments ==
  [a |-> [season |-> 1, required |-> TRUE], b |-> [season |-> 2, required |-> FALSE]]

\* What profiles are saved with: by the instructor or an admin, texts and places.
MCSaves ==
  {[via |-> "own", fields |-> [en |-> 1, zh |-> 2], marked |-> {"zh"}],
   [via |-> "own", fields |-> [en |-> 1, zh |-> 1], marked |-> {}],
   [via |-> "own", fields |-> [places |-> 1], marked |-> {}],
   [via |-> "admin", fields |-> [en |-> 2], marked |-> {"en"}],
   [via |-> "admin", fields |-> [en |-> 1, zh |-> 0], marked |-> {}],
   [via |-> "admin", fields |-> [zh |-> 1, places |-> 9], marked |-> {}]}

\* What the auth service asks emails for.
MCTimeout == [sync |-> 6, background |-> 40]
MCPayloads ==
  [type: {"email_change", "signup"}, email: {"here"}, new: {"", "there"}, old: {""},
   hash: {"", "h1"}, hashNew: {"", "h2"}]
  \cup [type: {"email_changed_notification", "other"}, email: {"here"}, new: {""},
        old: {"", "before"}, hash: {""}, hashNew: {""}]

Address == INSTANCE EmailChange WITH
  Emails <- {"a", "b"}, First <- "a", Admins <- {"p", "q"}, HistoryRows <- 20,
  MaxChanges <- 2, MaxFaults <- 1,
  profile <- v1, authEmail <- v2, inviteEmail <- v3, trail <- v4, aged <- v5, change <- v6,
  told <- v7, slow <- v8, emailFaults <- v9
Roster == INSTANCE RosterImport WITH
  Clauses <- MCClauses, Details <- MCDetails, Items <- MCItems, MaxValues <- 3,
  MaxItems <- 2,
  stage <- v1, cell <- v2, details <- v3, row <- v4, ruled <- v5,
  Applies <- {}, MaxApplies <- 0, MaxEdits <- 0, MaxFaults <- 0, user <- 0,
  instructor <- 0, relations <- 0, invited <- 0, apply <- 0, edits <- 0, applies <- 0,
  raced <- 0, overwritten <- 0, importFaults <- 0
Import == INSTANCE RosterImport WITH
  Applies <- {"r1", "r2"}, MaxApplies <- 4, MaxEdits <- 2, MaxFaults <- 2,
  user <- v1, instructor <- v2, relations <- v3, invited <- v4, apply <- v5, edits <- v6,
  applies <- v7, raced <- v8, overwritten <- v9, importFaults <- v10,
  Clauses <- {}, Details <- {}, Items <- {}, MaxValues <- 0, MaxItems <- 0, stage <- 0,
  cell <- 0, details <- 0, row <- 0, ruled <- 0
------------------------------------------------------------------------------

SuiteInit ==
  /\ Init /\ RolesInit /\ StagesInit /\ AccountsInit /\ MailInit /\ InvitesInit
  /\ \/ /\ part \in {"assignments", "sessions", "stages", "accounts", "mail", "overlap", "resent"}
        /\ v1 = 0 /\ v2 = 0 /\ v3 = 0 /\ v4 = 0 /\ v5 = 0 /\ v6 = 0 /\ v7 = 0 /\ v8 = 0 /\ v9 = 0
        /\ v10 = 0
     \/ /\ part = "email" /\ Address!EmailInit
        /\ v10 = 0
     \/ /\ part = "roster" /\ Roster!RosterInit
        /\ v6 = 0 /\ v7 = 0 /\ v8 = 0 /\ v9 = 0 /\ v10 = 0
     \/ /\ part = "import" /\ Import!ImportInit
  \* The assignments and the mailer rest in one state while a behaviour is about another part.
  /\ part # "assignments" => person = [i \in Instructors |-> [approval |-> "pending", active |-> FALSE]]
  /\ part # "mail" => configured

AssignmentsStep ==
  /\ part = "assignments" /\ Next
  /\ UNCHANGED <<part, roleVars, stageVars, accountVars, mailVars, inviteVars, slots>>
RolesStep ==
  /\ part = "sessions" /\ RolesNext
  /\ UNCHANGED <<part, vars, stageVars, accountVars, mailVars, inviteVars, slots>>
invitesRest == <<part, vars, roleVars, stageVars, accountVars, mailVars, slots>>
\* Two runs beside releases by hand, at one address; and one at a time beside requests of
\* a new link and a change of the address.
OverlapStep ==
  part = "overlap" /\ InvitesNext /\ UNCHANGED <<invitesRest, resend, account>>
RelinkedStep ==
  /\ part = "resent" /\ InvitesNext /\ UNCHANGED <<invitesRest, byHand>>
  /\ \A d, e \in Runs : run'[d] # NoRun /\ run'[e] # NoRun => d = e
AddressStep == part = "email" /\ Address!EmailNext /\ UNCHANGED <<part, deskVars, v10>>
RosterStep ==
  part = "roster" /\ Roster!RosterNext /\ UNCHANGED <<part, deskVars, v6, v7, v8, v9, v10>>
ImportStep == part = "import" /\ Import!ImportNext /\ UNCHANGED <<part, deskVars>>
StagesStep ==
  /\ part = "stages" /\ StagesNext
  /\ UNCHANGED <<part, vars, roleVars, accountVars, mailVars, inviteVars, slots>>
AccountsStep ==
  /\ part = "accounts" /\ AccountsNext
  /\ UNCHANGED <<part, vars, roleVars, stageVars, mailVars, inviteVars, slots>>
HookStep ==
  /\ part = "mail" /\ MailNext
  /\ UNCHANGED <<part, vars, roleVars, stageVars, accountVars, inviteVars, slots>>
SuiteNext ==
  \/ AssignmentsStep \/ OverlapStep \/ RelinkedStep \/ AddressStep \/ RosterStep
  \/ ImportStep \/ StagesStep \/ AccountsStep \/ HookStep \/ RolesStep

Suite == SuiteInit /\ [][SuiteNext]_<<part, deskVars, slots>>

------------------------------------------------------------------------------

(* A change of address the log calls completed is complete: the profile, the account   *)
(* and the invite have it, and the old address was told (EmailChange).                *)
CompletedIsTrue == part = "email" => Address!EmailTypeOK /\ Address!CompletedIsTrue

(* What the roster says of a person is valid, is the highest of what was stated, and  *)
(* is not lowered by a language model; and importing it makes                         *)
(* what it reports, and overwrites nobody (RosterImport).                             *)
RosterIsKept ==
  /\ part = "roster" => Roster!RowIsValid /\ Roster!HighestKept /\ Roster!RulesStand
  /\ part = "import" => Import!ImportIsSafe
====
