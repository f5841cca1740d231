------------------------- MODULE DocumentAssignments -------------------------
(***************************************************************************)
(* Who holds an onboarding document: src/documents (publishing, audience,  *)
(* assignments, onboarding) with the approval and activation of            *)
(* instructors (src/admin, src/activation) that call it.                   *)
(*                                                                         *)
(* There is one template, with its PDF and fields in place.  A request is  *)
(* a session that makes one call to the database per step; what it read    *)
(* may be stale when it writes.  The publishing side makes the template    *)
(* live and then lists the approved instructors; the approving side        *)
(* approves the instructor and then lists the live templates.              *)
(***************************************************************************)
EXTENDS Integers, FiniteSets

CONSTANTS
  Instructors,
  Seasons,
  Sessions,   \* requests the API serves at a time
  MaxOps,     \* bound: requests
  MaxFaults   \* bound: requests that die half way

ASSUME SessionsAssumption == IsFiniteSet(Sessions)
ASSUME BoundsAssumption == {MaxOps, MaxFaults} \subseteq Nat

VARIABLES
  template,   \* row of document_templates
  person,     \* rows of instructors
  held,       \* assignments that are not archived, as <<instructor, season>>
  op,         \* what each session is doing
  news,       \* assignments made less emails sent, per instructor and season
  missed,     \* instructors who may lack the document, for a reason given below
  ops, faults \* bounds

vars == <<template, person, held, op, news, missed, ops, faults>>
rest == <<missed, ops, faults>>

-----------------------------------------------------------------------------
NoSeason == "none"
Pairs == Instructors \X Seasons
Template == [status : {"draft", "live", "retired"},
             to : {"nobody", "all", "selected"},
             season : Seasons \cup {NoSeason}]
Person == [approval : {"pending", "approved", "rejected"}, active : BOOLEAN]

Approved(i) == person[i].approval = "approved"
ActiveApproved == {i \in Instructors : Approved(i) /\ person[i].active}
LiveForAll == template.status = "live" /\ template.to = "all"

At(s, pc) == op[s].pc = pc
Idle == [pc |-> "idle"]
Goes(s, request) == op' = [op EXCEPT ![s] = request]
Ends(s) == Goes(s, Idle)

\* A request arrives.
Starts(s) ==
  /\ At(s, "idle")
  /\ ops < MaxOps
  /\ ops' = ops + 1

\* The call assignTemplateTo(template, season, who).
Assigning(who, season) == [pc |-> "open", who |-> who, season |-> season]

\* assignTemplateTo after listActiveApprovedInstructorIds.
AssigningAll(season) == [pc |-> "list", season |-> season]

\* The call assignPublished(i).
Onboarding(i) == [pc |-> "person", i |-> i]

-----------------------------------------------------------------------------
(* Publishing.                                                              *)

\* publish: the template is loaded and must not be live.
RequestPublish(s) ==
  /\ Starts(s)
  /\ template.status # "live"
  /\ \E season \in Seasons :
       \/ Goes(s, [pc |-> "publish", to |-> "all", who |-> {},
                   season |-> season])
       \/ \E who \in SUBSET Instructors :
            Goes(s, [pc |-> "publish", to |-> "selected", who |-> who,
                     season |-> season])
  /\ UNCHANGED <<template, person, held, news, missed, faults>>

\* Mutation: the row goes live without the audience.
PublishToNobody(s) ==
  LET o == op[s] IN
  /\ At(s, "publish")
  /\ template' = [template EXCEPT !.status = "live"]
  /\ Goes(s, Assigning(o.who, o.season))
  /\ UNCHANGED <<person, held, news, rest>>

\* publish: the row goes live if it still is not, then it is assigned.
Publish(s) ==
  LET o == op[s] IN
  /\ At(s, "publish")
  /\ \/ /\ template.status # "live"
        /\ template' = [status |-> "live", to |-> o.to, season |-> o.season]
        /\ Goes(s, IF o.to = "all" THEN AssigningAll(o.season)
                   ELSE Assigning(o.who, o.season))
     \/ /\ template.status = "live"
        /\ Ends(s)
        /\ UNCHANGED template
  /\ UNCHANGED <<person, held, news, rest>>

\* changeAudience: the template must be live and have the other audience.
RequestAudience(s) ==
  /\ Starts(s)
  /\ template.status = "live"
  /\ \E to \in {"all", "selected"} \ {template.to} :
       Goes(s, [pc |-> "audience", to |-> to, season |-> template.season])
  /\ UNCHANGED <<template, person, held, news, missed, faults>>

\* changeAudience: the season written is the one that was loaded.
ChangeAudience(s) ==
  LET o == op[s] IN
  /\ At(s, "audience")
  /\ \/ /\ template.status = "live"
        /\ template' = [template EXCEPT !.to = o.to, !.season = o.season]
        /\ IF o.to = "all" THEN Goes(s, AssigningAll(o.season)) ELSE Ends(s)
     \/ /\ template.status # "live"
        /\ Ends(s)
        /\ UNCHANGED template
  /\ UNCHANGED <<person, held, news, rest>>

Retire(s) ==
  /\ Starts(s)
  /\ template.status = "live"
  /\ template' = [template EXCEPT !.status = "retired"]
  /\ UNCHANGED <<person, held, op, news, missed, faults>>

-----------------------------------------------------------------------------
(* Assignments.                                                             *)

\* create: the template must be live.
RequestCreate(s) ==
  /\ Starts(s)
  /\ template.status = "live"
  /\ \E season \in Seasons :
       \/ Goes(s, AssigningAll(season))
       \/ \E who \in SUBSET Instructors : Goes(s, Assigning(who, season))
  /\ UNCHANGED <<template, person, held, news, missed, faults>>

List(s) ==
  /\ At(s, "list")
  /\ Goes(s, Assigning(ActiveApproved, op[s].season))
  /\ UNCHANGED <<template, person, held, news, rest>>

\* assignTemplateTo: those who hold the document already are left out.
FindOpen(s) ==
  LET o == op[s]
      rows == {i \in o.who : <<i, o.season>> \notin held} IN
  /\ At(s, "open")
  /\ IF rows = {} THEN Ends(s)
     ELSE Goes(s, [pc |-> "insert", who |-> rows, season |-> o.season])
  /\ UNCHANGED <<template, person, held, news, rest>>

\* What the session does once it has made the assignments of `made`.
Mailing(made, season) ==
  IF made = {} THEN Idle ELSE [pc |-> "mail", made |-> made, season |-> season]

\* `made` are inserted, and an email is due to each.
Adds(made, season) ==
  /\ held' = held \cup (made \X {season})
  /\ news' = [p \in Pairs |-> news[p] + (IF p \in made \X {season} THEN 1 ELSE 0)]

\* Mutation: a row that is there already makes the whole request fail.
InsertOrGiveUp(s) ==
  LET o == op[s]
      clash == (o.who \X {o.season}) \cap held IN
  /\ At(s, "insert")
  /\ IF clash = {} THEN Adds(o.who, o.season) ELSE UNCHANGED <<held, news>>
  /\ Goes(s, IF clash = {} THEN Mailing(o.who, o.season) ELSE Idle)
  /\ UNCHANGED <<template, person, rest>>

\* insertMany: one statement, which the unique index lets through or not.
InsertMany(s) ==
  LET o == op[s]
      clash == (o.who \X {o.season}) \cap held IN
  /\ At(s, "insert")
  /\ \/ /\ clash = {}
        /\ Adds(o.who, o.season)
        /\ Goes(s, Mailing(o.who, o.season))
     \/ /\ clash # {}
        /\ Goes(s, [pc |-> "each", who |-> o.who, made |-> {},
                    season |-> o.season])
        /\ UNCHANGED <<held, news>>
  /\ UNCHANGED <<template, person, rest>>

\* Mutation: every row of the request counts as made.
InsertEachMakesAll(s) ==
  LET o == op[s] IN
  /\ At(s, "each")
  /\ Adds({i \in o.who : <<i, o.season>> \notin held}, o.season)
  /\ Goes(s, Mailing(o.who, o.season))
  /\ UNCHANGED <<template, person, rest>>

\* insertIfAbsent, row by row.
InsertEach(s) ==
  LET o == op[s] IN
  /\ At(s, "each")
  /\ \E i \in o.who :
       LET new == {i} \ {j \in Instructors : <<j, o.season>> \in held}
           made == o.made \cup new IN
       /\ Adds(new, o.season)
       /\ Goes(s, IF o.who = {i} THEN Mailing(made, o.season)
                  ELSE [o EXCEPT !.who = @ \ {i}, !.made = made])
  /\ UNCHANGED <<template, person, rest>>

\* notifyAssigned, sendAssigned.
Mail(s) ==
  LET o == op[s] IN
  /\ At(s, "mail")
  /\ news' = [p \in Pairs |->
                news[p] - (IF p \in o.made \X {o.season} THEN 1 ELSE 0)]
  /\ Ends(s)
  /\ UNCHANGED <<template, person, held, rest>>

\* archive; the admin took the document from the instructor.
Archive(s) ==
  /\ Starts(s)
  /\ \E p \in held : held' = held \ {p} /\ missed' = missed \cup {p[1]}
  /\ UNCHANGED <<template, person, op, news, faults>>

-----------------------------------------------------------------------------
(* Instructors.                                                             *)

\* setApprovalStatus: the transition is checked on the row that was loaded.
RequestApproval(s) ==
  /\ Starts(s)
  /\ \E i \in Instructors :
       \/ person[i].approval \in {"pending", "rejected"}
          /\ Goes(s, [pc |-> "approval", i |-> i, to |-> "approved"])
       \/ person[i].approval = "pending"
          /\ Goes(s, [pc |-> "approval", i |-> i, to |-> "rejected"])
  /\ UNCHANGED <<template, person, held, news, missed, faults>>

\* setApprovalStatus: the update; an approval goes on to the documents.
SetApproval(s) ==
  LET o == op[s] IN
  /\ At(s, "approval")
  /\ person' = [person EXCEPT ![o.i].approval = o.to]
  /\ IF o.to = "approved" THEN Goes(s, Onboarding(o.i)) ELSE Ends(s)
  /\ UNCHANGED <<template, held, news, rest>>

\* complete (of an invite): approveIfPendingAndActive is one statement.
Activate(s) ==
  /\ Starts(s)
  /\ \E i \in Instructors :
       /\ person' = IF person[i] = [approval |-> "pending", active |-> TRUE]
                    THEN [person EXCEPT ![i].approval = "approved"]
                    ELSE person
       /\ Goes(s, Onboarding(i))
  /\ UNCHANGED <<template, held, news, missed, faults>>

RequestActive(s) ==
  /\ Starts(s)
  /\ \E i \in Instructors, on \in BOOLEAN :
       Goes(s, [pc |-> "active", i |-> i, on |-> on,
                was |-> person[i].active])
  /\ UNCHANGED <<template, person, held, news, missed, faults>>

\* setActive: the documents follow if the row that was loaded was inactive.  An
\* instructor who was active then and is not any more comes back without.
SetActive(s) ==
  LET o == op[s] IN
  /\ At(s, "active")
  /\ person' = [person EXCEPT ![o.i].active = o.on]
  /\ IF o.on /\ ~o.was /\ Approved(o.i) THEN Goes(s, Onboarding(o.i))
     ELSE Ends(s)
  /\ missed' = IF o.on /\ o.was /\ ~person[o.i].active
               THEN missed \cup {o.i} ELSE missed
  /\ UNCHANGED <<template, held, news, ops, faults>>

\* assignPublished: the instructor is loaded and must be approved.
LoadPerson(s) ==
  LET i == op[s].i IN
  /\ At(s, "person")
  /\ IF Approved(i) THEN Goes(s, [pc |-> "templates", i |-> i]) ELSE Ends(s)
  /\ UNCHANGED <<template, person, held, news, rest>>

\* assignTo: a live template for all is assigned for its season.
LoadTemplates(s) ==
  /\ At(s, "templates")
  /\ IF LiveForAll THEN Goes(s, Assigning({op[s].i}, template.season))
     ELSE Ends(s)
  /\ UNCHANGED <<template, person, held, news, rest>>

-----------------------------------------------------------------------------
\* Whom a request has still to assign the template to.
Ahead(r) ==
  CASE r.pc = "list" -> Instructors
    [] r.pc \in {"open", "insert", "each"} -> r.who
    [] r.pc \in {"person", "templates"} -> {r.i}
    [] OTHER -> {}

\* A call throws or the process dies: the request ends where it is.  (What
\* assignPublished throws is logged, and the approval stays.)
Dies(s) ==
  /\ ~At(s, "idle")
  /\ faults < MaxFaults
  /\ faults' = faults + 1
  /\ missed' = missed \cup Ahead(op[s])
  /\ Ends(s)
  /\ UNCHANGED <<template, person, held, news, ops>>

Init ==
  /\ template = [status |-> "draft", to |-> "nobody", season |-> NoSeason]
  /\ person \in [Instructors -> [approval : {"pending", "approved"},
                                 active : BOOLEAN]]
  /\ held = {}
  /\ op = [s \in Sessions |-> Idle]
  /\ news = [p \in Pairs |-> 0]
  /\ missed = {}
  /\ ops = 0 /\ faults = 0

Next ==
  \E s \in Sessions :
    \/ RequestPublish(s) \/ Publish(s)
    \/ RequestAudience(s) \/ ChangeAudience(s) \/ Retire(s)
    \/ RequestCreate(s) \/ List(s) \/ FindOpen(s)
    \/ InsertMany(s) \/ InsertEach(s) \/ Mail(s) \/ Archive(s)
    \/ RequestApproval(s) \/ SetApproval(s) \/ Activate(s)
    \/ RequestActive(s) \/ SetActive(s)
    \/ LoadPerson(s) \/ LoadTemplates(s)
    \/ Dies(s)

Spec == Init /\ [][Next]_vars

-----------------------------------------------------------------------------
(* Properties.                                                              *)

Request ==
  [pc : {"idle"}]
  \cup [pc : {"publish"}, to : {"all", "selected"}, who : SUBSET Instructors,
        season : Seasons]
  \cup [pc : {"audience"}, to : {"all", "selected"}, season : Seasons]
  \cup [pc : {"list"}, season : Seasons]
  \cup [pc : {"open", "insert"}, who : SUBSET Instructors, season : Seasons]
  \cup [pc : {"each"}, who : SUBSET Instructors, made : SUBSET Instructors,
        season : Seasons]
  \cup [pc : {"mail"}, made : SUBSET Instructors, season : Seasons]
  \cup [pc : {"approval"}, i : Instructors, to : {"approved", "rejected"}]
  \cup [pc : {"active"}, i : Instructors, on : BOOLEAN, was : BOOLEAN]
  \cup [pc : {"person", "templates"}, i : Instructors]

\* Every variable has its type, and a live template has an audience and a
\* season (the constraint document_templates_live_published).
TypeOK ==
  /\ template \in Template
  /\ template.status = "live" => template.to # "nobody" /\ template.season \in Seasons
  /\ person \in [Instructors -> Person]
  /\ held \subseteq Pairs
  /\ op \in [Sessions -> Request]
  /\ news \in [Pairs -> Int]
  /\ missed \subseteq Instructors
  /\ ops \in 0..MaxOps /\ faults \in 0..MaxFaults

\* The request is about to assign the template to i for the season: it goes
\* through a list that i is on, or is about to look up what is live.
Reaches(r, i, season) ==
  /\ i \in Ahead(r)
  /\ r.pc \notin {"person", "templates"} => r.season = season

\* The instructor holds the document or a request is about to assign it.
Covered(i) ==
  \/ <<i, template.season>> \in held
  \/ \E s \in Sessions : Reaches(op[s], i, template.season)

\* Publishing and approving, however they cross, miss nobody: while the
\* template is live for all, whoever is approved and active holds it for its
\* season, or a request that is still running is about to assign it.  Not so
\* those from whom an admin took it, whose request died, or who were
\* reactivated by a request that found them active (`missed`).
NobodyMissed ==
  LiveForAll => \A i \in ActiveApproved \ missed : Covered(i)

\* Requests that assign the same document at the same time share the emails: an
\* assignment is announced by the request that made it, once, and when all
\* requests have ended without a fault none is left unannounced.
AnnouncedOnce ==
  /\ \A p \in Pairs : news[p] >= 0
  /\ faults = 0 /\ (\A s \in Sessions : At(s, "idle")) =>
       \A p \in Pairs : news[p] = 0

\* "Valid transitions only: pending -> approved, rejected -> approved and
\* pending -> rejected" (setApprovalStatus): approval is never taken back.
ApprovalStays ==
  [][\A i \in Instructors : Approved(i) => Approved(i)']_vars
=============================================================================
