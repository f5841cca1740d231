------------------------------ MODULE DeskProofs ------------------------------
(* The administration's desk: what is assigned (DocumentAssignments), who may act as an      *)
(* administrator (AdminSessions), whether the places that ask for the stage of an instructor *)
(* agree (OnboardingStages), what the saves of a profile keep (InstructorAccounts), what     *)
(* the auth service's hook is told of its emails (AuthEmails), and where the invites of a    *)
(* season go (SeasonInvites).                                                                *)
EXTENDS
  DocumentAssignments, AdminSessions, OnboardingStages, InstructorAccounts, AuthEmails,
  SeasonInvites, TLAPS, FiniteSetTheorems

(***************************************************************************)
(* DocumentAssignments, for any instructors, seasons, sessions and bounds: *)
(* the types hold, nobody is missed, and what is assigned is announced     *)
(* once.  NobodyMissed is inductive with the types: `Covered` says at      *)
(* every step who is still to come.  AnnouncedOnce is not: `EmailsOwed`    *)
(* counts, of each assignment, the requests that have still to announce it.*)
(***************************************************************************)

\* A request is none of the others: what its pc says of its fields.
LEMMA Fields ==
  ASSUME TypeOK, NEW s \in Sessions
  PROVE  /\ op[s].pc = "publish" =>
              /\ op[s].to \in {"all", "selected"} /\ op[s].season \in Seasons
              /\ op[s].who \subseteq Instructors
         /\ op[s].pc = "audience" =>
              op[s].to \in {"all", "selected"} /\ op[s].season \in Seasons
         /\ op[s].pc = "list" => op[s].season \in Seasons
         /\ op[s].pc \in {"open", "insert", "each"} =>
              op[s].who \subseteq Instructors /\ op[s].season \in Seasons
         /\ op[s].pc \in {"each", "mail"} =>
              op[s].made \subseteq Instructors /\ op[s].season \in Seasons
         /\ op[s].pc \in {"approval", "active", "person", "templates"} =>
              op[s].i \in Instructors
         /\ op[s].pc = "approval" => op[s].to \in {"approved", "rejected"}
         /\ op[s].pc = "active" => op[s].on \in BOOLEAN
  BY DEF TypeOK, Request

\* The types hold in every state (the rows of document_templates, of
\* document_assignments and of instructors, and the requests).
THEOREM TypeCorrect == Spec => []TypeOK
<1>1. Init => TypeOK
  BY BoundsAssumption DEF Init, TypeOK, Template, Person, Request, Idle, NoSeason
<1>2. TypeOK /\ [Next]_vars => TypeOK'
  <2> SUFFICES ASSUME TypeOK, [Next]_vars PROVE TypeOK'
    OBVIOUS
  <2>0. CASE UNCHANGED vars
    BY <2>0 DEF vars, TypeOK
  <2> SUFFICES ASSUME NEW s \in Sessions,
                      \/ RequestPublish(s) \/ Publish(s)
                      \/ RequestAudience(s) \/ ChangeAudience(s) \/ Retire(s)
                      \/ RequestCreate(s) \/ List(s) \/ FindOpen(s)
                      \/ InsertMany(s) \/ InsertEach(s) \/ Mail(s) \/ Archive(s)
                      \/ RequestApproval(s) \/ SetApproval(s) \/ Activate(s)
                      \/ RequestActive(s) \/ SetActive(s)
                      \/ LoadPerson(s) \/ LoadTemplates(s)
                      \/ Dies(s)
               PROVE  TypeOK'
    BY <2>0 DEF Next
  <2> USE Fields, BoundsAssumption DEF TypeOK, Goes, Ends, Starts, At, Idle, rest
  <2>1. CASE RequestPublish(s)
    BY <2>1 DEF RequestPublish, Request
  <2>2. CASE Publish(s)
    BY <2>2 DEF Publish, Request, Template, Assigning, AssigningAll
  <2>3. CASE RequestAudience(s)
    BY <2>3 DEF RequestAudience, Request, Template
  <2>4. CASE ChangeAudience(s)
    <3>1. At(s, "audience") /\ op[s].to \in {"all", "selected"}
          /\ op[s].season \in Seasons
      BY <2>4 DEF ChangeAudience
    <3>2. op' \in [Sessions -> Request]
      <4>1. AssigningAll(op[s].season) \in Request /\ Idle \in Request
        BY <3>1 DEF AssigningAll, Request
      <4> QED BY <4>1, <2>4 DEF ChangeAudience
    <3>3. template' \in Template
          /\ (template'.status = "live" =>
                template'.to # "nobody" /\ template'.season \in Seasons)
      BY <2>4, <3>1 DEF ChangeAudience, Template
    <3> QED BY <2>4, <3>2, <3>3 DEF ChangeAudience
  <2>5. CASE Retire(s)
    BY <2>5 DEF Retire, Template
  <2>6. CASE RequestCreate(s)
    BY <2>6 DEF RequestCreate, Request, Assigning, AssigningAll
  <2>7. CASE List(s)
    BY <2>7 DEF List, Request, Assigning, ActiveApproved
  <2>8. CASE FindOpen(s)
    <3>1. PICK rows \in SUBSET Instructors :
            op' = [op EXCEPT ![s] =
                     IF rows = {} THEN Idle
                     ELSE [pc |-> "insert", who |-> rows,
                           season |-> op[s].season]]
      BY <2>8 DEF FindOpen
    <3>2. op' \in [Sessions -> Request]
      BY <2>8, <3>1 DEF FindOpen, Request
    <3> QED BY <2>8, <3>2 DEF FindOpen
  <2>9. CASE InsertMany(s)
    BY <2>9 DEF InsertMany, Request, Adds, Mailing, Pairs
  <2>10. CASE InsertEach(s)
    <3>1. op[s] \in [pc : {"each"}, who : SUBSET Instructors,
                     made : SUBSET Instructors, season : Seasons]
      BY <2>10 DEF InsertEach, Request
    <3> DEFINE New(i) == {i} \ {j \in Instructors : <<j, op[s].season>> \in held}
               Grown(i) == op[s].made \cup New(i)
    <3>2. PICK i \in op[s].who :
            /\ Adds(New(i), op[s].season)
            /\ Goes(s, IF op[s].who = {i} THEN Mailing(Grown(i), op[s].season)
                       ELSE [op[s] EXCEPT !.who = op[s].who \ {i}, !.made = Grown(i)])
      BY <2>10 DEF InsertEach
    <3>3. i \in Instructors /\ Grown(i) \in SUBSET Instructors
          /\ New(i) \in SUBSET Instructors /\ op[s].season \in Seasons
      BY <3>1
    <3> HIDE DEF New, Grown
    <3>4. Mailing(Grown(i), op[s].season) \in Request
      BY <3>3 DEF Mailing, Request
    <3>5. [op[s] EXCEPT !.who = op[s].who \ {i}, !.made = Grown(i)]
            \in [pc : {"each"}, who : SUBSET Instructors,
                 made : SUBSET Instructors, season : Seasons]
      BY <3>1, <3>3
    <3>6. op' \in [Sessions -> Request]
      BY <3>2, <3>4, <3>5 DEF Request
    <3>7. held' \subseteq Pairs /\ news' \in [Pairs -> Int]
      BY <3>2, <3>3 DEF Adds, Pairs
    <3> QED BY <2>10, <3>6, <3>7 DEF InsertEach
  <2>11. CASE Mail(s)
    BY <2>11 DEF Mail, Request, Pairs
  <2>12. CASE Archive(s)
    BY <2>12 DEF Archive, Pairs
  <2>13. CASE RequestApproval(s)
    BY <2>13 DEF RequestApproval, Request
  <2>14. CASE SetApproval(s)
    <3>1. op[s].i \in Instructors /\ op[s].to \in {"approved", "rejected"}
      BY <2>14 DEF SetApproval
    <3>2. op' \in [Sessions -> Request]
      <4>1. Onboarding(op[s].i) \in Request /\ Idle \in Request
        BY <3>1 DEF Onboarding, Request
      <4> QED BY <4>1, <2>14 DEF SetApproval
    <3>3. person' \in [Instructors -> Person]
      BY <2>14, <3>1 DEF SetApproval, Person
    <3> QED BY <2>14, <3>2, <3>3 DEF SetApproval
  <2>15. CASE Activate(s)
    BY <2>15 DEF Activate, Request, Person, Onboarding
  <2>16. CASE RequestActive(s)
    BY <2>16 DEF RequestActive, Request, Person
  <2>17. CASE SetActive(s)
    BY <2>17 DEF SetActive, Request, Person, Onboarding
  <2>18. CASE LoadPerson(s)
    BY <2>18 DEF LoadPerson, Request
  <2>19. CASE LoadTemplates(s)
    BY <2>19 DEF LoadTemplates, Request, Assigning, LiveForAll
  <2>20. CASE Dies(s)
    BY <2>20 DEF Dies, Request, Ahead
  <2>21. QED
    BY <2>1, <2>2, <2>3, <2>4, <2>5, <2>6, <2>7, <2>8, <2>9, <2>10, <2>11,
       <2>12, <2>13, <2>14, <2>15, <2>16, <2>17, <2>18, <2>19, <2>20
<1>3. QED
  BY <1>1, <1>2, PTL DEF Spec

-----------------------------------------------------------------------------
\* Whom a request reaches, by what it is doing.
LEMMA ReachesWhom ==
  ASSUME NEW r, NEW i \in Instructors, NEW term
  PROVE  /\ r.pc = "list" => (Reaches(r, i, term) <=> r.season = term)
         /\ r.pc \in {"open", "insert", "each"} =>
              (Reaches(r, i, term) <=> i \in r.who /\ r.season = term)
         /\ r.pc \in {"person", "templates"} =>
              (Reaches(r, i, term) <=> i = r.i)
         /\ r.pc \in {"idle", "publish", "audience", "mail", "approval", "active"}
              => ~Reaches(r, i, term)
<1>1. CASE r.pc = "list"
  <2>1. Ahead(r) = Instructors
    BY <1>1 DEF Ahead
  <2> QED BY <1>1, <2>1 DEF Reaches
<1>2. CASE r.pc \in {"open", "insert", "each"}
  <2>1. Ahead(r) = r.who
    BY <1>2 DEF Ahead
  <2> QED BY <1>2, <2>1 DEF Reaches
<1>3. CASE r.pc \in {"person", "templates"}
  <2>1. Ahead(r) = {r.i}
    BY <1>3 DEF Ahead
  <2> QED BY <1>3, <2>1 DEF Reaches
<1>4. CASE r.pc \in {"idle", "publish", "audience", "mail", "approval", "active"}
  <2>1. Ahead(r) = {}
    BY <1>4 DEF Ahead
  <2> QED BY <1>4, <2>1 DEF Reaches
<1> QED BY <1>1, <1>2, <1>3, <1>4

\* A step of one session leaves i covered if the season stays, no assignment
\* goes, and the session either did not reach i, or has assigned, or still will.
LEMMA StaysCovered ==
  ASSUME TypeOK, NEW s \in Sessions, NEW r, Goes(s, r), held \subseteq held',
         template'.season = template.season, NEW i \in Instructors, Covered(i),
         Reaches(op[s], i, template.season) =>
           \/ <<i, template.season>> \in held'
           \/ Reaches(r, i, template.season)
  PROVE  Covered(i)'
<1>1. CASE <<i, template.season>> \in held
  BY <1>1 DEF Covered
<1>2. CASE \E q \in Sessions : Reaches(op[q], i, template.season)
  <2>1. PICK q \in Sessions : Reaches(op[q], i, template.season)
    BY <1>2
  <2>2. CASE q # s
    <3>1. op'[q] = op[q]
      BY <2>2 DEF Goes, TypeOK
    <3> QED BY <2>1, <3>1 DEF Covered
  <2>3. CASE q = s
    <3>1. op'[s] = r
      BY DEF Goes, TypeOK
    <3> QED BY <2>1, <2>3, <3>1 DEF Covered
  <2> QED BY <2>2, <2>3
<1> QED BY <1>1, <1>2 DEF Covered

\* A session that reaches i covers it.
LEMMA ReachedCovered ==
  ASSUME TypeOK, NEW s \in Sessions, NEW r, Goes(s, r), NEW i \in Instructors,
         Reaches(r, i, template'.season)
  PROVE  Covered(i)'
<1>1. op'[s] = r
  BY DEF Goes, TypeOK
<1> QED BY <1>1 DEF Covered

\* While the template is live for all, every approved and active instructor
\* holds it for its season or a running request is about to assign it, whatever
\* publish, changeAudience, setApprovalStatus, setActive, the activation of an
\* invite and the assignments of an admin do at the same time.
THEOREM MissesNobody == Spec => []NobodyMissed
<1>1. Init => NobodyMissed
  BY DEF Init, NobodyMissed, LiveForAll
<1>2. TypeOK /\ NobodyMissed /\ [Next]_vars => NobodyMissed'
  <2> SUFFICES ASSUME TypeOK, NobodyMissed, [Next]_vars,
                      LiveForAll', NEW i \in (ActiveApproved \ missed)'
               PROVE  Covered(i)'
    BY DEF NobodyMissed
  <2>i. i \in Instructors /\ person'[i].approval = "approved"
        /\ person'[i].active /\ i \notin missed'
    BY DEF ActiveApproved, Approved
  <2> DEFINE Was == LiveForAll /\ i \in ActiveApproved \ missed
  <2>w. Was => Covered(i)
    BY DEF NobodyMissed
  <2>u. ASSUME UNCHANGED <<template, person>>, i \notin missed PROVE Was
    BY <2>u, <2>i DEF LiveForAll, ActiveApproved, Approved
  <2> HIDE DEF Was
  <2>0. CASE UNCHANGED vars
    <3>1. Covered(i)
      BY <2>0, <2>i, <2>u, <2>w DEF vars
    <3> QED BY <2>0, <3>1 DEF vars, Covered
  <2> SUFFICES ASSUME NEW s \in Sessions,
                      \/ RequestPublish(s) \/ Publish(s)
                      \/ RequestAudience(s) \/ ChangeAudience(s) \/ Retire(s)
                      \/ RequestCreate(s) \/ List(s) \/ FindOpen(s)
                      \/ InsertMany(s) \/ InsertEach(s) \/ Mail(s) \/ Archive(s)
                      \/ RequestApproval(s) \/ SetApproval(s) \/ Activate(s)
                      \/ RequestActive(s) \/ SetActive(s)
                      \/ LoadPerson(s) \/ LoadTemplates(s)
                      \/ Dies(s)
               PROVE  Covered(i)'
    BY <2>0 DEF Next
  <2>1. ASSUME NEW r, Goes(s, r), Was, held \subseteq held',
               template'.season = template.season,
               ~Reaches(op[s], i, template.season)
        PROVE  Covered(i)'
    BY <2>1, <2>i, <2>w, StaysCovered
  <2>2. CASE RequestPublish(s) \/ RequestAudience(s) \/ RequestCreate(s)
             \/ RequestApproval(s) \/ RequestActive(s)
    <3>1. PICK r : Goes(s, r)
      BY <2>2 DEF RequestPublish, RequestAudience, RequestCreate,
                  RequestApproval, RequestActive
    <3>2. op[s].pc = "idle" /\ UNCHANGED <<template, person, held, missed>>
      BY <2>2 DEF RequestPublish, RequestAudience, RequestCreate,
                  RequestApproval, RequestActive, Starts, At
    <3> QED BY <2>1, <2>i, <2>u, <3>1, <3>2, ReachesWhom
  <2>3. CASE Publish(s)
    <3>0. op[s].pc = "publish" /\ UNCHANGED <<person, held, missed>>
      BY <2>3 DEF Publish, At, rest
    <3>1. CASE template.status # "live" /\ op[s].to = "all"
      <4>1. /\ template' = [status |-> "live", to |-> op[s].to,
                            season |-> op[s].season]
            /\ Goes(s, AssigningAll(op[s].season))
        BY <2>3, <3>1 DEF Publish
      <4>2. Reaches(AssigningAll(op[s].season), i, template'.season)
        BY <4>1, <2>i, ReachesWhom DEF AssigningAll
      <4> QED BY <4>1, <4>2, <2>i, ReachedCovered
    <3>2. CASE template.status # "live" /\ op[s].to # "all"
      <4>1. template'.to = op[s].to
        BY <2>3, <3>2 DEF Publish
      <4> QED BY <4>1, <3>2 DEF LiveForAll
    <3>3. CASE template.status = "live"
      <4>1. Goes(s, Idle) /\ template' = template
        BY <2>3, <3>3 DEF Publish, Ends
      <4> QED BY <4>1, <3>0, <2>1, <2>i, <2>u, ReachesWhom
    <3> QED BY <3>1, <3>2, <3>3
  <2>4. CASE ChangeAudience(s)
    <3>0. op[s].pc = "audience" /\ UNCHANGED <<person, held, missed>>
      BY <2>4 DEF ChangeAudience, At, rest
    <3>1. CASE template.status = "live"
      <4>1. template' = [template EXCEPT !.to = op[s].to, !.season = op[s].season]
        BY <2>4, <3>1 DEF ChangeAudience
      <4>2. template'.to = op[s].to /\ template'.season = op[s].season
        BY <4>1 DEF TypeOK, Template
      <4>3. op[s].to = "all"
        BY <4>2 DEF LiveForAll
      <4>4. Goes(s, AssigningAll(op[s].season))
        BY <2>4, <3>1, <4>3 DEF ChangeAudience
      <4>5. Reaches(AssigningAll(op[s].season), i, template'.season)
        BY <4>2, <2>i, ReachesWhom DEF AssigningAll
      <4> QED BY <4>4, <4>5, <2>i, ReachedCovered
    <3>2. CASE template.status # "live"
      <4>1. Goes(s, Idle) /\ template' = template
        BY <2>4, <3>2 DEF ChangeAudience, Ends
      <4> QED BY <4>1, <3>2 DEF LiveForAll
    <3> QED BY <3>1, <3>2
  <2>5. CASE Retire(s)
    <3>1. template'.status = "retired"
      BY <2>5 DEF Retire, TypeOK, Template
    <3> QED BY <3>1 DEF LiveForAll
  <2>6. CASE List(s)
    <3>1. /\ op[s].pc = "list" /\ UNCHANGED <<template, person, held, missed>>
          /\ Goes(s, Assigning(ActiveApproved, op[s].season))
      BY <2>6 DEF List, At, rest
    <3>2. Was /\ Covered(i)
      BY <3>1, <2>i, <2>u, <2>w
    <3>3. i \in ActiveApproved
      BY <3>2 DEF Was
    <3>4. Reaches(op[s], i, template.season) =>
            Reaches(Assigning(ActiveApproved, op[s].season), i, template.season)
      BY <3>1, <3>3, <2>i, ReachesWhom DEF Assigning
    <3> QED BY <3>1, <3>2, <3>4, <2>i, StaysCovered
  <2>7. CASE FindOpen(s)
    <3> DEFINE rows == {j \in op[s].who : <<j, op[s].season>> \notin held}
               r == IF rows = {} THEN Idle
                    ELSE [pc |-> "insert", who |-> rows, season |-> op[s].season]
    <3>1. op[s].pc = "open" /\ UNCHANGED <<template, person, held, missed>>
          /\ Goes(s, r)
      BY <2>7 DEF FindOpen, Ends, At, rest
    <3>2. Was /\ Covered(i)
      BY <3>1, <2>i, <2>u, <2>w
    <3>3. ASSUME Reaches(op[s], i, template.season),
                 <<i, template.season>> \notin held
          PROVE  Reaches(r, i, template.season)
      <4>1. i \in rows /\ op[s].season = template.season
        BY <3>1, <3>3, <2>i, ReachesWhom
      <4>2. r = [pc |-> "insert", who |-> rows, season |-> op[s].season]
        BY <4>1
      <4> HIDE DEF rows, r
      <4>3. r.pc = "insert" /\ r.who = rows /\ r.season = op[s].season
        BY <4>2
      <4> QED BY <4>1, <4>3, <2>i, ReachesWhom
    <3> HIDE DEF r
    <3> QED BY <3>1, <3>2, <3>3, <2>i, StaysCovered
  <2>8. CASE InsertMany(s)
    <3>0. op[s].pc = "insert" /\ UNCHANGED <<template, person, missed>>
      BY <2>8 DEF InsertMany, At, rest
    <3>1. Was /\ Covered(i)
      BY <3>0, <2>i, <2>u, <2>w
    <3>2. Reaches(op[s], i, template.season) =>
            i \in op[s].who /\ op[s].season = template.season
      <4>1. op[s].pc \in {"open", "insert", "each"}
        BY <3>0
      <4> QED BY <4>1, <2>i, ReachesWhom
    <3>3. CASE (op[s].who \X {op[s].season}) \cap held = {}
      <4>1. held' = held \cup (op[s].who \X {op[s].season})
            /\ Goes(s, Mailing(op[s].who, op[s].season))
        BY <2>8, <3>3 DEF InsertMany, Adds
      <4> QED BY <4>1, <3>0, <3>1, <3>2, <2>i, StaysCovered
    <3>4. CASE (op[s].who \X {op[s].season}) \cap held # {}
      <4> DEFINE r == [pc |-> "each", who |-> op[s].who, made |-> {},
                       season |-> op[s].season]
      <4>1. Goes(s, r) /\ held' = held
        BY <2>8, <3>4 DEF InsertMany
      <4>2. r.pc = "each" /\ r.who = op[s].who /\ r.season = op[s].season
        OBVIOUS
      <4> HIDE DEF r
      <4>3. Reaches(op[s], i, template.season) => Reaches(r, i, template.season)
        BY <3>2, <4>2, <2>i, ReachesWhom
      <4> QED BY <4>1, <4>3, <3>0, <3>1, <2>i, StaysCovered
    <3> QED BY <3>3, <3>4
  <2>9. CASE InsertEach(s)
    <3>0. op[s].pc = "each" /\ UNCHANGED <<template, person, missed>>
      BY <2>9 DEF InsertEach, At, rest
    <3>1. Was /\ Covered(i)
      BY <3>0, <2>i, <2>u, <2>w
    <3>2. Reaches(op[s], i, template.season) =>
            i \in op[s].who /\ op[s].season = template.season
      <4>1. op[s].pc \in {"open", "insert", "each"}
        BY <3>0
      <4> QED BY <4>1, <2>i, ReachesWhom
    <3> DEFINE New(j) == {j} \ {k \in Instructors : <<k, op[s].season>> \in held}
               Grown(j) == op[s].made \cup New(j)
               r(j) == IF op[s].who = {j} THEN Mailing(Grown(j), op[s].season)
                       ELSE [op[s] EXCEPT !.who = op[s].who \ {j}, !.made = Grown(j)]
    <3>3. PICK j \in op[s].who :
            held' = held \cup (New(j) \X {op[s].season}) /\ Goes(s, r(j))
      BY <2>9 DEF InsertEach, Adds
    <3>4. CASE i = j
      <4>1. Reaches(op[s], i, template.season) => <<i, template.season>> \in held'
        BY <3>2, <3>3, <3>4
      <4> HIDE DEF r, New
      <4> QED BY <3>0, <3>1, <3>3, <4>1, <2>i, StaysCovered
    <3>5. CASE i # j
      <4>1. ASSUME Reaches(op[s], i, template.season)
            PROVE  Reaches(r(j), i, template.season)
        <5>1. op[s] \in [pc : {"each"}, who : SUBSET Instructors,
                         made : SUBSET Instructors, season : Seasons]
          BY <3>0 DEF TypeOK, Request
        <5>2. i \in op[s].who \ {j} /\ op[s].season = template.season
          BY <4>1, <3>2, <3>5
        <5>3. r(j) = [op[s] EXCEPT !.who = op[s].who \ {j}, !.made = Grown(j)]
          BY <5>2
        <5> HIDE DEF r, Grown
        <5>4. r(j).pc = "each" /\ r(j).who = op[s].who \ {j}
              /\ r(j).season = op[s].season
          BY <5>1, <5>3
        <5> QED BY <5>2, <5>4, <2>i, ReachesWhom
      <4> HIDE DEF r, New
      <4> QED BY <3>0, <3>1, <3>3, <4>1, <2>i, StaysCovered
    <3> QED BY <3>4, <3>5
  <2>10. CASE Mail(s)
    <3>1. op[s].pc = "mail" /\ UNCHANGED <<template, person, held, missed>>
          /\ Goes(s, Idle)
      BY <2>10 DEF Mail, Ends, At, rest
    <3> QED BY <3>1, <2>1, <2>i, <2>u, ReachesWhom
  <2>11. CASE Archive(s)
    <3>1. PICK p \in held : held' = held \ {p} /\ missed' = missed \cup {p[1]}
      BY <2>11 DEF Archive
    <3>2. UNCHANGED <<template, person, op>>
      BY <2>11 DEF Archive
    <3>3. Covered(i)
      BY <3>1, <3>2, <2>i, <2>u, <2>w
    <3>4. <<i, template.season>> # p
      BY <3>1, <2>i
    <3> QED BY <3>1, <3>2, <3>3, <3>4 DEF Covered
  <2>12. CASE SetApproval(s)
    <3>0. /\ op[s].pc = "approval" /\ UNCHANGED <<template, held, missed>>
          /\ person' = [person EXCEPT ![op[s].i].approval = op[s].to]
          /\ op[s].i \in Instructors
      BY <2>12, Fields DEF SetApproval, At, rest
    <3>1. CASE i = op[s].i
      <4>1. person'[i].approval = op[s].to
        BY <3>0, <3>1, <2>i DEF TypeOK, Person
      <4>a. op[s].to = "approved"
        BY <4>1, <2>i
      <4>2. Goes(s, Onboarding(op[s].i))
        BY <2>12, <4>a DEF SetApproval
      <4>3. Reaches(Onboarding(op[s].i), i, template'.season)
        BY <3>1, <2>i, ReachesWhom DEF Onboarding
      <4> QED BY <4>2, <4>3, <2>i, ReachedCovered
    <3>2. CASE i # op[s].i
      <4>1. person'[i] = person[i]
        BY <3>0, <3>2, <2>i DEF TypeOK
      <4>2. Was
        BY <3>0, <4>1, <2>i DEF Was, LiveForAll, ActiveApproved, Approved
      <4>3. PICK r : Goes(s, r)
        BY <2>12 DEF SetApproval, Ends
      <4> QED BY <3>0, <4>2, <4>3, <2>1, <2>i, ReachesWhom
    <3> QED BY <3>1, <3>2
  <2>13. CASE Activate(s)
    <3>1. PICK j \in Instructors :
            /\ person' = IF person[j] = [approval |-> "pending", active |-> TRUE]
                         THEN [person EXCEPT ![j].approval = "approved"]
                         ELSE person
            /\ Goes(s, Onboarding(j))
      BY <2>13 DEF Activate
    <3>2. op[s].pc = "idle" /\ UNCHANGED <<template, held, missed>>
      BY <2>13 DEF Activate, Starts, At
    <3>3. CASE i = j
      <4>1. Reaches(Onboarding(j), i, template'.season)
        BY <3>3, <2>i, ReachesWhom DEF Onboarding
      <4> QED BY <3>1, <4>1, <2>i, ReachedCovered
    <3>4. CASE i # j
      <4>1. person'[i] = person[i]
        BY <3>1, <3>4, <2>i DEF TypeOK
      <4>2. Was
        BY <3>2, <4>1, <2>i DEF Was, LiveForAll, ActiveApproved, Approved
      <4> QED BY <3>1, <3>2, <4>2, <2>1, <2>i, ReachesWhom
    <3> QED BY <3>3, <3>4
  <2>14. CASE SetActive(s)
    <3>0. /\ op[s].pc = "active" /\ UNCHANGED <<template, held>>
          /\ person' = [person EXCEPT ![op[s].i].active = op[s].on]
          /\ missed' = IF op[s].on /\ op[s].was /\ ~person[op[s].i].active
                       THEN missed \cup {op[s].i} ELSE missed
          /\ op[s].i \in Instructors
      BY <2>14, Fields DEF SetActive, At
    <3>1. i \notin missed
      BY <3>0, <2>i
    <3>2. person'[i].approval = person[i].approval
          /\ (person[i].active \/ i = op[s].i)
      BY <3>0, <2>i DEF TypeOK, Person
    <3>3. CASE person[i].active
      <4>1. Was
        BY <3>0, <3>1, <3>2, <3>3, <2>i
        DEF Was, LiveForAll, ActiveApproved, Approved
      <4>2. PICK r : Goes(s, r)
        BY <2>14 DEF SetActive, Ends
      <4> QED BY <3>0, <4>1, <4>2, <2>1, <2>i, ReachesWhom
    <3>4. CASE ~person[i].active
      <4>1. i = op[s].i /\ op[s].on
        BY <3>0, <3>2, <3>4, <2>i DEF TypeOK, Person
      <4>2. ~op[s].was
        BY <4>1, <3>0, <3>4, <2>i
      <4>3. Goes(s, Onboarding(op[s].i))
        BY <2>14, <4>1, <4>2, <3>2, <2>i DEF SetActive, Approved
      <4>4. Reaches(Onboarding(op[s].i), i, template'.season)
        BY <4>1, <2>i, ReachesWhom DEF Onboarding
      <4> QED BY <4>3, <4>4, <2>i, ReachedCovered
    <3> QED BY <3>3, <3>4
  <2>15. CASE LoadPerson(s)
    <3>1. op[s].pc = "person" /\ UNCHANGED <<template, person, held, missed>>
      BY <2>15 DEF LoadPerson, At, rest
    <3>2. Was /\ Covered(i)
      BY <3>1, <2>i, <2>u, <2>w
    <3>3. CASE op[s].i = i
      <4>1. Approved(op[s].i)
        BY <3>2, <3>3 DEF Was, ActiveApproved
      <4> DEFINE r == [pc |-> "templates", i |-> op[s].i]
      <4>2. Goes(s, r)
        BY <2>15, <4>1 DEF LoadPerson
      <4>3. r.pc = "templates" /\ r.i = i
        BY <3>3
      <4> HIDE DEF r
      <4>4. Reaches(r, i, template'.season)
        BY <4>3, <2>i, ReachesWhom
      <4> QED BY <4>2, <4>4, <2>i, ReachedCovered
    <3>4. CASE op[s].i # i
      <4>1. PICK r : Goes(s, r)
        BY <2>15 DEF LoadPerson, Ends
      <4> QED BY <3>1, <3>2, <3>4, <4>1, <2>1, <2>i, ReachesWhom
    <3> QED BY <3>3, <3>4
  <2>16. CASE LoadTemplates(s)
    <3>1. op[s].pc = "templates" /\ UNCHANGED <<template, person, held, missed>>
      BY <2>16 DEF LoadTemplates, At, rest
    <3>2. Was /\ Covered(i)
      BY <3>1, <2>i, <2>u, <2>w
    <3>3. Goes(s, Assigning({op[s].i}, template.season))
      BY <2>16, <3>2 DEF LoadTemplates, Was
    <3>4. Reaches(op[s], i, template.season) =>
            Reaches(Assigning({op[s].i}, template.season), i, template.season)
      BY <3>1, <2>i, ReachesWhom DEF Assigning
    <3> QED BY <3>1, <3>2, <3>3, <3>4, <2>i, StaysCovered
  <2>17. CASE Dies(s)
    <3>1. /\ UNCHANGED <<template, person, held>> /\ Goes(s, Idle)
          /\ missed' = missed \cup Ahead(op[s])
      BY <2>17 DEF Dies, Ends
    <3>2. ~Reaches(op[s], i, template.season)
      BY <3>1, <2>i DEF Reaches
    <3> QED BY <3>1, <3>2, <2>1, <2>i, <2>u
  <2> QED
    BY <2>2, <2>3, <2>4, <2>5, <2>6, <2>7, <2>8, <2>9, <2>10, <2>11, <2>12,
       <2>13, <2>14, <2>15, <2>16, <2>17
<1> QED BY <1>1, <1>2, TypeCorrect, PTL DEF Spec

-----------------------------------------------------------------------------
(* Announcements.                                                           *)

\* The request has made the assignment p and not announced it yet.
Owes(s, p) ==
  /\ op[s].pc \in {"each", "mail"}
  /\ p \in op[s].made \X {op[s].season}

Owing(p) == {s \in Sessions : Owes(s, p)}

\* An assignment that was made and not announced is owed by the request that made
\* it, unless that request died; and none is owed that was not made.
EmailsOwed ==
  \A p \in Pairs :
    /\ news[p] >= Cardinality(Owing(p))
    /\ faults = 0 => news[p] = Cardinality(Owing(p))

\* A request has not yet made what it is still to make.
MadeApart ==
  \A s \in Sessions : op[s].pc = "each" => op[s].made \cap op[s].who = {}

LEMMA OwingFinite ==
  ASSUME NEW M, M \subseteq Sessions
  PROVE  IsFiniteSet(M) /\ Cardinality(M) \in Nat
  BY SessionsAssumption, FS_Subset, FS_CardinalityType

\* What one step of one request does to the count.
LEMMA OwingStep ==
  ASSUME NEW p, NEW s \in Sessions,
         \A q \in Sessions \ {s} : Owes(q, p)' <=> Owes(q, p)
  PROVE  /\ Cardinality(Owing(p)) \in Nat /\ Cardinality(Owing(p)') \in Nat
         /\ (Owes(s, p)' <=> Owes(s, p)) => Cardinality(Owing(p)') = Cardinality(Owing(p))
         /\ Owes(s, p)' /\ ~Owes(s, p) => Cardinality(Owing(p)') = Cardinality(Owing(p)) + 1
         /\ ~Owes(s, p)' /\ Owes(s, p) => Cardinality(Owing(p)') = Cardinality(Owing(p)) - 1
<1>1. /\ IsFiniteSet(Owing(p)) /\ Cardinality(Owing(p)) \in Nat
      /\ IsFiniteSet(Owing(p)') /\ Cardinality(Owing(p)') \in Nat
  BY OwingFinite DEF Owing
<1>2. CASE Owes(s, p)' <=> Owes(s, p)
  <2>1. Owing(p)' = Owing(p)
    BY <1>2 DEF Owing
  <2> QED BY <1>1, <1>2, <2>1
<1>3. CASE Owes(s, p)' /\ ~Owes(s, p)
  <2>1. Owing(p)' = Owing(p) \cup {s} /\ s \notin Owing(p)
    BY <1>3 DEF Owing
  <2> QED BY <1>1, <1>3, <2>1, FS_AddElement
<1>4. CASE ~Owes(s, p)' /\ Owes(s, p)
  <2>1. Owing(p)' = Owing(p) \ {s} /\ s \in Owing(p)
    BY <1>4 DEF Owing
  <2> QED BY <1>1, <1>4, <2>1, FS_RemoveElement
<1> QED BY <1>2, <1>3, <1>4

\* A step by which a request comes to carry r.
LEMMA Carries ==
  ASSUME TypeOK, NEW s \in Sessions, NEW r, Goes(s, r)
  PROVE  /\ op'[s] = r /\ \A q \in Sessions \ {s} : op'[q] = op[q]
         /\ \A p : \A q \in Sessions \ {s} : Owes(q, p)' <=> Owes(q, p)
         /\ \A p : Owes(s, p)' <=> r.pc \in {"each", "mail"} /\ p \in r.made \X {r.season}
  BY DEF Goes, TypeOK, Owes

Steps(s) ==
  \/ RequestPublish(s) \/ Publish(s)
  \/ RequestAudience(s) \/ ChangeAudience(s) \/ Retire(s)
  \/ RequestCreate(s) \/ List(s) \/ FindOpen(s)
  \/ InsertMany(s) \/ InsertEach(s) \/ Mail(s) \/ Archive(s)
  \/ RequestApproval(s) \/ SetApproval(s) \/ Activate(s)
  \/ RequestActive(s) \/ SetActive(s)
  \/ LoadPerson(s) \/ LoadTemplates(s)
  \/ Dies(s)

\* The steps that neither make an assignment nor announce one.
LEMMA SilentSteps ==
  ASSUME TypeOK, NEW s \in Sessions,
         \/ RequestPublish(s) \/ Publish(s)
         \/ RequestAudience(s) \/ ChangeAudience(s)
         \/ RequestCreate(s) \/ List(s) \/ FindOpen(s)
         \/ RequestApproval(s) \/ SetApproval(s) \/ Activate(s)
         \/ RequestActive(s) \/ SetActive(s)
         \/ LoadPerson(s) \/ LoadTemplates(s)
  PROVE  /\ op[s].pc \notin {"each", "mail"} /\ UNCHANGED <<news, faults>>
         /\ \E r : Goes(s, r) /\ r.pc \notin {"each", "mail"}
<1>1. CASE RequestPublish(s)
  <2>1. op[s].pc = "idle" /\ UNCHANGED <<news, faults>>
    BY <1>1 DEF RequestPublish, Starts, At
  <2>2. PICK term \in Seasons, who \in SUBSET Instructors, to \in {"all", "selected"} :
          Goes(s, [pc |-> "publish", to |-> to, who |-> who, season |-> term])
    BY <1>1 DEF RequestPublish
  <2> QED BY <2>1, <2>2
<1>2. CASE Publish(s)
  BY <1>2 DEF Publish, At, Ends, Idle, AssigningAll, Assigning, rest
<1>3. CASE RequestAudience(s)
  BY <1>3 DEF RequestAudience, Starts, At
<1>4. CASE ChangeAudience(s)
  BY <1>4 DEF ChangeAudience, At, Ends, Idle, AssigningAll, rest
<1>5. CASE RequestCreate(s)
  <2>1. op[s].pc = "idle" /\ UNCHANGED <<news, faults>>
    BY <1>5 DEF RequestCreate, Starts, At
  <2>2. PICK term \in Seasons :
          \/ Goes(s, AssigningAll(term))
          \/ \E who \in SUBSET Instructors : Goes(s, Assigning(who, term))
    BY <1>5 DEF RequestCreate
  <2>3. /\ AssigningAll(term).pc = "list"
        /\ \A who : Assigning(who, term).pc = "open"
    BY DEF AssigningAll, Assigning
  <2>4. PICK r : Goes(s, r) /\ r.pc \in {"list", "open"}
    BY <2>2, <2>3
  <2> QED BY <2>1, <2>4
<1>6. CASE List(s)
  BY <1>6 DEF List, At, Assigning, rest
<1>7. CASE FindOpen(s)
  BY <1>7 DEF FindOpen, At, Ends, Idle, rest
<1>8. CASE RequestApproval(s)
  BY <1>8 DEF RequestApproval, Starts, At
<1>9. CASE SetApproval(s)
  BY <1>9 DEF SetApproval, At, Ends, Idle, Onboarding, rest
<1>10. CASE Activate(s)
  BY <1>10 DEF Activate, Starts, At, Onboarding
<1>11. CASE RequestActive(s)
  BY <1>11 DEF RequestActive, Starts, At
<1>12. CASE SetActive(s)
  BY <1>12 DEF SetActive, At, Ends, Idle, Onboarding
<1>13. CASE LoadPerson(s)
  BY <1>13 DEF LoadPerson, At, Ends, Idle, rest
<1>14. CASE LoadTemplates(s)
  BY <1>14 DEF LoadTemplates, At, Ends, Idle, Assigning, rest
<1> QED BY <1>1, <1>2, <1>3, <1>4, <1>5, <1>6, <1>7, <1>8, <1>9, <1>10, <1>11, <1>12,
           <1>13, <1>14

LEMMA OwedStays ==
  ASSUME TypeOK, MadeApart, EmailsOwed, NEW s \in Sessions, Steps(s)
  PROVE  MadeApart' /\ EmailsOwed'
<1> DEFINE Split(r) == r.pc = "each" => r.made \cap r.who = {}
<1>a. ASSUME NEW r, Goes(s, r), Split(r) PROVE MadeApart'
  BY <1>a, Carries DEF MadeApart
<1>t. news \in [Pairs -> Int] /\ faults \in Nat
  BY BoundsAssumption DEF TypeOK
\* The count moves as the emails that are due do.
<1>c. ASSUME NEW r, Goes(s, r), faults' = faults,
             \A p \in Pairs : news'[p] = news[p]
               + (IF Owes(s, p)' /\ ~Owes(s, p) THEN 1 ELSE 0)
               - (IF ~Owes(s, p)' /\ Owes(s, p) THEN 1 ELSE 0)
      PROVE  EmailsOwed'
  <2> SUFFICES ASSUME NEW p \in Pairs
               PROVE  /\ news'[p] >= Cardinality(Owing(p)')
                      /\ faults = 0 => news'[p] = Cardinality(Owing(p)')
    BY <1>c DEF EmailsOwed
  <2>1. \A q \in Sessions \ {s} : Owes(q, p)' <=> Owes(q, p)
    BY <1>c, Carries
  <2>2. news[p] >= Cardinality(Owing(p)) /\ (faults = 0 => news[p] = Cardinality(Owing(p)))
    BY DEF EmailsOwed
  <2>3. news[p] \in Int
    BY <1>t
  <2> QED BY <1>c, <2>1, <2>2, <2>3, OwingStep
<1>1. CASE \/ RequestPublish(s) \/ Publish(s)
           \/ RequestAudience(s) \/ ChangeAudience(s)
           \/ RequestCreate(s) \/ List(s) \/ FindOpen(s)
           \/ RequestApproval(s) \/ SetApproval(s) \/ Activate(s)
           \/ RequestActive(s) \/ SetActive(s)
           \/ LoadPerson(s) \/ LoadTemplates(s)
  <2>1. PICK r : Goes(s, r) /\ r.pc \notin {"each", "mail"}
    BY <1>1, SilentSteps
  <2>2. \A p \in Pairs : ~Owes(s, p) /\ ~Owes(s, p)'
    BY <1>1, <2>1, SilentSteps, Carries DEF Owes
  <2>3. UNCHANGED <<news, faults>>
    BY <1>1, SilentSteps
  <2> QED BY <1>a, <1>c, <1>t, <2>1, <2>2, <2>3
<1>2. CASE Retire(s) \/ Archive(s)
  <2>1. UNCHANGED <<op, news, faults>>
    BY <1>2 DEF Retire, Archive
  <2>2. \A p : Owing(p)' = Owing(p)
    BY <2>1 DEF Owing, Owes
  <2> QED BY <2>1, <2>2 DEF MadeApart, EmailsOwed
<1>3. CASE InsertMany(s)
  <2>1. At(s, "insert") /\ faults' = faults /\ \A p : ~Owes(s, p)
    BY <1>3 DEF InsertMany, At, rest, Owes
  <2>2. CASE /\ Adds(op[s].who, op[s].season)
             /\ Goes(s, Mailing(op[s].who, op[s].season))
    <3> DEFINE r == Mailing(op[s].who, op[s].season)
    <3>1. /\ r.pc # "each"
          /\ \A p : r.pc = "mail" /\ p \in r.made \X {r.season}
                    <=> p \in op[s].who \X {op[s].season}
      BY DEF Mailing, Idle
    <3>2. \A p : Owes(s, p)' <=> p \in op[s].who \X {op[s].season}
      BY <2>2, <3>1, Carries
    <3>3. \A p \in Pairs : news'[p] =
            news[p] + (IF p \in op[s].who \X {op[s].season} THEN 1 ELSE 0)
      BY <2>2 DEF Adds
    <3>4. \A p \in Pairs : news'[p] = news[p]
               + (IF Owes(s, p)' /\ ~Owes(s, p) THEN 1 ELSE 0)
               - (IF ~Owes(s, p)' /\ Owes(s, p) THEN 1 ELSE 0)
      BY <2>1, <3>2, <3>3, <1>t
    <3> QED BY <2>1, <2>2, <3>1, <3>4, <1>a, <1>c
  <2>3. CASE /\ Goes(s, [pc |-> "each", who |-> op[s].who, made |-> {},
                         season |-> op[s].season])
             /\ UNCHANGED <<held, news>>
    <3>1. \A p : ~Owes(s, p)'
      BY <2>3, Carries
    <3>2. Split([pc |-> "each", who |-> op[s].who, made |-> {}, season |-> op[s].season])
      OBVIOUS
    <3> QED BY <2>1, <2>3, <3>1, <3>2, <1>a, <1>c, <1>t
  <2> QED BY <1>3, <2>2, <2>3 DEF InsertMany
<1>4. CASE InsertEach(s)
  <2> DEFINE o == op[s]
             New(i) == {i} \ {j \in Instructors : <<j, o.season>> \in held}
  <2>1. PICK i \in o.who :
          /\ Adds(New(i), o.season)
          /\ Goes(s, IF o.who = {i} THEN Mailing(o.made \cup New(i), o.season)
                     ELSE [o EXCEPT !.who = @ \ {i}, !.made = o.made \cup New(i)])
    BY <1>4 DEF InsertEach
  <2>2. o \in [pc : {"each"}, who : SUBSET Instructors, made : SUBSET Instructors,
               season : Seasons]
    BY <1>4 DEF InsertEach, At, TypeOK, Request
  <2>3. o.made \cap o.who = {} /\ i \notin o.made /\ faults' = faults
    BY <1>4, <2>2 DEF MadeApart, InsertEach, rest
  <2> DEFINE made == o.made \cup New(i)
             r == IF o.who = {i} THEN Mailing(made, o.season)
                  ELSE [o EXCEPT !.who = @ \ {i}, !.made = made]
  <2>4. /\ Split(r)
        /\ \A p : r.pc \in {"each", "mail"} /\ p \in r.made \X {r.season}
                  <=> p \in made \X {o.season}
    <3>1. CASE o.who = {i}
      <4>1. r = Mailing(made, o.season)
        BY <3>1
      <4> HIDE DEF made, r
      <4> QED BY <4>1 DEF Mailing, Idle
    <3>2. CASE o.who # {i}
      <4>1. r = [pc |-> "each", who |-> o.who \ {i}, made |-> made, season |-> o.season]
        BY <2>2, <3>2
      <4>2. made \cap (o.who \ {i}) = {}
        BY <2>3
      <4> HIDE DEF made, r
      <4> QED BY <4>1, <4>2
    <3> QED BY <3>1, <3>2
  <2>5. Goes(s, r)
    BY <2>1
  <2>6. \A p : Owes(s, p) <=> p \in o.made \X {o.season}
    BY <2>2 DEF Owes
  <2> HIDE DEF r
  <2>7. \A p : Owes(s, p)' <=> p \in made \X {o.season}
    BY <2>4, <2>5, Carries
  <2>8. \A p \in Pairs : news'[p] = news[p] + (IF p \in New(i) \X {o.season} THEN 1 ELSE 0)
    BY <2>1 DEF Adds
  <2>9. \A p : p \in New(i) \X {o.season} => p \notin o.made \X {o.season}
    BY <2>3
  <2>10. \A p \in Pairs : news'[p] = news[p]
               + (IF Owes(s, p)' /\ ~Owes(s, p) THEN 1 ELSE 0)
               - (IF ~Owes(s, p)' /\ Owes(s, p) THEN 1 ELSE 0)
    <3> HIDE DEF New
    <3> QED BY <2>6, <2>7, <2>8, <2>9, <1>t
  <2> QED BY <2>3, <2>4, <2>5, <2>10, <1>a, <1>c
<1>5. CASE Mail(s)
  <2>1. /\ At(s, "mail") /\ Goes(s, Idle) /\ faults' = faults
        /\ \A p \in Pairs : news'[p] =
             news[p] - (IF p \in op[s].made \X {op[s].season} THEN 1 ELSE 0)
    BY <1>5 DEF Mail, Ends, rest
  <2>2. \A p : (Owes(s, p) <=> p \in op[s].made \X {op[s].season}) /\ ~Owes(s, p)'
    BY <2>1, Carries DEF Owes, At, Idle
  <2>3. \A p \in Pairs : news'[p] = news[p]
               + (IF Owes(s, p)' /\ ~Owes(s, p) THEN 1 ELSE 0)
               - (IF ~Owes(s, p)' /\ Owes(s, p) THEN 1 ELSE 0)
    BY <2>1, <2>2, <1>t
  <2>4. Split(Idle)
    BY DEF Idle
  <2> QED BY <2>1, <2>3, <2>4, <1>a, <1>c
<1>6. CASE Dies(s)
  <2>1. Goes(s, Idle) /\ news' = news /\ faults' = faults + 1
    BY <1>6 DEF Dies, Ends
  <2>2. Split(Idle) /\ \A p : ~Owes(s, p)'
    BY <2>1, Carries DEF Idle
  <2>3. ASSUME NEW p \in Pairs PROVE news'[p] >= Cardinality(Owing(p)')
    <3>1. \A q \in Sessions \ {s} : Owes(q, p)' <=> Owes(q, p)
      BY <2>1, Carries
    <3>2. news[p] >= Cardinality(Owing(p)) /\ news[p] \in Int
      BY <1>t DEF EmailsOwed
    <3> QED BY <2>1, <2>2, <3>1, <3>2, OwingStep
  <2>4. faults' # 0
    BY <2>1, <1>t
  <2>5. EmailsOwed'
    BY <2>3, <2>4 DEF EmailsOwed
  <2> QED BY <2>1, <2>2, <2>5, <1>a
<1> QED BY <1>1, <1>2, <1>3, <1>4, <1>5, <1>6 DEF Steps

\* An assignment is announced by the request that made it, once, however many make
\* the same ones at the same time (insertMany, insertIfAbsent, notifyAssigned); and
\* when all requests have ended without a fault none is left unannounced.
THEOREM Announced == Spec => []AnnouncedOnce
<1>1. Init => MadeApart /\ EmailsOwed
  <2> SUFFICES ASSUME Init PROVE MadeApart /\ EmailsOwed
    OBVIOUS
  <2>1. \A p : Owing(p) = {}
    BY DEF Init, Owing, Owes, Idle
  <2>2. MadeApart
    BY DEF Init, MadeApart, Idle
  <2> QED BY <2>1, <2>2, FS_EmptySet DEF Init, EmailsOwed
<1>2. TypeOK /\ MadeApart /\ EmailsOwed /\ [Next]_vars => MadeApart' /\ EmailsOwed'
  <2> SUFFICES ASSUME TypeOK, MadeApart, EmailsOwed, [Next]_vars
               PROVE  MadeApart' /\ EmailsOwed'
    OBVIOUS
  <2>1. CASE UNCHANGED vars
    <3>1. \A p : Owing(p)' = Owing(p)
      BY <2>1 DEF vars, Owing, Owes
    <3> QED BY <2>1, <3>1 DEF vars, MadeApart, EmailsOwed
  <2>2. CASE \E s \in Sessions : Steps(s)
    BY <2>2, OwedStays
  <2> QED BY <2>1, <2>2 DEF Next, Steps
<1>3. TypeOK /\ EmailsOwed => AnnouncedOnce
  <2> SUFFICES ASSUME TypeOK, EmailsOwed PROVE AnnouncedOnce
    OBVIOUS
  <2>1. \A p \in Pairs : news[p] \in Int /\ Cardinality(Owing(p)) \in Nat
    BY OwingFinite DEF TypeOK, Owing
  <2>2. (\A s \in Sessions : At(s, "idle")) => \A p : Owing(p) = {}
    BY DEF At, Owing, Owes
  <2> QED BY <2>1, <2>2, FS_EmptySet DEF AnnouncedOnce, EmailsOwed
<1> QED BY <1>1, <1>2, <1>3, TypeCorrect, PTL DEF Spec

------------------------------------------------------------------------------
(* AdminSessions, for any sessions, processes, changes and faults: after a demotion      *)
(* nobody is let in as an administrator for longer than the time a session is remembered. *)
(* A check may begin before the demotion and be remembered after it; so the invariant     *)
(* dates what is under way and what is remembered by when the request arrived.            *)

(* A process remembers a live session for some time (SESSION_LIVENESS_TTL_MS). *)
SessionBounds == TTL \in Nat /\ TTL >= 1

Check == [pc: {"idle", "ask", "active"}, process: Processes \cup {"none"}, since: Nat,
          claim: Roles \cup {"none"}]

RolesTyped ==
  /\ now \in Nat /\ outSince \in Nat /\ admitted \in Nat
  /\ session \in [UserSessions -> {"new", "gone"} \cup Roles]
  /\ activeUntil \in [Processes -> [UserSessions -> Nat]]
  /\ check \in [UserSessions -> Check]
  /\ \A s \in UserSessions : check[s].pc # "idle" => check[s].process \in Processes

(* What was let in, asked or remembered is of the past. *)
OfThePast ==
  /\ outSince <= now /\ admitted <= now
  /\ \A s \in UserSessions : check[s].since <= now
  /\ \A p \in Processes, s \in UserSessions : activeUntil[p][s] <= now + TTL

(* Once the sessions are deleted, no session has the role in its token. *)
NoTokenLeft ==
  outSince # 0 => role # "admin" /\ \A s \in UserSessions : session[s] # "admin"

(* A request that still counts as an administrator's, or whose session is gone, is from  *)
(* before the deletion: or it will not get through.                                       *)
RequestsOlder ==
  outSince # 0 => \A s \in UserSessions :
    /\ check[s].pc = "active" /\ (check[s].claim = "admin" \/ session[s] = "gone")
         => check[s].since <= outSince
    /\ check[s].pc = "ask" /\ check[s].claim = "admin"
         => check[s].since <= outSince \/ session[s] = "gone"

(* Whatever is remembered of a session that is gone is from before the deletion. *)
MemoryOlder ==
  outSince # 0 => \A s \in UserSessions, p \in Processes :
    session[s] = "gone" => activeUntil[p][s] <= outSince + TTL

RolesInductive ==
  RolesTyped /\ OfThePast /\ NoTokenLeft /\ RequestsOlder /\ MemoryOlder /\ DemotedIsOut

------------------------------------------------------------------------------

LEMMA InitRoles ==
  ASSUME SessionBounds, RolesInit
  PROVE  RolesInductive
<1>1. /\ now = 1 /\ outSince = 0 /\ admitted = 0
      /\ \A s \in UserSessions : session[s] = "new" /\ check[s] = NoCheck
      /\ \A p \in Processes, s \in UserSessions : activeUntil[p][s] = 0
  BY DEF RolesInit
<1>2. NoCheck \in Check /\ NoCheck.pc = "idle" /\ NoCheck.since = 0
  BY DEF NoCheck, Check
<1>3. RolesTyped
  BY <1>1, <1>2 DEF RolesInit, RolesTyped
<1> QED BY <1>1, <1>2, <1>3
        DEF RolesInductive, OfThePast, NoTokenLeft, RequestsOlder, MemoryOlder, DemotedIsOut,
            SessionBounds

(* The cache after an answer is what it was, less what was dropped, and the answer. *)
LEMMA RememberedIs ==
  ASSUME NEW cache \in [UserSessions -> Nat], NEW s \in UserSessions, NEW since \in Nat,
         NEW until \in Nat
  PROVE  /\ Remembered(cache, s, since, until) \in [UserSessions -> Nat]
         /\ Remembered(cache, s, since, until)[s] = until
         /\ \A t \in UserSessions \ {s} :
              Remembered(cache, s, since, until)[t] \in {0, cache[t]}
<1> DEFINE full(c) == Cardinality({t \in UserSessions : c[t] # 0}) >= MaxCached
           fresh == [t \in UserSessions |-> IF cache[t] <= since THEN 0 ELSE cache[t]]
           none == [t \in UserSessions |-> 0]
           room == IF ~full(cache) THEN cache ELSE IF ~full(fresh) THEN fresh ELSE none
<1>1. room \in {cache, fresh, none}
  OBVIOUS
<1>2. room \in [UserSessions -> Nat] /\ \A t \in UserSessions : room[t] \in {0, cache[t]}
  <2> HIDE DEF room
  <2>1. /\ fresh \in [UserSessions -> Nat] /\ \A t \in UserSessions : fresh[t] \in {0, cache[t]}
    OBVIOUS
  <2>2. none \in [UserSessions -> Nat] /\ \A t \in UserSessions : none[t] = 0
    OBVIOUS
  <2> QED BY <1>1, <2>1, <2>2
<1>3. Remembered(cache, s, since, until) = [room EXCEPT ![s] = until]
  BY DEF Remembered
<1> HIDE DEF room
<1> QED BY <1>2, <1>3

LEMMA TickMoves ==
  ASSUME SessionBounds, RolesInductive, Tick
  PROVE  RolesInductive'
<1>1. /\ now \in Nat /\ now' = now + 1
      /\ UNCHANGED <<role, session, activeUntil, check, admitted, change, outSince, changes>>
  BY DEF Tick, caches, desk, RolesInductive, RolesTyped
<1>2. RolesTyped'
  BY <1>1 DEF RolesInductive, RolesTyped
<1>3. OfThePast'
  <2>1. \A s \in UserSessions : check[s].since \in Nat
    BY DEF RolesInductive, RolesTyped, Check
  <2>2. \A p \in Processes, s \in UserSessions : activeUntil[p][s] \in Nat
    BY DEF RolesInductive, RolesTyped
  <2> QED BY <1>1, <2>1, <2>2
          DEF RolesInductive, RolesTyped, OfThePast, SessionBounds
<1> QED BY <1>1, <1>2, <1>3
        DEF RolesInductive, NoTokenLeft, RequestsOlder, MemoryOlder, DemotedIsOut

(* A token is issued with the role of the moment, to a session that is not gone. *)
LEMMA SignInMoves ==
  ASSUME SessionBounds, RolesInductive, NEW s \in UserSessions, SignIn(s)
  PROVE  RolesInductive'
<1> DEFINE token == IF role = "admin" THEN "admin" ELSE "instructor"
<1>1. /\ session[s] # "gone" /\ session' = [session EXCEPT ![s] = token] /\ token \in Roles
      /\ UNCHANGED <<role, activeUntil, check, admitted, outSince, now>>
  BY DEF SignIn, caches, desk, Roles
<1>2. /\ session'[s] = token /\ \A t \in UserSessions \ {s} : session'[t] = session[t]
      /\ token # "gone" /\ (role # "admin" => token # "admin")
  BY <1>1 DEF RolesInductive, RolesTyped, Roles
<1> HIDE DEF token
<1>3. RolesTyped' /\ OfThePast'
  BY <1>1 DEF RolesInductive, RolesTyped, OfThePast
<1>4. NoTokenLeft' /\ DemotedIsOut'
  BY <1>1, <1>2 DEF RolesInductive, NoTokenLeft, DemotedIsOut
<1>5. \A t \in UserSessions : session'[t] = "gone" <=> session[t] = "gone"
  BY <1>1, <1>2
<1>6. RequestsOlder' /\ MemoryOlder'
  BY <1>1, <1>5 DEF RolesInductive, RequestsOlder, MemoryOlder
<1> QED BY <1>3, <1>4, <1>6 DEF RolesInductive

LEMMA ArriveMoves ==
  ASSUME SessionBounds, RolesInductive, NEW s \in UserSessions, NEW p \in Processes, Arrive(s, p)
  PROVE  RolesInductive'
<1>1. PICK claim \in Roles :
        /\ Live(s) => claim = session[s]
        /\ session[s] = "gone" => claim = "admin"
        /\ IF activeUntil[p][s] > now
           THEN AdmittedNow(claim, now) /\ UNCHANGED <<activeUntil, check>>
           ELSE /\ activeUntil' = [activeUntil EXCEPT ![p][s] = 0]
                /\ check' = [check EXCEPT ![s] = [pc |-> "ask", process |-> p, since |-> now,
                                                 claim |-> claim]]
                /\ UNCHANGED admitted
  BY DEF Arrive
<1>2. /\ session[s] # "new" /\ UNCHANGED <<role, session, outSince, now>>
      /\ now \in Nat /\ outSince \in Nat /\ admitted \in Nat
  BY DEF Arrive, desk, RolesInductive, RolesTyped
<1>3. CASE activeUntil[p][s] > now
  <2>1. /\ admitted' = IF claim = "admin" THEN now ELSE admitted
        /\ UNCHANGED <<activeUntil, check>>
    BY <1>1, <1>3 DEF AdmittedNow
  <2>2. RolesTyped' /\ OfThePast' /\ NoTokenLeft' /\ RequestsOlder' /\ MemoryOlder'
    BY <1>2, <2>1
       DEF RolesInductive, RolesTyped, OfThePast, NoTokenLeft, RequestsOlder, MemoryOlder
  <2>3. DemotedIsOut'
    <3> SUFFICES ASSUME outSince # 0, claim = "admin" PROVE now < outSince + TTL
      BY <1>2, <2>1 DEF RolesInductive, DemotedIsOut
    <3>1. session[s] = "gone"
      BY <1>1, <1>2 DEF Live, RolesInductive, NoTokenLeft
    <3>2. activeUntil[p][s] <= outSince + TTL /\ activeUntil[p][s] \in Nat
      BY <3>1 DEF RolesInductive, RolesTyped, MemoryOlder
    <3> QED BY <1>2, <1>3, <3>2 DEF SessionBounds
  <2> QED BY <2>2, <2>3 DEF RolesInductive
<1>4. CASE ~(activeUntil[p][s] > now)
  <2> DEFINE new == [pc |-> "ask", process |-> p, since |-> now, claim |-> claim]
  <2>1. /\ activeUntil' = [activeUntil EXCEPT ![p][s] = 0] /\ check' = [check EXCEPT ![s] = new]
        /\ UNCHANGED admitted
    BY <1>1, <1>4
  <2>2. new \in Check /\ new.pc = "ask" /\ new.process = p /\ new.since = now /\ new.claim = claim
    BY <1>2 DEF Check
  <2> HIDE DEF new
  <2>3. /\ check' \in [UserSessions -> Check] /\ check'[s] = new
        /\ \A t \in UserSessions \ {s} : check'[t] = check[t]
    BY <2>1, <2>2 DEF RolesInductive, RolesTyped
  <2>4. /\ activeUntil' \in [Processes -> [UserSessions -> Nat]]
        /\ \A q \in Processes, t \in UserSessions : activeUntil'[q][t] \in {0, activeUntil[q][t]}
    BY <2>1 DEF RolesInductive, RolesTyped
  <2>5. RolesTyped'
    BY <1>2, <2>1, <2>2, <2>3, <2>4 DEF RolesInductive, RolesTyped
  <2>6. OfThePast'
    BY <1>2, <2>1, <2>2, <2>3, <2>4 DEF RolesInductive, RolesTyped, OfThePast, SessionBounds
  <2>7. NoTokenLeft' /\ DemotedIsOut'
    BY <1>2, <2>1 DEF RolesInductive, NoTokenLeft, DemotedIsOut
  <2>8. RequestsOlder'
    <3>1. outSince # 0 /\ claim = "admin" => session[s] = "gone"
      BY <1>1, <1>2 DEF Live, RolesInductive, NoTokenLeft
    <3> QED BY <1>2, <2>2, <2>3, <3>1 DEF RolesInductive, RequestsOlder
  <2>9. MemoryOlder'
    BY <1>2, <2>4 DEF RolesInductive, RolesTyped, MemoryOlder, SessionBounds
  <2> QED BY <2>5, <2>6, <2>7, <2>8, <2>9 DEF RolesInductive
<1> QED BY <1>3, <1>4

(* A request that gives up, or goes on because its session is live. *)
LEMMA AskMoves ==
  ASSUME SessionBounds, RolesInductive, NEW s \in UserSessions, Ask(s)
  PROVE  RolesInductive'
<1>1. /\ check[s].pc = "ask"
      /\ UNCHANGED <<role, session, activeUntil, admitted, outSince, now>>
  BY DEF Ask, desk
<1>2. check[s] \in Check
  BY DEF RolesInductive, RolesTyped
<1>3. PICK new \in Check :
        /\ check' = [check EXCEPT ![s] = new]
        /\ \/ new.pc = "idle" /\ new.since = 0
           \/ /\ Live(s) /\ new.pc = "active"
              /\ new.process = check[s].process /\ new.since = check[s].since
              /\ new.claim = check[s].claim
  <2>1. NoCheck \in Check /\ NoCheck.pc = "idle" /\ NoCheck.since = 0
    BY DEF NoCheck, Check
  <2>2. CASE check' = [check EXCEPT ![s] = NoCheck]
    BY <2>1, <2>2
  <2>3. CASE Live(s) /\ check' = [check EXCEPT ![s] = [@ EXCEPT !.pc = "active"]]
    <3> DEFINE new == [check[s] EXCEPT !.pc = "active"]
    <3>1. /\ new \in Check /\ new.pc = "active" /\ new.process = check[s].process
          /\ new.since = check[s].since /\ new.claim = check[s].claim
      BY <1>2 DEF Check
    <3>2. check' = [check EXCEPT ![s] = new]
      BY <2>3
    <3> HIDE DEF new
    <3> QED BY <2>3, <3>1, <3>2
  <2> QED BY <2>2, <2>3 DEF Ask
<1>4. /\ check' \in [UserSessions -> Check] /\ check'[s] = new
      /\ \A t \in UserSessions \ {s} : check'[t] = check[t]
  BY <1>3 DEF RolesInductive, RolesTyped
<1>5. RolesTyped'
  BY <1>1, <1>3, <1>4 DEF RolesInductive, RolesTyped
<1>6. OfThePast' /\ NoTokenLeft' /\ MemoryOlder' /\ DemotedIsOut'
  BY <1>1, <1>3, <1>4
     DEF RolesInductive, RolesTyped, OfThePast, NoTokenLeft, MemoryOlder, DemotedIsOut
<1>7. RequestsOlder'
  <2>1. Live(s) => session[s] # "gone"
    BY DEF Live
  <2> QED BY <1>1, <1>3, <1>4, <2>1 DEF RolesInductive, RequestsOlder
<1> QED BY <1>5, <1>6, <1>7 DEF RolesInductive

(* What is remembered of a session dates from before its request was checked. *)
LEMMA AdmitMoves ==
  ASSUME SessionBounds, RolesInductive, NEW s \in UserSessions, Admit(s)
  PROVE  RolesInductive'
<1> DEFINE c == check[s]
           until == c.since + TTL
           kept == Remembered(activeUntil[c.process], s, c.since, until)
<1>1. /\ c.pc = "active" /\ activeUntil' = [activeUntil EXCEPT ![c.process] = kept]
      /\ admitted' = IF c.claim = "admin" THEN c.since ELSE admitted
      /\ check' = [check EXCEPT ![s] = NoCheck]
      /\ UNCHANGED <<role, session, outSince, now>>
  BY DEF Admit, AdmittedNow, Until, UntilFromArrival, desk
<1>2. /\ c.process \in Processes /\ c.since \in Nat /\ c.since <= now
      /\ now \in Nat /\ outSince \in Nat /\ admitted \in Nat /\ until \in Nat
  BY <1>1 DEF RolesInductive, RolesTyped, OfThePast, Check, SessionBounds
<1>3. /\ kept \in [UserSessions -> Nat] /\ kept[s] = until
      /\ \A t \in UserSessions \ {s} : kept[t] \in {0, activeUntil[c.process][t]}
  <2> DEFINE cache == activeUntil[c.process]
             since == c.since
  <2>1. cache \in [UserSessions -> Nat] /\ since \in Nat /\ until \in Nat
    BY <1>2 DEF RolesInductive, RolesTyped
  <2>2. kept = Remembered(cache, s, since, until)
    OBVIOUS
  <2> HIDE DEF cache, since, until, kept
  <2>3. /\ kept \in [UserSessions -> Nat] /\ kept[s] = until
        /\ \A t \in UserSessions \ {s} : kept[t] \in {0, cache[t]}
    BY <2>1, <2>2, RememberedIs
  <2> QED BY <2>3 DEF cache
<1> HIDE DEF kept
<1>4. /\ activeUntil' \in [Processes -> [UserSessions -> Nat]]
      /\ \A q \in Processes, t \in UserSessions :
           \/ activeUntil'[q][t] \in {0, activeUntil[q][t]}
           \/ t = s /\ activeUntil'[q][t] = until
  <2>1. activeUntil \in [Processes -> [UserSessions -> Nat]]
    BY DEF RolesInductive, RolesTyped
  <2>2. \A q \in Processes \ {c.process} : activeUntil'[q] = activeUntil[q]
    BY <1>1, <2>1
  <2>3. activeUntil'[c.process] = kept
    BY <1>1, <1>2, <2>1
  <2> HIDE DEF until, c
  <2> QED BY <1>1, <1>2, <1>3, <2>1, <2>2, <2>3
<1>5. NoCheck \in Check /\ NoCheck.pc = "idle" /\ NoCheck.since = 0
  BY DEF NoCheck, Check
<1>6. /\ check' \in [UserSessions -> Check] /\ check'[s] = NoCheck
      /\ \A t \in UserSessions \ {s} : check'[t] = check[t]
  BY <1>1, <1>5 DEF RolesInductive, RolesTyped
<1>7. admitted' \in Nat /\ admitted' <= now
  BY <1>1, <1>2 DEF RolesInductive, OfThePast
<1>8. RolesTyped'
  BY <1>1, <1>2, <1>4, <1>5, <1>6, <1>7 DEF RolesInductive, RolesTyped
<1>9. OfThePast'
  <2>1. until <= now + TTL
    BY <1>2 DEF SessionBounds
  <2>2. \A q \in Processes, t \in UserSessions : activeUntil'[q][t] <= now + TTL
    BY <1>2, <1>4, <2>1 DEF RolesInductive, RolesTyped, OfThePast, SessionBounds
  <2> QED BY <1>1, <1>2, <1>5, <1>6, <1>7, <2>2 DEF RolesInductive, OfThePast
<1>10. NoTokenLeft'
  BY <1>1 DEF RolesInductive, NoTokenLeft
<1>11. RequestsOlder'
  BY <1>1, <1>5, <1>6 DEF RolesInductive, RequestsOlder
<1>12. outSince # 0 /\ session[s] = "gone" => until <= outSince + TTL
  BY <1>1, <1>2 DEF RolesInductive, RequestsOlder, SessionBounds
<1>13. MemoryOlder'
  <2> HIDE DEF until, c
  <2> QED BY <1>1, <1>2, <1>4, <1>12 DEF RolesInductive, RolesTyped, MemoryOlder, SessionBounds
<1>14. DemotedIsOut'
  BY <1>1, <1>2 DEF RolesInductive, RequestsOlder, DemotedIsOut, SessionBounds
<1> QED BY <1>8, <1>9, <1>10, <1>11, <1>13, <1>14 DEF RolesInductive

(* A change of the role, until its sessions are deleted: if the role becomes that of an  *)
(* administrator, nothing is promised any more.                                          *)
LEMMA ChangeMoves ==
  ASSUME SessionBounds, RolesInductive, NEW c \in Changers,
         SetRole(c) \/ Stop(c) \/ \E to \in Roles : ReadRole(c, to)
  PROVE  RolesInductive'
<1>1. /\ UNCHANGED <<session, activeUntil, check, admitted, now>>
      /\ \/ outSince' = 0
         \/ outSince' = outSince /\ (role' = "admin" => role = "admin")
  BY DEF SetRole, Stop, ReadRole, caches
<1>2. RolesTyped' /\ OfThePast'
  BY <1>1 DEF RolesInductive, RolesTyped, OfThePast
<1>3. NoTokenLeft'
  BY <1>1 DEF RolesInductive, NoTokenLeft
<1>4. RequestsOlder' /\ MemoryOlder' /\ DemotedIsOut'
  BY <1>1 DEF RolesInductive, RequestsOlder, MemoryOlder, DemotedIsOut
<1> QED BY <1>2, <1>3, <1>4 DEF RolesInductive

(* The deletion: everything there is, is from before it. *)
LEMMA RevokeMoves ==
  ASSUME SessionBounds, RolesInductive, NEW c \in Changers, Revoke(c)
  PROVE  RolesInductive'
<1>1. /\ session' = [s \in UserSessions |-> IF Live(s) THEN "gone" ELSE session[s]]
      /\ outSince' = IF role = "admin" THEN 0 ELSE now
      /\ UNCHANGED <<role, activeUntil, check, admitted, now>>
  BY DEF Revoke, caches
<1>2. \A s \in UserSessions : session'[s] \in {"new", "gone"}
  BY <1>1 DEF Live
<1>3. /\ now \in Nat /\ outSince' \in {0, now} /\ admitted \in Nat
      /\ admitted <= now
      /\ \A s \in UserSessions : check[s].since \in Nat /\ check[s].since <= now
      /\ \A p \in Processes, s \in UserSessions : activeUntil[p][s] <= now + TTL
  BY <1>1 DEF RolesInductive, RolesTyped, OfThePast, Check
<1>4. RolesTyped'
  BY <1>1, <1>2, <1>3 DEF RolesInductive, RolesTyped
<1>5. OfThePast'
  BY <1>1, <1>3 DEF OfThePast
<1>6. NoTokenLeft'
  BY <1>1, <1>2 DEF NoTokenLeft
<1>7. RequestsOlder' /\ MemoryOlder'
  BY <1>1, <1>3 DEF RequestsOlder, MemoryOlder
<1>8. DemotedIsOut'
  BY <1>1, <1>3 DEF DemotedIsOut, SessionBounds
<1> QED BY <1>4, <1>5, <1>6, <1>7, <1>8 DEF RolesInductive

LEMMA RestartMoves ==
  ASSUME SessionBounds, RolesInductive, NEW p \in Processes, Restart(p)
  PROVE  RolesInductive'
<1>1. /\ activeUntil' = [activeUntil EXCEPT ![p] = [s \in UserSessions |-> 0]]
      /\ check' = [s \in UserSessions |-> IF check[s].process = p THEN NoCheck ELSE check[s]]
      /\ UNCHANGED <<role, session, admitted, outSince, now>>
  BY DEF Restart, desk
<1>2. NoCheck \in Check /\ NoCheck.pc = "idle" /\ NoCheck.since = 0
  BY DEF NoCheck, Check
<1>3. /\ check' \in [UserSessions -> Check]
      /\ \A s \in UserSessions : check'[s] \in {NoCheck, check[s]}
  BY <1>1, <1>2 DEF RolesInductive, RolesTyped
<1>4. /\ activeUntil' \in [Processes -> [UserSessions -> Nat]]
      /\ \A q \in Processes, s \in UserSessions : activeUntil'[q][s] \in {0, activeUntil[q][s]}
  BY <1>1 DEF RolesInductive, RolesTyped
<1>5. RolesTyped'
  BY <1>1, <1>2, <1>3, <1>4 DEF RolesInductive, RolesTyped
<1>6. OfThePast'
  BY <1>1, <1>2, <1>3, <1>4 DEF RolesInductive, RolesTyped, OfThePast, SessionBounds
<1>7. NoTokenLeft' /\ RequestsOlder' /\ DemotedIsOut'
  BY <1>1, <1>2, <1>3 DEF RolesInductive, NoTokenLeft, RequestsOlder, DemotedIsOut
<1>8. MemoryOlder'
  BY <1>1, <1>4 DEF RolesInductive, RolesTyped, MemoryOlder, SessionBounds
<1> QED BY <1>5, <1>6, <1>7, <1>8 DEF RolesInductive

LEMMA RolesSteps ==
  ASSUME SessionBounds
  PROVE  RolesInductive /\ [RolesNext]_roleVars => RolesInductive'
<1> SUFFICES ASSUME RolesInductive, [RolesNext]_roleVars PROVE RolesInductive'
  OBVIOUS
<1>1. CASE Tick
  BY <1>1, TickMoves
<1>2. ASSUME NEW s \in UserSessions,
             SignIn(s) \/ Ask(s) \/ Admit(s) \/ \E p \in Processes : Arrive(s, p)
      PROVE  RolesInductive'
  BY <1>2, SignInMoves, AskMoves, AdmitMoves, ArriveMoves
<1>3. ASSUME NEW c \in Changers,
             SetRole(c) \/ Revoke(c) \/ Stop(c) \/ \E to \in Roles : ReadRole(c, to)
      PROVE  RolesInductive'
  BY <1>3, ChangeMoves, RevokeMoves
<1>4. ASSUME NEW p \in Processes, Restart(p) PROVE RolesInductive'
  BY <1>4, RestartMoves
<1>5. CASE UNCHANGED roleVars
  BY <1>5 DEF roleVars, RolesInductive, RolesTyped, OfThePast, NoTokenLeft, RequestsOlder,
              MemoryOlder, DemotedIsOut
<1> QED BY <1>1, <1>2, <1>3, <1>4, <1>5 DEF RolesNext

(* Once a demotion is through, no request that arrives TTL after it is let in as an      *)
(* administrator, whatever tokens there are, whatever processes remember and whichever   *)
(* checks overlap the demotion (SessionLivenessService, revoke_user_sessions).           *)
THEOREM DemotedOut == ASSUME SessionBounds PROVE RolesSpec => []DemotedIsOut
<1>1. RolesInit => RolesInductive
  BY InitRoles
<1>2. RolesInductive /\ [RolesNext]_roleVars => RolesInductive'
  BY RolesSteps
<1>3. RolesInductive => DemotedIsOut
  BY DEF RolesInductive
<1> QED BY <1>1, <1>2, <1>3, PTL DEF RolesSpec

------------------------------------------------------------------------------
(***************************************************************************)
(* OnboardingStages: for any documents, certifications, levels and days.   *)
(* StagesAgree is about one state, so the types suffice: CurrentUpload     *)
(* names at most one upload, and approving the uploads under review leaves *)
(* every key with the upload it had.                                       *)
(***************************************************************************)

Upload == [key : Keys, review : {"pending", "approved", "rejected"}, until : Nat, level : Nat]
StageTypes ==
  /\ approval \in {"pending", "approved", "rejected"} /\ active \in BOOLEAN
  /\ gaps \in BOOLEAN /\ synced \in BOOLEAN
  /\ today \in Nat /\ level \in [Keys -> Nat] /\ uploads \in Seq(Upload)

\* What the rows of instructors and of certification_uploads hold.
LEMMA StageTypesHold == StagesSpec => []StageTypes
<1>1. StagesInit => StageTypes
  <2> SUFFICES ASSUME StagesInit PROVE StageTypes
    OBVIOUS
  <2>1. active = TRUE /\ gaps = TRUE /\ synced = FALSE
    BY DEF StagesInit
  <2>2. active \in BOOLEAN /\ gaps \in BOOLEAN /\ synced \in BOOLEAN
    BY ONLY <2>1, Zenon
  <2> QED BY <2>2 DEF StagesInit, StageTypes
<1>2. StageTypes /\ [StagesNext]_stageVars => StageTypes'
  <2> SUFFICES ASSUME StageTypes, [StagesNext]_stageVars PROVE StageTypes'
    OBVIOUS
  <2>1. CASE UNCHANGED stageVars
    BY <2>1 DEF StageTypes, stageVars
  <2>2. CASE DayPasses
    BY <2>2 DEF DayPasses, StageTypes, proofs, people
  <2>6. CASE SwitchActive \/ EditProfile \/ ChangeDocuments \/ \E s \in CurrentSeasons : SetSeason(s)
    BY <2>6 DEF SwitchActive, EditProfile, ChangeDocuments, SetSeason, StageTypes, proofs, people
  <2>7. CASE Sync
    BY <2>7 DEF Sync, StageTypes, proofs, people
  <2>8. ASSUME NEW to \in {"approved", "rejected"}, DecideApproval(to) PROVE StageTypes'
    BY <2>8 DEF DecideApproval, StageTypes, proofs
  <2>3. ASSUME NEW k \in Keys, NEW l \in HeldLevels, Declare(k, l) PROVE StageTypes'
    BY <2>3, StageBounds DEF Declare, StageTypes, people
  <2>4. ASSUME NEW k \in Keys, NEW until \in ValidUntil, Confirm(k, until) PROVE StageTypes'
    <3> PICK u : u = [key |-> k, review |-> "pending", until |-> until, level |-> 0]
      OBVIOUS
    <3>1. u \in Upload
      BY StageBounds DEF Upload
    <3>2. uploads' = Append(uploads, u) /\ UNCHANGED <<level, today, approval, active, gaps, synced>>
      BY <2>4 DEF Confirm, people
    <3>3. uploads \in Seq(Upload)
      BY DEF StageTypes
    <3>4. Append(uploads, u) \in Seq(Upload)
      BY <3>1, <3>3
    <3> QED BY <3>2, <3>4 DEF StageTypes
  <2>5. ASSUME NEW i \in DOMAIN uploads, NEW to \in {"pending", "approved", "rejected"}, Review(i, to)
        PROVE  StageTypes'
    <3> PICK u : u = uploads[i]
      OBVIOUS
    <3>1. u \in Upload /\ u.key \in Keys /\ level[u.key] \in Nat /\ u.level \in Nat
      <4>1. u \in Upload
        BY DEF StageTypes
      <4> QED BY <4>1 DEF StageTypes, Upload
    <3> PICK l : l = IF to = "approved" THEN level[u.key] ELSE IF to = "rejected" THEN 0 ELSE u.level
      OBVIOUS
    <3> PICK r : r = [u EXCEPT !.review = to, !.level = l]
      OBVIOUS
    <3>2. r \in Upload
      <4>1. l \in Nat
        BY <3>1
      <4> QED BY <3>1, <4>1 DEF Upload
    <3>3. uploads' = [uploads EXCEPT ![i] = r] /\ UNCHANGED <<level, today, approval, active, gaps, synced>>
      BY <2>5 DEF Review, Reviewed, people
    <3> QED BY <3>2, <3>3 DEF StageTypes
  <2> QED BY <2>1, <2>2, <2>3, <2>4, <2>5, <2>6, <2>7, <2>8 DEF StagesNext
<1> QED BY <1>1, <1>2, PTL DEF StagesSpec

\* The upload that counts is one.
LEMMA OneCurrent ==
  ASSUME NEW ups, NEW k, NEW u \in CurrentUpload(ups, k)
  PROVE  \A w \in CurrentUpload(ups, k) : w = u
BY DEF CurrentUpload

\* What an upload is worth.
LEMMA StateOf ==
  ASSUME NEW ups, NEW k, NEW u \in CurrentUpload(ups, k), u \in Upload, today \in Nat
  PROVE  /\ CertificationState(ups, k) = "pending" <=> u.review = "pending" /\ u.until >= today
         /\ Satisfied(CertificationState(ups, k)) <=> u.review = "approved" /\ u.until >= today
<1>1. \A w : w \in CurrentUpload(ups, k) <=> w = u
  BY OneCurrent
<1>2. CurrentUpload(ups, k) # {}
  OBVIOUS
<1>3. CASE u.review = "rejected"
  <2>1. CertificationState(ups, k) = "rejected"
    BY <1>1, <1>2, <1>3 DEF CertificationState
  <2> QED BY <1>3, <2>1 DEF Satisfied
<1>4. CASE u.review # "rejected" /\ ~(u.until >= today)
  <2>1. ~(u.until >= today + 0)
    BY <1>4 DEF Upload
  <2>2. CertificationState(ups, k) = "expired"
    BY <1>1, <1>2, <1>4, <2>1 DEF CertificationState
  <2> QED BY <1>4, <2>2 DEF Satisfied
<1>5. CASE u.review = "pending" /\ u.until >= today
  <2>1. u.until >= today + 0
    BY <1>5 DEF Upload
  <2>2. CertificationState(ups, k) = "pending"
    BY <1>1, <1>2, <1>5, <2>1 DEF CertificationState
  <2> QED BY <1>5, <2>2 DEF Satisfied
<1>6. CASE u.review = "approved" /\ u.until >= today
  <2>1. u.until >= today + 0
    BY <1>6 DEF Upload
  <2>2. CertificationState(ups, k) \in {"valid", "expiring"}
    BY <1>1, <1>2, <1>6, <2>1 DEF CertificationState
  <2> QED BY <1>6, <2>2 DEF Satisfied
<1> QED BY <1>3, <1>4, <1>5, <1>6 DEF Upload

\* Without an upload the certification is missing.
LEMMA StateOfNone ==
  ASSUME NEW ups, NEW k, CurrentUpload(ups, k) = {}
  PROVE  CertificationState(ups, k) = "missing" /\ ~Satisfied("missing")
BY DEF CertificationState, Satisfied

-----------------------------------------------------------------------------
\* Once the uploads that await a review are approved.
Approvals ==
  [i \in DOMAIN uploads |-> IF uploads[i].review = "pending"
                            THEN Reviewed(uploads[i], "approved") ELSE uploads[i]]

\* A certification under review is verified by its approval.
LEMMA ReviewSuffices ==
  ASSUME StageTypes, NEW k \in Keys, level[k] # 0, CertificationState(uploads, k) = "pending"
  PROVE  Verified(Approvals, k)
<1>1. PICK u \in CurrentUpload(uploads, k) : TRUE
  BY StateOfNone
<1> PICK mine : mine = {i \in DOMAIN uploads : uploads[i].key = k}
  OBVIOUS
<1>2. PICK i \in mine : i = Max(mine) /\ u = uploads[i]
  BY <1>1 DEF CurrentUpload
<1>3. u \in Upload /\ u.key = k /\ today \in Nat /\ level \in [Keys -> Nat]
  BY <1>2 DEF StageTypes
<1>4. u.review = "pending" /\ u.until >= today
  BY <1>1, <1>3, StateOf
<1> PICK l : l = level[k]
  OBVIOUS
<1> PICK r : r = [u EXCEPT !.review = "approved", !.level = l]
  OBVIOUS
<1>5. r.review = "approved" /\ r.until = u.until /\ r.level = l /\ r.key = k /\ l \in Nat
  BY <1>3 DEF Upload
<1>6. Reviewed(u, "approved") = r
  BY <1>3 DEF Reviewed
<1>7. Approvals[i] = r
  BY <1>2, <1>4, <1>6 DEF Approvals
<1>8. {j \in DOMAIN Approvals : Approvals[j].key = k} = mine
  <2> SUFFICES ASSUME NEW j \in DOMAIN uploads PROVE Approvals[j].key = uploads[j].key
    BY DEF Approvals
  <2> PICK w : w = uploads[j]
    OBVIOUS
  <2>1. w \in Upload
    BY DEF StageTypes
  <2> PICK m : m = level[w.key]
    OBVIOUS
  <2> PICK q : q = [w EXCEPT !.review = "approved", !.level = m]
    OBVIOUS
  <2>2. q.key = w.key /\ Reviewed(w, "approved") = q
    BY <2>1 DEF Upload, Reviewed
  <2> QED BY <2>2 DEF Approvals
<1>9. r \in CurrentUpload(Approvals, k)
  BY <1>2, <1>7, <1>8 DEF CurrentUpload
<1>10. r.review = "approved" /\ r.until >= today /\ r.level >= level[k]
  BY <1>4, <1>5
<1> QED BY <1>9, <1>10 DEF Verified

\* When the count is short of the reviews only, every required document is done.
LEMMA OnlyReviews ==
  ASSUME StageTypes, NEW docs \in SUBSET DOMAIN Documents, OnlyReviewMissing(uploads, docs)
  PROVE  \A a \in docs : DocumentDone(a)
<1> PICK D, E, S, R :
      /\ D = Required(docs) /\ E = {a \in Required(docs) : DocumentDone(a)}
      /\ S = {k \in Declared : Satisfied(CertificationState(uploads, k))} /\ R = InReview(uploads)
  OBVIOUS
<1>1. /\ IsFiniteSet(D) /\ IsFiniteSet(E) /\ Cardinality(E) <= Cardinality(D)
      /\ Cardinality(E) = Cardinality(D) => E = D
  <2>1. D \in SUBSET DOMAIN Documents /\ E \in SUBSET D
    BY DEF Required
  <2> QED BY <2>1, StageBounds, FS_Subset
<1>2. /\ IsFiniteSet(S) /\ IsFiniteSet(R) /\ S \cap R = {} /\ IsFiniteSet(Declared)
      /\ Cardinality(S \cup R) <= Cardinality(Declared)
  <2>1. S \in SUBSET Declared /\ R \in SUBSET Declared /\ S \cup R \in SUBSET Declared /\ Declared \in SUBSET Keys
    BY DEF InReview, Declared
  <2>2. S \cap R = {}
    BY DEF InReview, Satisfied
  <2> QED BY <2>1, <2>2, StageBounds, FS_Subset
<1>3. Cardinality(S \cup R) = Cardinality(S) + Cardinality(R)
  <2>1. /\ Cardinality(S \cup R) = Cardinality(S) + Cardinality(R) - Cardinality(S \cap R)
        /\ Cardinality(S \cap R) = 0 /\ Cardinality(S) \in Nat /\ Cardinality(R) \in Nat
    BY <1>2, FS_Union, FS_EmptySet, FS_CardinalityType
  <2> QED BY <2>1
<1>4. (Cardinality(E) + Cardinality(S)) + Cardinality(R) = Cardinality(D) + Cardinality(Declared)
  BY DEF OnlyReviewMissing, Done, Total
<1>5. Cardinality(E) = Cardinality(D)
  <2>1. /\ Cardinality(E) \in Nat /\ Cardinality(D) \in Nat /\ Cardinality(S) \in Nat
        /\ Cardinality(R) \in Nat /\ Cardinality(Declared) \in Nat
    BY <1>1, <1>2, FS_CardinalityType
  <2> QED BY <1>1, <1>2, <1>3, <1>4, <2>1
<1> QED BY <1>1, <1>5 DEF Required, DocumentDone

\* The lock, the checklist, the summary and the status agree in every typed state.
LEMMA StagesFit == StageTypes => StagesAgree
<1> SUFFICES ASSUME StageTypes PROVE StagesAgree
  OBVIOUS
<1>1. LockFor \in {"deactivated", "pending", "rejected", "none"} /\ (LockFor = "none" => IsVisible)
  BY DEF LockFor, IsVisible, StageTypes
<1>2. (OnboardingLock = "none") = ChecklistComplete
  BY DEF OnboardingLock, ChecklistComplete
<1>3. IsVisible => SeasonDocuments(OpenForSubjects) = SeasonDocuments(ForSubject)
  <2>1. OpenIn(OpenIn(ForSubject)) = OpenIn(ForSubject)
    BY DEF OpenIn
  <2> QED BY <2>1 DEF OpenForSubjects, SeasonDocuments
<1>4. SummaryComplete = ChecklistComplete
  BY <1>1, <1>3 DEF SummaryComplete, ChecklistComplete
<1>5. SummaryStage = StatusStage
  BY <1>1, <1>3 DEF SummaryStage, StatusStage, StageWith, GoLiveDocuments
<1>6. ASSUME StatusStage = "in_review"
      PROVE  StageWith(Approvals, GoLiveDocuments) = "going_live" /\ ~ChecklistComplete
  <2>1. LockFor = "none" /\ IsVisible /\ ~IsLive /\ OnlyReviewMissing(uploads, GoLiveDocuments)
    BY <1>1, <1>6 DEF StatusStage, StageWith, AwaitsReview
  <2>2. GoLiveDocuments \in SUBSET DOMAIN Documents /\ GoLiveDocuments = SeasonDocuments(ForSubject)
    BY <2>1 DEF GoLiveDocuments, SeasonDocuments, ForSubject, OpenIn
  <2>3. PICK k \in Declared : CertificationState(uploads, k) = "pending"
    BY <2>1 DEF OnlyReviewMissing, InReview
  <2>4. Verified(Approvals, k)
    BY <2>3, ReviewSuffices DEF Declared
  <2>5. Ready(Approvals, GoLiveDocuments)
    BY <2>1, <2>2, <2>4, OnlyReviews DEF Ready, OnlyReviewMissing
  <2>6. ~Satisfied(CertificationState(uploads, k))
    BY <2>3 DEF Satisfied
  <2>7. ~ChecklistComplete
    BY <2>3, <2>6 DEF ChecklistComplete, OnboardingItemsDone
  <2> QED BY <2>1, <2>5, <2>7 DEF StageWith
<1> QED BY <1>2, <1>4, <1>5, <1>6 DEF StagesAgree, Approvals

\* The places that ask whether an instructor is through agree, and what is only under
\* review goes live once it is approved.
THEOREM StagesOfAll == StagesSpec => []StagesAgree
BY StageTypesHold, StagesFit, PTL

------------------------------------------------------------------------------
(***************************************************************************)
(* InstructorAccounts: for any requests, administrators, saves and bounds. *)
(* A first save is announced by the one request whose insert made the row  *)
(* (AnnouncedByOne); what a save leaves out as unchanged is what its own   *)
(* read saw, so the row has the texts of the last save but for those       *)
(* another request changed since that read (`strayed`).                    *)
(***************************************************************************)

\* What the requests save, and the texts those have.
Requests == Saves \cup PhotoSaves \cup {NoSave}
Values == {0} \cup UNION {{s.fields[f] : f \in DOMAIN s.fields} : s \in Requests}
ProfileRow ==
  [there : BOOLEAN, text : [ProfileFields -> Values], mark : [Bios -> BOOLEAN], at : [Bios -> Nat]]
ProfileCall ==
  [pc : {"idle", "inserting", "telling", "mailing", "saving", "applied", "reading", "answered"},
   save : Requests, seen : ProfileRow, core : ProfileRow, stirred : BOOLEAN, left : SUBSET Admins]
AccountTypes ==
  /\ row \in ProfileRow /\ call \in [ProfileCalls -> ProfileCall] /\ told \in [Admins -> Nat]
  /\ commits \in Nat /\ accountFaults \in Nat

\* Who announces a new profile: the request that made it, each administrator at most once.
Announcing(c) == call[c].pc \in {"telling", "mailing"}
AnnouncedByOne ==
  /\ ~row.there => /\ \A a \in Admins : told[a] = 0
                  /\ \A c \in ProfileCalls : call[c].pc \in {"idle", "inserting"}
  /\ \A a \in Admins : told[a] <= 1
  /\ \A c, d \in ProfileCalls : Announcing(c) /\ Announcing(d) => c = d
  /\ \A c \in ProfileCalls :
       /\ call[c].pc = "telling" => \A a \in Admins : told[a] = 0
       /\ call[c].pc = "mailing" =>
            /\ \A a \in call[c].left : told[a] = 0
            /\ accountFaults = 0 => \A a \in Admins \ call[c].left : told[a] = 1
  /\ row.there /\ accountFaults = 0 /\ (\A c \in ProfileCalls : ~Announcing(c))
       => \A a \in Admins : told[a] = 1

\* No bio is stamped with a commit to come, and an answer no save crossed is the row.
Stamped == \A b \in Bios : row.at[b] <= commits
Current ==
  \A c \in ProfileCalls :
    call[c].pc \in {"reading", "answered"} /\ ~call[c].stirred => call[c].core.text = row.text

\* The inductive invariant.
AccountsInv ==
  AccountTypes /\ AnnouncedByOne /\ Stamped /\ LastSaveHolds /\ TextsKeepTheirMark
  /\ StepMeansTogether /\ Current

\* The bios are fields of a profile.
LEMMA BiosAre == Bios = {"en", "zh"} /\ Bios \subseteq ProfileFields /\ "places" \in ProfileFields
BY DEF Bios, ProfileFields

\* A profile nobody made.
LEMMA NoRowIs ==
  /\ NoRow \in ProfileRow /\ NoRow.there = FALSE /\ NoRow.text = [f \in ProfileFields |-> 0]
  /\ NoRow.mark = [b \in Bios |-> FALSE] /\ NoRow.at = [b \in Bios |-> 0]
BY DEF NoRow, ProfileRow, Values

\* A request that has not begun.
LEMMA NoCallIs == NoCall \in ProfileCall /\ NoCall.pc = "idle" /\ NoCall.stirred = FALSE
BY NoRowIs DEF NoCall, ProfileCall, Requests

\* A request that has read the row.
LEMMA ReadingIs ==
  ASSUME row \in ProfileRow
  PROVE  Reading \in ProfileCall /\ Reading.pc = "reading" /\ Reading.core = row
<1> PICK b : b = NoCall
  OBVIOUS
<1>1. b \in ProfileCall
  BY NoCallIs
<1> PICK n : n = [b EXCEPT !.pc = "reading", !.core = row]
  OBVIOUS
<1>2. n \in ProfileCall /\ n.pc = "reading" /\ n.core = row
  BY <1>1 DEF ProfileCall
<1> QED BY <1>2 DEF Reading

\* The invariant holds before the first request.
LEMMA InitAccounts == AccountsInit => AccountsInv
<1> SUFFICES ASSUME AccountsInit PROVE AccountsInv
  OBVIOUS
<1>1. /\ row = NoRow /\ call = [c \in ProfileCalls |-> NoCall] /\ told = [a \in Admins |-> 0]
      /\ last = [f \in ProfileFields |-> 0] /\ sentAs = {<<b, 0, FALSE>> : b \in Bios}
      /\ commits = 0 /\ accountFaults = 0
  BY DEF AccountsInit
<1>2. AccountTypes
  BY <1>1, NoRowIs, NoCallIs DEF AccountTypes
<1>3. AnnouncedByOne
  BY <1>1, NoRowIs, NoCallIs DEF AnnouncedByOne, Announcing
<1>4. Stamped /\ LastSaveHolds /\ StepMeansTogether /\ Current
  BY <1>1, NoRowIs, NoCallIs, BiosAre DEF Stamped, LastSaveHolds, StepMeansTogether, Current
<1>5. TextsKeepTheirMark
  <2> SUFFICES ASSUME NEW b \in Bios PROVE <<b, row.text[b], row.mark[b]>> \in sentAs
    BY DEF TextsKeepTheirMark
  <2>1. row.text[b] = 0 /\ row.mark[b] = FALSE
    BY <1>1, NoRowIs, BiosAre
  <2> QED BY <1>1, <2>1
<1> QED BY <1>2, <1>3, <1>4, <1>5 DEF AccountsInv

-----------------------------------------------------------------------------
\* Steps before and after a save: no field, mark, stamp or record of saves changes.
LEMMA NoSaveCommits ==
  ASSUME AccountsInv, AccountTypes', AnnouncedByOne', UNCHANGED saveHistory,
         row' = row \/ row' = [row EXCEPT !.there = TRUE],
         NEW c \in ProfileCalls, NEW n, call' = [call EXCEPT ![c] = n],
         n.pc \in {"reading", "answered"} /\ ~n.stirred => n.core.text = row.text
  PROVE  AccountsInv'
<1>1. row'.text = row.text /\ row'.mark = row.mark /\ row'.at = row.at
  BY DEF AccountsInv, AccountTypes, ProfileRow
<1>2. Stamped' /\ LastSaveHolds' /\ TextsKeepTheirMark' /\ StepMeansTogether'
  BY <1>1 DEF AccountsInv, Stamped, LastSaveHolds, TextsKeepTheirMark, StepMeansTogether, saveHistory
<1>3. Current'
  BY <1>1 DEF AccountsInv, AccountTypes, Current
<1> QED BY <1>2, <1>3 DEF AccountsInv

\* A request that is not announcing goes on to a step that is not.
LEMMA NobodyAnnounces ==
  ASSUME AccountsInv, NEW c \in ProfileCalls, ~Announcing(c), NEW n \in ProfileCall,
         n.pc \notin {"telling", "mailing"}, call' = [call EXCEPT ![c] = n],
         row.there \/ n.pc \in {"idle", "inserting"},
         UNCHANGED <<row, told, accountFaults>>
  PROVE  AnnouncedByOne' /\ (UNCHANGED commits => AccountTypes')
<1>1. /\ call' \in [ProfileCalls -> ProfileCall] /\ call'[c] = n
      /\ \A d \in ProfileCalls \ {c} : call'[d] = call[d]
  BY DEF AccountsInv, AccountTypes
<1>2. \A d \in ProfileCalls : /\ Announcing(d)' <=> Announcing(d)
                              /\ Announcing(d) => call'[d] = call[d]
  BY <1>1 DEF Announcing
<1>3. AnnouncedByOne'
  BY <1>2 DEF AccountsInv, AnnouncedByOne, Announcing
<1> QED BY <1>1, <1>3 DEF AccountsInv, AccountTypes

LEMMA LookHolds ==
  ASSUME AccountsInv, NEW c \in ProfileCalls, Look(c)
  PROVE  AccountsInv'
<1> PICK b : b = NoCall
  OBVIOUS
<1>1. b \in ProfileCall /\ row \in ProfileRow
  BY NoCallIs DEF AccountsInv, AccountTypes
<1> PICK i : i = [b EXCEPT !.pc = "inserting"]
  OBVIOUS
<1>2. i \in ProfileCall /\ i.pc = "inserting"
  BY <1>1 DEF ProfileCall
<1> PICK n : n = IF row.there THEN Reading ELSE i
  OBVIOUS
<1>3. /\ n \in ProfileCall /\ n.pc \in {"reading", "inserting"} /\ (n.pc = "reading" => n.core = row)
      /\ row.there \/ n.pc = "inserting"
      /\ call' = [call EXCEPT ![c] = n] /\ UNCHANGED <<row, told, saveHistory, accountFaults>>
      /\ ~Announcing(c)
  BY <1>1, <1>2, ReadingIs DEF Look, Became, Announcing
<1>4. AnnouncedByOne' /\ AccountTypes'
  BY <1>2, <1>3, NobodyAnnounces DEF saveHistory
<1> QED BY <1>3, <1>4, NoSaveCommits

LEMMA InsertHolds ==
  ASSUME AccountsInv, NEW c \in ProfileCalls, Insert(c)
  PROVE  AccountsInv'
<1> PICK b : b = NoCall
  OBVIOUS
<1>1. b \in ProfileCall /\ row \in ProfileRow
  BY NoCallIs DEF AccountsInv, AccountTypes
<1> PICK t : t = [b EXCEPT !.pc = "telling"]
  OBVIOUS
<1>2. t \in ProfileCall /\ t.pc = "telling"
  BY <1>1 DEF ProfileCall
<1> PICK n : n = IF ~row.there THEN t ELSE Reading
  OBVIOUS
<1>3. /\ n \in ProfileCall /\ (n.pc = "reading" => n.core = row) /\ ~Announcing(c)
      /\ n.pc = IF ~row.there THEN "telling" ELSE "reading"
      /\ call' = [call EXCEPT ![c] = n] /\ row' = [row EXCEPT !.there = TRUE]
      /\ UNCHANGED <<told, saveHistory, accountFaults>>
  BY <1>1, <1>2, ReadingIs DEF Insert, Made, Became, Announcing
<1>4. row' \in ProfileRow /\ row'.there = TRUE
  BY <1>1, <1>3 DEF ProfileRow
<1>5. AccountTypes'
  BY <1>3, <1>4 DEF AccountsInv, AccountTypes, saveHistory
<1>6. AnnouncedByOne'
  <2>1. call'[c] = n /\ \A d \in ProfileCalls \ {c} : call'[d] = call[d]
    BY <1>3 DEF AccountsInv, AccountTypes
  <2>2. CASE row.there
    BY <1>3, <1>4, <2>1, <2>2 DEF AccountsInv, AnnouncedByOne, Announcing
  <2>3. CASE ~row.there
    <3>1. (\A a \in Admins : told'[a] = 0) /\ \A d \in ProfileCalls : ~Announcing(d)
      BY <1>3, <2>3 DEF AccountsInv, AnnouncedByOne, Announcing
    <3>2. call'[c].pc = "telling" /\ \A d \in ProfileCalls : Announcing(d)' <=> d = c
      BY <1>3, <2>1, <2>3, <3>1 DEF Announcing
    <3>3. \A d \in ProfileCalls : call'[d].pc # "mailing"
      BY <3>2 DEF Announcing
    <3> QED BY <1>4, <3>1, <3>2, <3>3 DEF AnnouncedByOne
  <2> QED BY <2>2, <2>3
<1>7. n.pc \in {"reading", "answered"} /\ ~n.stirred => n.core.text = row.text
  BY <1>3
<1> QED BY <1>3, <1>5, <1>6, <1>7, NoSaveCommits

LEMMA InsertLostHolds ==
  ASSUME AccountsInv, NEW c \in ProfileCalls, InsertLost(c)
  PROVE  AccountsInv'
<1> PICK n : n = NoCall
  OBVIOUS
<1>1. n \in ProfileCall /\ row \in ProfileRow /\ n.pc = "idle"
  BY NoCallIs DEF AccountsInv, AccountTypes
<1>2. /\ ~Announcing(c) /\ ~row.there /\ accountFaults' = accountFaults + 1
      /\ call' = [call EXCEPT ![c] = n] /\ row' = [row EXCEPT !.there = TRUE]
      /\ UNCHANGED <<told, saveHistory>>
  BY DEF InsertLost, AccountFault, Became, Announcing
<1>3. row' \in ProfileRow /\ row'.there = TRUE
  BY <1>1, <1>2 DEF ProfileRow
<1>4. AccountTypes'
  BY <1>1, <1>2, <1>3 DEF AccountsInv, AccountTypes, saveHistory
<1>5. AnnouncedByOne'
  <2>1. call'[c] = n /\ (\A d \in ProfileCalls \ {c} : call'[d] = call[d]) /\ accountFaults' # 0
    BY <1>2 DEF AccountsInv, AccountTypes
  <2> QED BY <1>1, <1>2, <1>3, <2>1 DEF AccountsInv, AnnouncedByOne, Announcing
<1> QED BY <1>1, <1>2, <1>4, <1>5, NoSaveCommits

LEMMA ListAdminsHolds ==
  ASSUME AccountsInv, NEW c \in ProfileCalls, NEW ok \in BOOLEAN, ListAdmins(c, ok)
  PROVE  AccountsInv'
<1> PICK b : b = NoCall
  OBVIOUS
<1>1. b \in ProfileCall /\ b.pc = "idle"
  BY NoCallIs
<1> PICK m : m = [b EXCEPT !.pc = "mailing", !.left = Admins]
  OBVIOUS
<1>2. m \in ProfileCall /\ m.pc = "mailing" /\ m.left = Admins
  BY <1>1 DEF ProfileCall
<1> PICK n : n = IF ok /\ Admins # {} THEN m ELSE b
  OBVIOUS
<1>3. /\ call[c].pc = "telling" /\ call' = [call EXCEPT ![c] = n]
      /\ UNCHANGED <<row, told, saveHistory>>
      /\ IF ok THEN accountFaults' = accountFaults ELSE accountFaults' = accountFaults + 1
  BY DEF ListAdmins, Became, AccountFault
<1>4. n \in ProfileCall /\ n.pc \in {"idle", "mailing"} /\ call'[c] = n
      /\ \A d \in ProfileCalls \ {c} : call'[d] = call[d]
  BY <1>1, <1>2, <1>3 DEF AccountsInv, AccountTypes
<1>5. AccountTypes'
  BY <1>3, <1>4 DEF AccountsInv, AccountTypes, saveHistory
<1>6. AnnouncedByOne'
  <2>1. /\ row.there /\ (\A a \in Admins : told[a] = 0) /\ \A d \in ProfileCalls : Announcing(d) => d = c
    BY <1>3 DEF AccountsInv, AnnouncedByOne, Announcing
  <2>2. \A d \in ProfileCalls : Announcing(d)' => d = c
    BY <1>4, <2>1 DEF Announcing
  <2>3. n.pc = "mailing" => n.left = Admins
    BY <1>1, <1>2
  <2>4. n.pc = "idle" => Admins = {} \/ accountFaults' # 0
    BY <1>1, <1>2, <1>3 DEF AccountsInv, AccountTypes
  <2> QED BY <1>3, <1>4, <2>1, <2>2, <2>3, <2>4 DEF AnnouncedByOne, Announcing
<1> QED BY <1>3, <1>4, <1>5, <1>6, NoSaveCommits

LEMMA MailAdminHolds ==
  ASSUME AccountsInv, NEW c \in ProfileCalls, NEW a \in Admins, NEW ok \in BOOLEAN, MailAdmin(c, a, ok)
  PROVE  AccountsInv'
<1> PICK o, b, others : o = call[c] /\ b = NoCall /\ others = o.left \ {a}
  OBVIOUS
<1> PICK m : m = [o EXCEPT !.left = others]
  OBVIOUS
<1> PICK n : n = IF o.left = {a} THEN b ELSE m
  OBVIOUS
<1>1. o \in ProfileCall /\ b \in ProfileCall /\ b.pc = "idle"
  BY NoCallIs DEF AccountsInv, AccountTypes
<1>2. /\ o.pc = "mailing" /\ a \in o.left /\ call' = [call EXCEPT ![c] = n]
      /\ UNCHANGED <<row, saveHistory>>
      /\ IF ok THEN accountFaults' = accountFaults ELSE accountFaults' = accountFaults + 1
      /\ told' = IF ok THEN [told EXCEPT ![a] = told[a] + 1] ELSE told
  BY DEF MailAdmin, Became, AccountFault
<1>3. m \in ProfileCall /\ m.pc = "mailing" /\ m.left = others
  BY <1>1, <1>2 DEF ProfileCall
<1>4. n \in ProfileCall /\ n.pc \in {"idle", "mailing"} /\ call'[c] = n
      /\ \A d \in ProfileCalls \ {c} : call'[d] = call[d]
  BY <1>1, <1>2, <1>3 DEF AccountsInv, AccountTypes
<1>5. AccountTypes'
  BY <1>2, <1>4 DEF AccountsInv, AccountTypes, saveHistory
<1>6. AnnouncedByOne'
  <2>1. /\ row.there /\ \A d \in ProfileCalls : Announcing(d) => d = c
        /\ \A x \in Admins : told[x] <= 1
        /\ \A x \in o.left : told[x] = 0
        /\ accountFaults = 0 => \A x \in Admins \ o.left : told[x] = 1
    BY <1>2 DEF AccountsInv, AnnouncedByOne, Announcing
  <2>2. \A d \in ProfileCalls : Announcing(d)' => d = c
    BY <1>4, <2>1 DEF Announcing
  <2>3. /\ \A x \in Admins \ {a} : told'[x] = told[x]
        /\ told'[a] = IF ok THEN 1 ELSE 0
    BY <1>2, <2>1 DEF AccountsInv, AccountTypes
  <2>4. accountFaults' = 0 => ok /\ accountFaults = 0
    BY <1>2 DEF AccountsInv, AccountTypes
  <2>5. n.pc = "mailing" => n.left = others
    BY <1>1, <1>3
  <2>6. n.pc = "idle" => o.left = {a}
    BY <1>3
  <2>7. /\ \A x \in Admins : told'[x] <= 1
        /\ \A x \in others : told'[x] = 0
        /\ accountFaults' = 0 => \A x \in Admins \ others : told'[x] = 1
    BY <1>1, <2>1, <2>3, <2>4 DEF ProfileCall
  <2>8. CASE n.pc = "mailing"
    <3>1. /\ \A x \in call'[c].left : told'[x] = 0
          /\ accountFaults' = 0 => \A x \in Admins \ call'[c].left : told'[x] = 1
      BY <1>4, <2>5, <2>7, <2>8
    <3>2. row'.there /\ Announcing(c)' /\ call'[c].pc = "mailing"
      BY <1>2, <1>4, <2>1, <2>8 DEF Announcing
    <3>3. \A d \in ProfileCalls : call'[d].pc \in {"telling", "mailing"} => d = c
      BY <2>2 DEF Announcing
    <3> QED BY <2>2, <2>7, <3>1, <3>2, <3>3 DEF AnnouncedByOne
  <2>9. CASE n.pc = "idle"
    <3>1. \A d \in ProfileCalls : ~Announcing(d)' /\ call'[d].pc \notin {"telling", "mailing"}
      BY <1>4, <2>2, <2>9 DEF Announcing
    <3>2. others = {} /\ row'.there
      BY <1>2, <2>1, <2>6, <2>9
    <3> QED BY <2>7, <3>1, <3>2 DEF AnnouncedByOne
  <2> QED BY <1>4, <2>8, <2>9
<1> QED BY <1>2, <1>4, <1>5, <1>6, NoSaveCommits

LEMMA BeginSaveHolds ==
  ASSUME AccountsInv, NEW c \in ProfileCalls, NEW s \in Saves \cup PhotoSaves, BeginSave(c, s)
  PROVE  AccountsInv'
<1> PICK b : b = NoCall
  OBVIOUS
<1> PICK n : n = [b EXCEPT !.pc = "saving", !.save = s, !.seen = row]
  OBVIOUS
<1>1. b \in ProfileCall /\ row \in ProfileRow
  BY NoCallIs DEF AccountsInv, AccountTypes
<1>2. n \in ProfileCall /\ n.pc = "saving"
  BY <1>1 DEF ProfileCall, Requests
<1>3. /\ ~Announcing(c) /\ call' = [call EXCEPT ![c] = n] /\ row.there
      /\ UNCHANGED <<row, told, saveHistory, accountFaults>>
  BY DEF BeginSave, Became, Announcing
<1>4. AnnouncedByOne' /\ AccountTypes'
  BY <1>2, <1>3, NobodyAnnounces DEF saveHistory
<1> QED BY <1>2, <1>3, <1>4, NoSaveCommits

LEMMA RefuseSaveHolds ==
  ASSUME AccountsInv, NEW c \in ProfileCalls, RefuseSave(c)
  PROVE  AccountsInv'
<1> PICK n : n = NoCall
  OBVIOUS
<1>1. /\ ~Announcing(c) /\ call' = [call EXCEPT ![c] = n] /\ n \in ProfileCall /\ n.pc = "idle"
      /\ UNCHANGED <<row, told, saveHistory, accountFaults>>
  BY NoCallIs DEF RefuseSave, AfterRefusal, Became, Announcing
<1>2. AnnouncedByOne' /\ AccountTypes'
  BY <1>1, NobodyAnnounces DEF saveHistory
<1> QED BY <1>1, <1>2, NoSaveCommits

LEMMA ReturnedHolds ==
  ASSUME AccountsInv, NEW c \in ProfileCalls, Returned(c)
  PROVE  AccountsInv'
<1> PICK n : n = NoCall
  OBVIOUS
<1>1. /\ ~Announcing(c) /\ call' = [call EXCEPT ![c] = n] /\ n \in ProfileCall /\ n.pc = "idle"
      /\ UNCHANGED <<row, told, saveHistory, accountFaults>>
  BY NoCallIs DEF Returned, Became, Announcing
<1>2. AnnouncedByOne' /\ AccountTypes'
  BY <1>1, NobodyAnnounces DEF saveHistory
<1> QED BY <1>1, <1>2, NoSaveCommits

LEMMA ReadAgainHolds ==
  ASSUME AccountsInv, NEW c \in ProfileCalls, ReadAgain(c)
  PROVE  AccountsInv'
<1> PICK o : o = call[c]
  OBVIOUS
<1> PICK n : n = [o EXCEPT !.pc = "reading", !.core = row]
  OBVIOUS
<1>1. o \in ProfileCall /\ row \in ProfileRow
  BY DEF AccountsInv, AccountTypes
<1>2. n \in ProfileCall /\ n.pc = "reading" /\ n.core = row
  BY <1>1 DEF ProfileCall
<1>3. /\ ~Announcing(c) /\ call' = [call EXCEPT ![c] = n] /\ row.there
      /\ UNCHANGED <<row, told, saveHistory, accountFaults>>
  BY DEF ReadAgain, Updated, Became, Announcing, AccountsInv, AnnouncedByOne
<1>4. AnnouncedByOne' /\ AccountTypes'
  BY <1>2, <1>3, NobodyAnnounces DEF saveHistory
<1> QED BY <1>2, <1>3, <1>4, NoSaveCommits

LEMMA AnswerProfileHolds ==
  ASSUME AccountsInv, NEW c \in ProfileCalls, AnswerProfile(c)
  PROVE  AccountsInv'
<1> PICK o, places : o = call[c] /\ places = row.text["places"]
  OBVIOUS
<1> PICK core : core = o.core
  OBVIOUS
<1> PICK text : text = [core.text EXCEPT !["places"] = places]
  OBVIOUS
<1> PICK shown : shown = [core EXCEPT !.text = text]
  OBVIOUS
<1> PICK n : n = [o EXCEPT !.pc = "answered", !.core = shown]
  OBVIOUS
<1>1. o \in ProfileCall /\ core \in ProfileRow /\ core.text \in [ProfileFields -> Values]
      /\ row \in ProfileRow /\ row.text \in [ProfileFields -> Values] /\ places \in Values
  BY BiosAre DEF AccountsInv, AccountTypes, ProfileCall, ProfileRow
<1>2. text \in [ProfileFields -> Values] /\ (core.text = row.text => text = row.text)
  BY <1>1
<1>3. shown \in ProfileRow /\ shown.text = text
  BY <1>1, <1>2 DEF ProfileRow
<1>4. n \in ProfileCall /\ n.pc = "answered" /\ n.core = shown /\ n.stirred = o.stirred
  BY <1>1, <1>3 DEF ProfileCall
<1>5. /\ ~Announcing(c) /\ o.pc = "reading" /\ call' = [call EXCEPT ![c] = n]
      /\ UNCHANGED <<row, told, saveHistory, accountFaults>>
  BY DEF AnswerProfile, Relations, Became, Announcing
<1>8. row.there
  BY <1>5 DEF AccountsInv, AnnouncedByOne
<1>6. AnnouncedByOne' /\ AccountTypes'
  BY <1>4, <1>5, <1>8, NobodyAnnounces DEF saveHistory
<1>7. ~n.stirred => n.core.text = row.text
  BY <1>2, <1>3, <1>4, <1>5 DEF AccountsInv, Current
<1> QED BY <1>4, <1>5, <1>6, <1>7, NoSaveCommits

-----------------------------------------------------------------------------
\* A save commits.
LEMMA AppliedHolds ==
  ASSUME AccountsInv, NEW c \in ProfileCalls, NEW n \in ProfileCall, call[c].pc = "saving",
         n.pc \in {"idle", "applied"}, Applied(c, n), UNCHANGED told,
         accountFaults' \in {accountFaults, accountFaults + 1}
  PROVE  AccountsInv'
<1> PICK s, seen, old : s = call[c].save /\ seen = call[c].seen /\ old = row
  OBVIOUS
<1> PICK patch : patch = Patch(s, seen)
  OBVIOUS
<1> PICK at : at = commits + 1
  OBVIOUS
<1> PICK strayed : strayed = {b \in Bios \cap (DOMAIN s.fields \ patch) : old.text[b] # seen.text[b]}
  OBVIOUS
<1>1. /\ s \in Requests /\ seen \in ProfileRow /\ old \in ProfileRow
      /\ commits \in Nat /\ at \in Nat /\ accountFaults \in Nat
  BY DEF AccountsInv, AccountTypes, ProfileCall
<1>2. /\ patch \subseteq DOMAIN s.fields
      /\ \A b \in Bios : b \in DOMAIN s.fields \ patch => s.fields[b] = seen.text[b]
  BY DEF Patch, Has, Value, Same
<1>3. \A f \in ProfileFields : f \in DOMAIN s.fields => s.fields[f] = Value(s, f) /\ Value(s, f) \in Values
  <2> SUFFICES ASSUME NEW f \in DOMAIN s.fields PROVE s.fields[f] \in Values
    BY DEF Value
  <2> QED BY <1>1 DEF Values
<1>4. /\ row'.there = TRUE
      /\ row'.text = [f \in ProfileFields |-> IF f \in patch THEN Value(s, f) ELSE old.text[f]]
      /\ row'.mark = [b \in Bios |-> IF b \in patch THEN MarkedByMachine(s, b, old.mark[b]) ELSE old.mark[b]]
      /\ row'.at = [b \in Bios |->
                      IF Synced(s) \/ (b \in patch /\ Value(s, b) # old.text[b]) THEN at ELSE old.at[b]]
      /\ row' = [there |-> row'.there, text |-> row'.text, mark |-> row'.mark, at |-> row'.at]
  BY DEF Applied, Patched
<1>5. /\ commits' = at
      /\ last' = [f \in ProfileFields |-> IF f \in DOMAIN s.fields THEN s.fields[f] ELSE last[f]]
      /\ crossedBios' = (crossedBios \ patch) \cup strayed
      /\ sentAs' = sentAs \cup {<<b, s.fields[b], b \in s.marked /\ s.fields[b] # 0>> :
                                   b \in Bios \cap DOMAIN s.fields}
      /\ agreed' = IF Bios \subseteq DOMAIN s.fields
                   THEN agreed \cup {[at |-> at, text |-> [b \in Bios |-> s.fields[b]], strayed |-> strayed]}
                   ELSE agreed
      /\ call' = [d \in ProfileCalls |->
           IF d = c THEN n
           ELSE IF call[d].pc \in {"applied", "reading", "answered"} THEN [call[d] EXCEPT !.stirred = TRUE]
           ELSE call[d]]
  BY DEF Applied, RememberSave, Strayed
\* A text that is not written is the one it was read as, or strays.
<1>6. /\ \A f \in ProfileFields : f \in patch => row'.text[f] = s.fields[f]
      /\ \A f \in ProfileFields : f \notin patch => row'.text[f] = old.text[f]
  BY <1>2, <1>3, <1>4
<1>7. \A b \in Bios : b \in DOMAIN s.fields /\ b \notin strayed => row'.text[b] = s.fields[b]
  BY <1>2, <1>6, BiosAre
<1>8. AccountTypes'
  <2>1. row' \in ProfileRow
    <3>9. old.text \in [ProfileFields -> Values]
      BY <1>1 DEF ProfileRow
    <3>1. row'.text \in [ProfileFields -> Values]
      BY <1>2, <1>3, <1>4, <3>9
    <3>4. old.mark \in [Bios -> BOOLEAN] /\ old.at \in [Bios -> Nat]
      BY <1>1 DEF ProfileRow
    <3>5. \A b \in Bios : MarkedByMachine(s, b, old.mark[b]) \in BOOLEAN
      <4> SUFFICES ASSUME NEW b \in Bios PROVE MarkedByMachine(s, b, old.mark[b]) \in BOOLEAN
        OBVIOUS
      <4>1. old.mark[b] \in BOOLEAN
        BY <3>4
      <4> QED BY ONLY <4>1, Zenon DEF MarkedByMachine
    <3>2. row'.mark \in [Bios -> BOOLEAN]
      BY <1>4, <3>4, <3>5
    <3>3. row'.at \in [Bios -> Nat]
      BY <1>1, <1>4, <3>4
    <3>6. PICK tt, mm, aa : tt = row'.text /\ mm = row'.mark /\ aa = row'.at
      OBVIOUS
    <3>7. [there |-> TRUE, text |-> tt, mark |-> mm, at |-> aa] \in ProfileRow
      BY <3>1, <3>2, <3>3, <3>6 DEF ProfileRow
    <3>8. row' = [there |-> TRUE, text |-> tt, mark |-> mm, at |-> aa]
      BY <1>4, <3>6
    <3> QED BY <3>7, <3>8
  <2>2. ASSUME NEW d \in ProfileCalls PROVE call'[d] \in ProfileCall
    <3> PICK o : o = call[d]
      OBVIOUS
    <3> PICK m : m = [o EXCEPT !.stirred = TRUE]
      OBVIOUS
    <3>1. o \in ProfileCall
      BY DEF AccountsInv, AccountTypes
    <3>2. m \in ProfileCall
      BY <3>1 DEF ProfileCall
    <3> QED BY <1>5, <3>1, <3>2
  <2> QED BY <1>1, <1>5, <2>1, <2>2 DEF AccountsInv, AccountTypes
<1>9. \A d \in ProfileCalls \ {c} :
         /\ call'[d].pc = call[d].pc /\ call'[d].left = call[d].left /\ call'[d].core = call[d].core
         /\ call[d].pc \in {"reading", "answered"} => call'[d].stirred
  <2> SUFFICES ASSUME NEW d \in ProfileCalls \ {c}
               PROVE  /\ call'[d].pc = call[d].pc /\ call'[d].left = call[d].left /\ call'[d].core = call[d].core
                      /\ call[d].pc \in {"reading", "answered"} => call'[d].stirred
    OBVIOUS
  <2> PICK o : o = call[d]
    OBVIOUS
  <2> PICK m : m = [o EXCEPT !.stirred = TRUE]
    OBVIOUS
  <2>1. m.pc = o.pc /\ m.left = o.left /\ m.core = o.core /\ m.stirred = TRUE
    BY DEF AccountsInv, AccountTypes, ProfileCall
  <2>2. call'[d] = IF o.pc \in {"applied", "reading", "answered"} THEN m ELSE o
    BY <1>5
  <2> QED BY <2>1, <2>2
<1>10. call'[c] = n
  BY <1>5
<1>11. AnnouncedByOne'
  <2>1. row.there /\ row'.there /\ (accountFaults' = 0 => accountFaults = 0)
    BY <1>1, <1>4 DEF AccountsInv, AnnouncedByOne
  <2>2. \A d \in ProfileCalls : Announcing(d)' <=> Announcing(d)
    BY <1>9, <1>10 DEF Announcing
  <2> QED BY <1>9, <1>10, <2>1, <2>2 DEF AccountsInv, AnnouncedByOne, Announcing
<1>12. Stamped'
  BY <1>1, <1>4, <1>5 DEF AccountsInv, Stamped, ProfileRow
<1>13. LastSaveHolds'
  <2> SUFFICES ASSUME NEW f \in ProfileFields, f \notin crossedBios' PROVE row'.text[f] = last'[f]
    BY DEF LastSaveHolds
  <2>1. CASE f \in DOMAIN s.fields
    <3>1. f \notin patch => f \in Bios
      BY <2>1 DEF Patch, Has
    <3>2. f \notin strayed
      BY <1>5
    <3> QED BY <1>5, <1>6, <1>7, <2>1, <3>1, <3>2
  <2>2. CASE f \notin DOMAIN s.fields
    <3>1. f \notin patch /\ f \notin crossedBios
      BY <1>2, <1>5, <2>2
    <3> QED BY <1>5, <1>6, <2>2, <3>1 DEF AccountsInv, LastSaveHolds
  <2> QED BY <2>1, <2>2
<1>14. TextsKeepTheirMark'
  <2> SUFFICES ASSUME NEW b \in Bios, b \notin crossedBios' PROVE <<b, row'.text[b], row'.mark[b]>> \in sentAs'
    BY DEF TextsKeepTheirMark
  <2>1. CASE b \in patch
    <3>1. b \in DOMAIN s.fields /\ row'.text[b] = s.fields[b] /\ Value(s, b) = s.fields[b]
      BY <1>2, <1>3, <1>6, <2>1, BiosAre
    <3>2. row'.mark[b] = (b \in s.marked /\ s.fields[b] # 0)
      BY <1>4, <2>1, <3>1 DEF MarkedByMachine
    <3> QED BY <1>5, <3>1, <3>2
  <2>2. CASE b \notin patch
    <3>1. row'.text[b] = old.text[b] /\ row'.mark[b] = old.mark[b] /\ b \notin crossedBios
      BY <1>4, <1>5, <1>6, <2>2, BiosAre
    <3> QED BY <1>5, <3>1 DEF AccountsInv, TextsKeepTheirMark
  <2> QED BY <2>1, <2>2
<1>15. StepMeansTogether'
  <2> SUFFICES ASSUME row'.at["en"] = row'.at["zh"], row'.at["en"] # 0
               PROVE  \E save \in agreed' :
                        /\ save.at = row'.at["en"]
                        /\ \A b \in Bios \ save.strayed : row'.text[b] = save.text[b]
    BY DEF StepMeansTogether
  <2>1. \A b \in Bios : old.at[b] \in Nat /\ old.at[b] # at
    BY <1>1 DEF AccountsInv, Stamped, ProfileRow
  <2>2. CASE row'.at["en"] = at
    <3>1. Bios \subseteq DOMAIN s.fields
      BY <1>2, <1>4, <2>1, <2>2, BiosAre DEF Synced
    <3> PICK save : save = [at |-> at, text |-> [b \in Bios |-> s.fields[b]], strayed |-> strayed]
      OBVIOUS
    <3>2. /\ save \in agreed' /\ save.at = at /\ save.strayed = strayed
          /\ \A b \in Bios : save.text[b] = s.fields[b]
      BY <1>5, <3>1
    <3>3. \A b \in Bios \ save.strayed : row'.text[b] = save.text[b]
      BY <1>7, <3>1, <3>2
    <3> QED BY <2>2, <3>2, <3>3
  <2>3. CASE row'.at["en"] # at
    <3>1. \A b \in Bios : row'.at[b] = old.at[b] /\ (b \in patch => Value(s, b) = old.text[b])
      BY <1>4, <2>3, BiosAre
    <3>2. \A b \in Bios : row'.text[b] = old.text[b]
      BY <1>4, <3>1, BiosAre
    <3>3. PICK save \in agreed : /\ save.at = old.at["en"]
                                 /\ \A b \in Bios \ save.strayed : old.text[b] = save.text[b]
      BY <3>1, BiosAre DEF AccountsInv, StepMeansTogether
    <3>4. save \in agreed'
      BY <1>5
    <3> QED BY <3>1, <3>2, <3>3, <3>4, BiosAre
  <2> QED BY <2>2, <2>3
<1>16. Current'
  BY <1>9, <1>10 DEF Current
<1> QED BY <1>8, <1>11, <1>12, <1>13, <1>14, <1>15, <1>16 DEF AccountsInv

LEMMA ApplyHolds ==
  ASSUME AccountsInv, NEW c \in ProfileCalls, Apply(c) \/ ApplyLost(c)
  PROVE  AccountsInv'
<1> PICK o, b : o = call[c] /\ b = NoCall
  OBVIOUS
<1> PICK n : n = [o EXCEPT !.pc = "applied"]
  OBVIOUS
<1>1. o \in ProfileCall /\ b \in ProfileCall /\ b.pc = "idle"
  BY NoCallIs DEF AccountsInv, AccountTypes
<1>2. n \in ProfileCall /\ n.pc = "applied"
  BY <1>1 DEF ProfileCall
<1>3. CASE Apply(c)
  <2>1. call[c].pc = "saving" /\ Applied(c, n) /\ UNCHANGED <<told, accountFaults>>
    BY <1>3 DEF Apply
  <2> QED BY <1>2, <2>1, AppliedHolds
<1>4. CASE ApplyLost(c)
  <2>1. call[c].pc = "saving" /\ Applied(c, b) /\ UNCHANGED told /\ accountFaults' = accountFaults + 1
    BY <1>4 DEF ApplyLost, AccountFault
  <2> QED BY <1>1, <2>1, AppliedHolds
<1> QED BY <1>3, <1>4

\* Every step keeps it, whatever request takes it.
LEMMA AccountsStep == AccountsInv /\ [AccountsNext]_accountVars => AccountsInv'
<1> SUFFICES ASSUME AccountsInv, [AccountsNext]_accountVars PROVE AccountsInv'
  OBVIOUS
<1>1. CASE UNCHANGED accountVars
  BY <1>1 DEF accountVars, AccountsInv, AccountTypes, AnnouncedByOne, Announcing, Stamped, LastSaveHolds,
       TextsKeepTheirMark, StepMeansTogether, Current
<1>2. CASE AccountsNext
  BY <1>2, LookHolds, InsertHolds, InsertLostHolds, ApplyHolds, RefuseSaveHolds, ReadAgainHolds,
     AnswerProfileHolds, ReturnedHolds, BeginSaveHolds, ListAdminsHolds, MailAdminHolds DEF AccountsNext
<1> QED BY <1>1, <1>2

\* It is stronger than what the run checks.
LEMMA AccountsFit == AccountsInv => AccountsHold
<1> SUFFICES ASSUME AccountsInv PROVE AccountsHold
  OBVIOUS
<1>1. ToldOnce
  BY DEF AccountsInv, AccountTypes, AnnouncedByOne, Announcing, ToldOnce
<1>2. AnswersAreCurrent
  BY DEF AccountsInv, Current, AnswersAreCurrent
<1> QED BY <1>1, <1>2 DEF AccountsInv, AccountsHold

\* A first save makes one profile, announced at most once to each administrator, and a save
\* keeps what it was not about.
THEOREM AccountsKept == AccountsSpec => []AccountsHold
BY InitAccounts, AccountsStep, AccountsFit, PTL DEF AccountsSpec

------------------------------------------------------------------------------

(***************************************************************************)
(* AuthEmails: for any calls, payloads, addresses and bounds (MailBounds:  *)
(* two attempts of the hook and the pause between them fit the five        *)
(* seconds, and the two hashes of a change of address differ).  An email   *)
(* says of itself how often the provider may have accepted it (`lost`),    *)
(* and what was told of it is of an email that is settled (Told).          *)
(***************************************************************************)
\* What an email is addressed to, and the links it may have.
Texts == {Absent} \cup UNION {{p.email, p.new, p.old, p.hash, p.hashNew} : p \in Payloads}
Outcomes == {"sent", "failed", "skipped"}
Email ==
  [pc : {"idle", "ready", "trying", "audit", "log", "done"}, to : Texts, link : Texts,
   tries : Nat, elapsed : Nat, lost : Nat, outcome : Outcomes \cup {"none"}]
HookCall ==
  [pc : {"idle", "refused", "sending", "ok", "error"} \cup Outcomes, mode : {"none", "sync", "background"},
   payload : Payloads \cup {NoPayload}, count : {0, 1, 2}]
MailTypes ==
  /\ hookCall \in [HookCalls -> HookCall] /\ mail \in [HookCalls -> [Positions -> Email]]
  /\ inbox \in [HookCalls -> [Positions -> Nat]] /\ configured \in BOOLEAN /\ mailFaults \in Nat

\* What a call has sent is what its payload calls for.
AsPlanned(c) ==
  /\ hookCall[c].mode = "none" => \A n \in Positions : mail[c][n] = NoEmail
  /\ hookCall[c].mode = "sync" =>
       LET plan == Planned(hookCall[c].payload) IN
       /\ hookCall[c].payload \in Payloads /\ Addressed(hookCall[c].payload)
       /\ hookCall[c].count = Len(plan)
       /\ \A n \in Positions : mail[c][n].pc # "idle" =>
            n \in 1 .. Len(plan) /\ mail[c][n].to = plan[n].to /\ mail[c][n].link = plan[n].link
  /\ hookCall[c].mode = "background" => \A n \in Positions : mail[c][n].link = Absent
\* Where a call is.
Progress(c) ==
  /\ hookCall[c].pc \in {"idle", "refused"} <=> hookCall[c].mode = "none"
  /\ hookCall[c].pc = "ok" => hookCall[c].mode = "sync" /\ Settled(c)
\* What the provider accepted of an email, i times, is what it says of itself.
Accepted(e, i) ==
  /\ e.pc \in {"idle", "ready"} => i = 0 /\ e.tries = 0 /\ e.elapsed = 0 /\ e.lost = 0
  /\ e.pc = "trying" => i = e.lost
  /\ e.pc = "audit" => e.outcome = "failed"
  /\ e.pc \in {"audit", "log", "done"} =>
       /\ e.outcome \in Outcomes
       /\ e.outcome = "sent" => i = e.lost + 1
       /\ e.outcome = "failed" => i = e.lost
       /\ e.outcome = "skipped" => i = 0 /\ e.lost = 0
\* The time an email of the hook has taken: at most two attempts, and a pause between them.
InTime(e) ==
  /\ e.tries \in {0, 1, 2}
  /\ e.pc = "trying" => e.tries # 2
  /\ e.tries = 0 => e.elapsed = 0
  /\ e.tries = 1 => e.elapsed <= Timeout.sync + 1
  /\ e.tries = 2 => e.elapsed <= 2 * Timeout.sync + 1
EmailsHold ==
  \A c \in HookCalls : \A n \in Positions :
    /\ Accepted(mail[c][n], inbox[c][n])
    /\ hookCall[c].mode = "sync" => InTime(mail[c][n])
\* What the log and the audit say is settled, and they say all unless a write failed.
Told ==
  /\ \A line \in log : /\ line.call \in HookCalls /\ line.n \in Positions
                       /\ mail[line.call][line.n].pc = "done"
                       /\ line.status = mail[line.call][line.n].outcome
  /\ \A c \in HookCalls : \A n \in Positions :
       /\ <<c, n>> \in audit => mail[c][n].pc \in {"log", "done"} /\ mail[c][n].outcome = "failed"
       /\ mailFaults = 0 /\ mail[c][n].pc \in {"log", "done"} /\ mail[c][n].outcome = "failed"
            => <<c, n>> \in audit
       /\ mailFaults = 0 /\ mail[c][n].pc = "done" => \E line \in log : line.call = c /\ line.n = n
MailInv ==
  MailTypes /\ (\A c \in HookCalls : AsPlanned(c) /\ Progress(c)) /\ EmailsHold /\ Told

\* A plan is one email or two, and its links are those of the payload.
LEMMA PlanIs ==
  ASSUME NEW p \in Payloads
  PROVE  /\ Len(Planned(p)) \in {1, 2}
         /\ \A n \in 1 .. Len(Planned(p)) : Planned(p)[n].to \in Texts /\ Planned(p)[n].link \in Texts
<1>1. \A x \in {p.email, p.new, p.old, p.hash, p.hashNew, Absent} : x \in Texts
  BY DEF Texts
<1>2. \/ \E to, link \in Texts : Planned(p) = <<MailTo(to, link)>>
      \/ \E to, link, too, other \in Texts : Planned(p) = <<MailTo(to, link), MailTo(too, other)>>
  BY <1>1 DEF Planned, PlanEmailChange
<1>3. CASE \E to, link \in Texts : Planned(p) = <<MailTo(to, link)>>
  BY <1>3 DEF MailTo
<1>4. CASE \E to, link, too, other \in Texts : Planned(p) = <<MailTo(to, link), MailTo(too, other)>>
  BY <1>4 DEF MailTo
<1> QED BY <1>2, <1>3, <1>4

LEMMA InitMail == MailInit => MailInv
<1> SUFFICES ASSUME MailInit PROVE MailInv
  OBVIOUS
<1>1. /\ configured \in BOOLEAN /\ hookCall = [c \in HookCalls |-> NotCalled]
      /\ mail = [c \in HookCalls |-> [n \in Positions |-> NoEmail]]
      /\ inbox = [c \in HookCalls |-> [n \in Positions |-> 0]]
      /\ log = {} /\ audit = {} /\ mailFaults = 0
  BY DEF MailInit
<1>2. NotCalled \in HookCall /\ NoEmail \in Email
  BY DEF NotCalled, HookCall, NoEmail, Email, Texts
<1>3. NotCalled.pc = "idle" /\ NotCalled.mode = "none" /\ NoEmail.pc = "idle"
  BY DEF NotCalled, NoEmail
<1>4. Accepted(NoEmail, 0)
  BY DEF Accepted, NoEmail
<1>5. MailTypes
  BY <1>1, <1>2 DEF MailTypes
<1>6. \A c \in HookCalls : AsPlanned(c) /\ Progress(c)
  BY <1>1, <1>3 DEF AsPlanned, Progress
<1>7. EmailsHold /\ Told
  BY <1>1, <1>3, <1>4 DEF EmailsHold, Told
<1> QED BY <1>5, <1>6, <1>7 DEF MailInv

\* One email moves: what has to be shown of it.
LEMMA EmailMoves ==
  ASSUME MailInv, NEW c \in HookCalls, NEW n \in Positions, NEW e \in Email, NEW i \in Nat,
         Moved(c, n, e), inbox' = [inbox EXCEPT ![c][n] = i], UNCHANGED hookCall,
         mail[c][n].pc \notin {"idle", "done"}, e.pc # "idle",
         e.to = mail[c][n].to, e.link = mail[c][n].link,
         Accepted(e, i), hookCall[c].mode = "sync" => InTime(e),
         mailFaults' \in Nat, configured' \in BOOLEAN, Told'
  PROVE  MailInv'
<1>1. /\ hookCall \in [HookCalls -> HookCall] /\ mail \in [HookCalls -> [Positions -> Email]]
      /\ inbox \in [HookCalls -> [Positions -> Nat]]
  BY DEF MailInv, MailTypes
<1>2. /\ mail' \in [HookCalls -> [Positions -> Email]] /\ inbox' \in [HookCalls -> [Positions -> Nat]]
      /\ mail'[c][n] = e /\ inbox'[c][n] = i
      /\ \A d \in HookCalls, k \in Positions :
           ~(d = c /\ k = n) => mail'[d][k] = mail[d][k] /\ inbox'[d][k] = inbox[d][k]
  BY <1>1 DEF Moved
<1>3. MailTypes'
  BY <1>1, <1>2 DEF MailInv, MailTypes
<1>4. ASSUME NEW d \in HookCalls PROVE AsPlanned(d)'
  <2>1. AsPlanned(d) /\ AsPlanned(c)
    BY DEF MailInv
  <2>2. mail[c][n] # NoEmail
    BY DEF NoEmail
  <2>3. CASE d # c
    <3>1. \A k \in Positions : mail'[d][k] = mail[d][k]
      BY <1>2, <2>3
    <3> QED BY <2>1, <3>1 DEF AsPlanned
  <2>4. CASE d = c
    <3>1. CASE hookCall[c].mode = "none"
      BY <2>1, <2>2, <3>1 DEF AsPlanned
    <3>2. CASE hookCall[c].mode = "background"
      <4>1. \A k \in Positions : mail'[c][k].link = Absent
        BY <1>2, <2>1, <3>2 DEF AsPlanned
      <4> QED BY <2>4, <3>2, <4>1 DEF AsPlanned
    <3>3. CASE hookCall[c].mode = "sync"
      <4> PICK plan : plan = Planned(hookCall[c].payload)
        OBVIOUS
      <4>1. /\ hookCall[c].payload \in Payloads /\ hookCall[c].count = Len(plan)
            /\ Addressed(hookCall[c].payload)
            /\ \A k \in Positions : mail[c][k].pc # "idle" =>
                  k \in 1 .. Len(plan) /\ mail[c][k].to = plan[k].to /\ mail[c][k].link = plan[k].link
        BY <2>1, <3>3 DEF AsPlanned
      <4>2. \A k \in Positions : mail'[c][k].pc # "idle" =>
                  k \in 1 .. Len(plan) /\ mail'[c][k].to = plan[k].to /\ mail'[c][k].link = plan[k].link
        BY <1>2, <4>1
      <4> QED BY <2>4, <3>3, <4>1, <4>2 DEF AsPlanned
    <3>4. hookCall[c].mode \in {"none", "sync", "background"}
      BY <1>1 DEF HookCall
    <3> QED BY <3>1, <3>2, <3>3, <3>4
  <2> QED BY <2>3, <2>4
<1>5. ASSUME NEW d \in HookCalls PROVE Progress(d)'
  <2>1. Progress(d)
    BY DEF MailInv
  <2>2. hookCall[d].count \in {0, 1, 2} /\ Sent(d) \subseteq Positions
    BY <1>1 DEF HookCall, Sent, Positions
  <2>3. Settled(d) => Settled(d)'
    BY <1>2, <2>2 DEF Settled, Sent
  <2> QED BY <2>1, <2>3 DEF Progress
<1>6. EmailsHold'
  BY <1>2 DEF MailInv, EmailsHold
<1> QED BY <1>3, <1>4, <1>5, <1>6 DEF MailInv

\* What is not settled yet is not in the log.
LEMMA NotToldYet ==
  ASSUME MailInv, NEW c \in HookCalls, NEW n \in Positions, NEW e \in Email,
         Moved(c, n, e), UNCHANGED <<log, audit, mailFaults>>,
         mail[c][n].pc \in {"ready", "trying"}, e.pc \in {"ready", "trying", "audit", "log"},
         e.pc = "log" => e.outcome # "failed"
  PROVE  Told'
<1>1. mail \in [HookCalls -> [Positions -> Email]]
  BY DEF MailInv, MailTypes
<1>2. /\ mail'[c][n] = e
      /\ \A d \in HookCalls, k \in Positions : ~(d = c /\ k = n) => mail'[d][k] = mail[d][k]
  BY <1>1 DEF Moved
<1>3. Told
  BY DEF MailInv
<1>4. <<c, n>> \notin audit /\ \A line \in log : ~(line.call = c /\ line.n = n)
  BY <1>3 DEF Told
<1>5. \A line \in log : /\ line.call \in HookCalls /\ line.n \in Positions
                        /\ mail'[line.call][line.n].pc = "done"
                        /\ line.status = mail'[line.call][line.n].outcome
  BY <1>2, <1>3, <1>4 DEF Told
<1>6. ASSUME NEW d \in HookCalls, NEW k \in Positions
      PROVE  /\ <<d, k>> \in audit => mail'[d][k].pc \in {"log", "done"} /\ mail'[d][k].outcome = "failed"
             /\ mailFaults = 0 /\ mail'[d][k].pc \in {"log", "done"} /\ mail'[d][k].outcome = "failed"
                  => <<d, k>> \in audit
             /\ mailFaults = 0 /\ mail'[d][k].pc = "done" => \E line \in log : line.call = d /\ line.n = k
  <2>1. CASE d = c /\ k = n
    BY <1>2, <1>4, <2>1
  <2>2. CASE ~(d = c /\ k = n)
    BY <1>2, <1>3, <2>2 DEF Told
  <2> QED BY <2>1, <2>2
<1> QED BY <1>5, <1>6 DEF Told

LEMMA StartHolds ==
  ASSUME MailInv, NEW c \in HookCalls, hookCall[c].pc = "idle", NEW mode \in {"sync", "background"},
         NEW p \in Payloads, NEW emails, Len(emails) \in {1, 2},
         \A n \in 1 .. Len(emails) : emails[n].to \in Texts /\ emails[n].link \in Texts,
         mode = "sync" => emails = Planned(p) /\ Addressed(p),
         mode = "background" => \A n \in 1 .. Len(emails) : emails[n].link = Absent,
         Started(c, mode, p, emails), UNCHANGED <<configured, inbox, log, audit, mailFaults>>
  PROVE  MailInv'
<1>a. PICK size : size = Len(emails)
  OBVIOUS
<1>b. PICK begun : begun = [pc |-> "sending", mode |-> mode, payload |-> p, count |-> size]
  OBVIOUS
<1>c. PICK sends : sends = [n \in Positions |->
       IF n > Len(emails) THEN NoEmail
       ELSE [NoEmail EXCEPT !.pc = "ready", !.to = emails[n].to, !.link = emails[n].link]]
  OBVIOUS
<1>1. /\ hookCall \in [HookCalls -> HookCall] /\ mail \in [HookCalls -> [Positions -> Email]]
      /\ inbox \in [HookCalls -> [Positions -> Nat]] /\ AsPlanned(c) /\ Progress(c)
  BY DEF MailInv, MailTypes
<1>2. begun \in HookCall
  BY <1>a, <1>b DEF HookCall
<1>3. ASSUME NEW n \in Positions
      PROVE  /\ sends[n] \in Email /\ sends[n].outcome = "none" /\ sends[n].pc \in {"idle", "ready"}
             /\ sends[n].tries = 0 /\ sends[n].elapsed = 0 /\ sends[n].lost = 0
             /\ sends[n].pc # "idle" => n \in 1 .. size /\ sends[n].to = emails[n].to /\ sends[n].link = emails[n].link
             /\ mode = "background" => sends[n].link = Absent
  <2>1. NoEmail \in Email /\ NoEmail.link = Absent /\ NoEmail.pc = "idle"
    BY DEF NoEmail, Email, Texts
  <2>2. CASE n > size
    <3>1. sends[n] = NoEmail
      BY <1>a, <1>c, <2>2
    <3> QED BY <2>1, <3>1 DEF NoEmail
  <2>3. CASE ~(n > size)
    <3>1. n \in 1 .. size
      BY <1>a, <2>3 DEF Positions
    <3>0. PICK to, link : to = emails[n].to /\ link = emails[n].link
      OBVIOUS
    <3>2. to \in Texts /\ link \in Texts /\ (mode = "background" => link = Absent)
      BY <1>a, <3>1, <3>0
    <3>3. sends[n] = [NoEmail EXCEPT !.pc = "ready", !.to = to, !.link = link]
      BY <1>a, <1>c, <2>3, <3>0
    <3> QED BY <3>0, <3>1, <3>2, <3>3, <2>1 DEF NoEmail, Email
  <2> QED BY <2>2, <2>3
<1>d. PICK none : none = NoEmail
  OBVIOUS
<1>n. none.pc = "idle"
  BY <1>d DEF NoEmail
<1>4. hookCall[c].mode = "none" /\ \A n \in Positions : mail[c][n] = none
  BY <1>1, <1>d DEF Progress, AsPlanned
<1>5. /\ hookCall' \in [HookCalls -> HookCall] /\ mail' \in [HookCalls -> [Positions -> Email]]
      /\ hookCall'[c] = begun /\ mail'[c] = sends
      /\ \A d \in HookCalls : d # c => hookCall'[d] = hookCall[d] /\ mail'[d] = mail[d]
  <2>1. hookCall' = [hookCall EXCEPT ![c] = begun] /\ mail' = [mail EXCEPT ![c] = sends]
    BY <1>a, <1>b, <1>c DEF Started
  <2>2. sends \in [Positions -> Email]
    BY <1>c, <1>3
  <2> QED BY <1>1, <1>2, <2>1, <2>2
<1>6. /\ begun.pc = "sending" /\ begun.mode = mode /\ begun.payload = p /\ begun.count = size
  BY <1>b
<1>7. \A n \in Positions : inbox[c][n] = 0
  <2> SUFFICES ASSUME NEW n \in Positions PROVE inbox[c][n] = 0
    OBVIOUS
  <2>1. Accepted(mail[c][n], inbox[c][n])
    BY DEF MailInv, EmailsHold
  <2>2. mail[c][n].pc = "idle"
    BY <1>4, <1>n
  <2> QED BY <2>1, <2>2 DEF Accepted
<1>8. AsPlanned(c)'
  <2>1. /\ hookCall'[c].mode = mode /\ hookCall'[c].payload = p /\ hookCall'[c].count = size
        /\ \A n \in Positions : mail'[c][n] = sends[n]
    BY <1>5, <1>6
  <2>2. CASE mode = "sync"
    <3>0. PICK plan : plan = Planned(p)
      OBVIOUS
    <3>1. plan = emails /\ size = Len(plan) /\ Addressed(p)
      BY <1>a, <2>2, <3>0
    <3>2. \A n \in Positions : mail'[c][n].pc # "idle" =>
              n \in 1 .. Len(plan) /\ mail'[c][n].to = plan[n].to /\ mail'[c][n].link = plan[n].link
      BY <1>3, <2>1, <3>1
    <3> QED BY <2>1, <2>2, <3>0, <3>1, <3>2 DEF AsPlanned
  <2>3. CASE mode = "background"
    BY <1>3, <2>1, <2>3 DEF AsPlanned
  <2> QED BY <2>2, <2>3
<1>9. ASSUME NEW d \in HookCalls PROVE AsPlanned(d)' /\ Progress(d)'
  <2>1. CASE d = c
    BY <1>5, <1>6, <1>8, <2>1 DEF Progress
  <2>2. CASE d # c
    <3>1. AsPlanned(d) /\ Progress(d)
      BY DEF MailInv
    <3>2. hookCall'[d] = hookCall[d] /\ mail'[d] = mail[d]
      BY <1>5, <2>2
    <3>3. AsPlanned(d)'
      BY <3>1, <3>2 DEF AsPlanned
    <3>4. Progress(d)'
      BY <3>1, <3>2 DEF Progress, Settled, Sent
    <3> QED BY <3>3, <3>4
  <2> QED BY <2>1, <2>2
<1>10. EmailsHold'
  <2> SUFFICES ASSUME NEW d \in HookCalls, NEW n \in Positions
               PROVE  /\ Accepted(mail'[d][n], inbox[d][n])
                      /\ hookCall'[d].mode = "sync" => InTime(mail'[d][n])
    BY DEF EmailsHold
  <2>1. CASE d = c
    <3>0. PICK e : e = sends[n]
      OBVIOUS
    <3>1. /\ e.pc \in {"idle", "ready"} /\ e.tries = 0 /\ e.elapsed = 0 /\ e.lost = 0
          /\ mail'[d][n] = e /\ inbox[d][n] = 0
      BY <1>3, <1>5, <1>7, <2>1, <3>0
    <3>2. Accepted(e, 0) /\ InTime(e)
      BY <3>1 DEF Accepted, InTime
    <3> QED BY <3>1, <3>2
  <2>2. CASE d # c
    BY <1>5, <2>2 DEF MailInv, EmailsHold
  <2> QED BY <2>1, <2>2
<1>11. Told'
  <2>1. Told
    BY DEF MailInv
  <2>2. \A n \in Positions : mail[c][n].pc = "idle" /\ mail'[c][n].pc \in {"idle", "ready"}
    <3> SUFFICES ASSUME NEW n \in Positions
                 PROVE  mail[c][n].pc = "idle" /\ mail'[c][n].pc \in {"idle", "ready"}
      OBVIOUS
    <3>1. mail[c][n].pc = "idle"
      BY <1>4, <1>n
    <3>2. mail'[c][n] = sends[n] /\ sends[n].pc \in {"idle", "ready"}
      BY <1>3, <1>5
    <3> QED BY <3>1, <3>2
  <2>3. \A line \in log : line.call # c
    BY <2>1, <2>2 DEF Told
  <2>4. \A n \in Positions : <<c, n>> \notin audit
    BY <2>1, <2>2 DEF Told
  <2>5. \A line \in log : /\ line.call \in HookCalls /\ line.n \in Positions
                          /\ mail'[line.call][line.n].pc = "done"
                          /\ line.status = mail'[line.call][line.n].outcome
    <3> SUFFICES ASSUME NEW line \in log
                 PROVE  /\ line.call \in HookCalls /\ line.n \in Positions
                        /\ mail'[line.call][line.n].pc = "done"
                        /\ line.status = mail'[line.call][line.n].outcome
      OBVIOUS
    <3>1. /\ line.call \in HookCalls /\ line.n \in Positions /\ line.call # c
          /\ mail[line.call][line.n].pc = "done" /\ line.status = mail[line.call][line.n].outcome
      BY <2>1, <2>3 DEF Told
    <3>2. mail'[line.call] = mail[line.call]
      BY <1>5, <3>1
    <3> QED BY <3>1, <3>2
  <2>6. ASSUME NEW d \in HookCalls, NEW k \in Positions
        PROVE  /\ <<d, k>> \in audit => mail'[d][k].pc \in {"log", "done"} /\ mail'[d][k].outcome = "failed"
               /\ mailFaults = 0 /\ mail'[d][k].pc \in {"log", "done"} /\ mail'[d][k].outcome = "failed"
                    => <<d, k>> \in audit
               /\ mailFaults = 0 /\ mail'[d][k].pc = "done" => \E line \in log : line.call = d /\ line.n = k
    <3>1. CASE d = c
      BY <2>2, <2>4, <3>1
    <3>2. CASE d # c
      <4>1. mail'[d] = mail[d]
        BY <1>5, <3>2
      <4> QED BY <2>1, <4>1 DEF Told
    <3> QED BY <3>1, <3>2
  <2>7. UNCHANGED <<log, audit, mailFaults>>
    OBVIOUS
  <2> QED BY <2>5, <2>6, <2>7 DEF Told
<1> QED BY <1>5, <1>9, <1>10, <1>11 DEF MailInv, MailTypes

LEMMA HandleHolds ==
  ASSUME MailInv, NEW c \in HookCalls, NEW p \in Payloads, Handle(c, p)
  PROVE  MailInv'
<1>1. CASE Addressed(p)
  <2>1. Started(c, "sync", p, Planned(p)) /\ hookCall[c].pc = "idle"
    BY <1>1 DEF Handle
  <2>2. UNCHANGED <<configured, inbox, log, audit, mailFaults>>
    BY DEF Handle
  <2> QED BY <1>1, <2>1, <2>2, PlanIs, StartHolds
<1>2. CASE ~Addressed(p)
  <2>1. /\ hookCall' = [hookCall EXCEPT ![c].pc = "refused"] /\ hookCall[c].pc = "idle"
        /\ UNCHANGED <<mail, configured, inbox, log, audit, mailFaults>>
    BY <1>2 DEF Handle
  <2>2. hookCall \in [HookCalls -> HookCall]
    BY DEF MailInv, MailTypes
  <2> PICK r : r = [hookCall[c] EXCEPT !.pc = "refused"]
    OBVIOUS
  <2>3. /\ r \in HookCall /\ r.pc = "refused" /\ r.mode = hookCall[c].mode
        /\ r.payload = hookCall[c].payload /\ r.count = hookCall[c].count
    BY <2>2 DEF HookCall
  <2>4. /\ hookCall' \in [HookCalls -> HookCall] /\ hookCall'[c] = r
        /\ \A d \in HookCalls : d # c => hookCall'[d] = hookCall[d]
    BY <2>1, <2>2, <2>3
  <2>5. ASSUME NEW d \in HookCalls PROVE AsPlanned(d)' /\ Progress(d)'
    <3>1. AsPlanned(d) /\ Progress(d)
      BY DEF MailInv
    <3>2. /\ hookCall'[d].mode = hookCall[d].mode /\ hookCall'[d].payload = hookCall[d].payload
          /\ hookCall'[d].count = hookCall[d].count /\ mail' = mail
      BY <2>1, <2>3, <2>4
    <3>3. AsPlanned(d)'
      BY <3>1, <3>2 DEF AsPlanned
    <3>4. CASE d = c
      <4>1. hookCall'[c].pc = "refused" /\ hookCall'[c].mode = "none"
        BY <2>1, <2>3, <2>4, <3>1, <3>4 DEF Progress
      <4> QED BY <3>3, <3>4, <4>1 DEF Progress
    <3>5. CASE d # c
      <4>1. hookCall'[d] = hookCall[d] /\ mail' = mail
        BY <2>1, <2>4, <3>5
      <4> QED BY <3>1, <3>3, <4>1 DEF Progress, Settled, Sent
    <3> QED BY <3>3, <3>4, <3>5
  <2>6. EmailsHold'
    <3>1. \A d \in HookCalls : hookCall'[d].mode = hookCall[d].mode
      BY <2>3, <2>4
    <3> QED BY <2>1, <3>1 DEF MailInv, EmailsHold
  <2>7. MailTypes' /\ Told'
    BY <2>1, <2>4 DEF MailInv, MailTypes, Told
  <2> QED BY <2>5, <2>6, <2>7 DEF MailInv
<1> QED BY <1>1, <1>2

LEMMA SendInBackgroundHolds ==
  ASSUME MailInv, NEW c \in HookCalls, NEW p \in Payloads, SendInBackground(c, p)
  PROVE  MailInv'
<1> PICK emails : emails = <<MailTo(p.email, Absent)>>
  OBVIOUS
<1>1. Len(emails) = 1 /\ emails[1].to = p.email /\ emails[1].link = Absent
  BY DEF MailTo
<1>2. p.email \in Texts /\ Absent \in Texts
  BY DEF Texts
<1>3. /\ Started(c, "background", p, emails) /\ hookCall[c].pc = "idle"
      /\ UNCHANGED <<configured, inbox, log, audit, mailFaults>>
  BY DEF SendInBackground
<1>4. \A n \in 1 .. Len(emails) : emails[n].to \in Texts /\ emails[n].link \in Texts /\ emails[n].link = Absent
  BY <1>1, <1>2
<1> QED BY <1>1, <1>3, <1>4, StartHolds

LEMMA SkipHolds ==
  ASSUME MailInv, NEW c \in HookCalls, NEW n \in Positions, Skip(c, n)
  PROVE  MailInv'
<1> PICK o, i : o = mail[c][n] /\ i = inbox[c][n]
  OBVIOUS
<1> PICK e : e = [o EXCEPT !.pc = "log", !.outcome = "skipped"]
  OBVIOUS
<1>1. /\ o \in Email /\ i \in Nat /\ inbox \in [HookCalls -> [Positions -> Nat]]
      /\ configured \in BOOLEAN /\ mailFaults \in Nat /\ Accepted(o, i)
      /\ (hookCall[c].mode = "sync" => InTime(o))
  BY DEF MailInv, MailTypes, EmailsHold
<1>2. /\ o.pc = "ready" /\ Moved(c, n, e) /\ UNCHANGED <<configured, hookCall, inbox, log, audit, mailFaults>>
  BY DEF Skip, Step
<1>3. /\ e \in Email /\ e.pc = "log" /\ e.outcome = "skipped" /\ e.to = o.to /\ e.link = o.link
      /\ e.tries = o.tries /\ e.elapsed = o.elapsed /\ e.lost = o.lost
  BY <1>1 DEF Email, Outcomes
<1>4. Accepted(e, i) /\ (hookCall[c].mode = "sync" => InTime(e))
  BY <1>1, <1>2, <1>3 DEF Accepted, InTime, Outcomes
<1>5. Told'
  BY <1>2, <1>3, NotToldYet
<1>6. inbox' = [inbox EXCEPT ![c][n] = i]
  BY <1>1, <1>2
<1>7. mail[c][n].pc \notin {"idle", "done"} /\ e.pc # "idle" /\ e.to = mail[c][n].to /\ e.link = mail[c][n].link
  BY <1>2, <1>3
<1>8. mailFaults' \in Nat /\ configured' \in BOOLEAN /\ UNCHANGED hookCall
  BY <1>1, <1>2
<1>9. Moved(c, n, e) /\ e \in Email /\ i \in Nat
  BY <1>1, <1>2, <1>3
<1> QED BY <1>4, <1>5, <1>6, <1>7, <1>8, <1>9, EmailMoves

LEMMA PrepareHolds ==
  ASSUME MailInv, NEW c \in HookCalls, NEW n \in Positions, NEW ok \in BOOLEAN, Prepare(c, n, ok)
  PROVE  MailInv'
<1> PICK o, i : o = mail[c][n] /\ i = inbox[c][n]
  OBVIOUS
<1>1. /\ o \in Email /\ i \in Nat /\ inbox \in [HookCalls -> [Positions -> Nat]]
      /\ configured \in BOOLEAN /\ mailFaults \in Nat /\ Accepted(o, i)
      /\ (hookCall[c].mode = "sync" => InTime(o))
  BY DEF MailInv, MailTypes, EmailsHold
<1>2. o.pc = "ready" /\ UNCHANGED <<configured, hookCall, inbox, log, audit, mailFaults>>
  BY DEF Prepare
<1>3. PICK e : /\ Moved(c, n, e)
               /\ \/ e = [o EXCEPT !.pc = "trying"]
                  \/ e = [o EXCEPT !.pc = "audit", !.outcome = "failed"] /\ hookCall[c].mode = "background"
  BY DEF Prepare, Step
<1>4. /\ e \in Email /\ e.to = o.to /\ e.link = o.link
      /\ e.tries = o.tries /\ e.elapsed = o.elapsed /\ e.lost = o.lost
      /\ \/ e.pc = "trying"
         \/ e.pc = "audit" /\ e.outcome = "failed"
  BY <1>1, <1>3 DEF Email, Outcomes
<1>5. Accepted(e, i) /\ (hookCall[c].mode = "sync" => InTime(e))
  BY <1>1, <1>2, <1>4 DEF Accepted, InTime, Outcomes
<1>6. Told'
  BY <1>2, <1>3, <1>4, NotToldYet
<1>7. inbox' = [inbox EXCEPT ![c][n] = i]
  BY <1>1, <1>2
<1> QED BY <1>1, <1>2, <1>3, <1>4, <1>5, <1>6, <1>7, EmailMoves

\* What an attempt adds to an email, and to its time.
LEMMA TriedIs ==
  ASSUME MailTypes, NEW c \in HookCalls, NEW n \in Positions, NEW time \in Nat, NEW lost \in {0, 1}
  PROVE  LET o == mail[c][n] e == Tried(c, n, time, lost) IN
         /\ e \in Email /\ e.pc = o.pc /\ e.to = o.to /\ e.link = o.link /\ e.outcome = o.outcome
         /\ e.tries = o.tries + 1 /\ e.elapsed = o.elapsed + time /\ e.lost = o.lost + lost
<1> PICK o : o = mail[c][n]
  OBVIOUS
<1>1. o \in Email
  BY DEF MailTypes
<1> PICK tries, elapsed, gone : tries = o.tries + 1 /\ elapsed = o.elapsed + time /\ gone = o.lost + lost
  OBVIOUS
<1>2. tries \in Nat /\ elapsed \in Nat /\ gone \in Nat
  BY <1>1 DEF Email
<1> PICK e : e = [o EXCEPT !.tries = tries, !.elapsed = elapsed, !.lost = gone]
  OBVIOUS
<1>3. e = Tried(c, n, time, lost)
  BY DEF Tried
<1>4. /\ e \in Email /\ e.pc = o.pc /\ e.to = o.to /\ e.link = o.link /\ e.outcome = o.outcome
      /\ e.tries = tries /\ e.elapsed = elapsed /\ e.lost = gone
  BY <1>1, <1>2 DEF Email
<1> QED BY <1>3, <1>4

LEMMA AcceptHolds ==
  ASSUME MailInv, NEW c \in HookCalls, NEW n \in Positions, Accept(c, n)
  PROVE  MailInv'
<1> PICK o, i, next : o = mail[c][n] /\ i = inbox[c][n] /\ next = Tried(c, n, Quick, 0)
  OBVIOUS
<1> PICK e : e = [next EXCEPT !.pc = "log", !.outcome = "sent"]
  OBVIOUS
<1>1. /\ o \in Email /\ i \in Nat /\ inbox \in [HookCalls -> [Positions -> Nat]]
      /\ configured \in BOOLEAN /\ mailFaults \in Nat /\ Accepted(o, i) /\ MailTypes
      /\ (hookCall[c].mode = "sync" => InTime(o))
  BY DEF MailInv, MailTypes, EmailsHold
<1>2. /\ o.pc = "trying" /\ Moved(c, n, e) /\ inbox' = [inbox EXCEPT ![c][n] = i + 1]
      /\ UNCHANGED <<configured, hookCall, log, audit, mailFaults>>
  BY DEF Accept, Deliver
<1>3. Quick \in Nat /\ Timeout.sync \in Nat /\ Quick <= Timeout.sync
  BY MailBounds
<1>4. /\ next \in Email /\ next.to = o.to /\ next.link = o.link
      /\ next.tries = o.tries + 1 /\ next.elapsed = o.elapsed + Quick /\ next.lost = o.lost
  BY <1>1, <1>3, TriedIs DEF Email
<1>5. /\ e \in Email /\ e.pc = "log" /\ e.outcome = "sent" /\ e.to = o.to /\ e.link = o.link
      /\ e.tries = o.tries + 1 /\ e.elapsed = o.elapsed + Quick /\ e.lost = o.lost
  BY <1>4 DEF Email, Outcomes
<1>6. Accepted(e, i + 1)
  BY <1>1, <1>2, <1>5 DEF Accepted, Outcomes
<1>7. ASSUME hookCall[c].mode = "sync" PROVE InTime(e)
  <2>1. /\ o.tries \in {0, 1} /\ (o.tries = 0 => o.elapsed = 0)
        /\ (o.tries = 1 => o.elapsed <= Timeout.sync + 1)
        /\ o.elapsed \in Nat
    <3>1. InTime(o) /\ o.pc = "trying"
      BY <1>1, <1>2, <1>7
    <3>2. o.elapsed \in Nat
      BY <1>1 DEF Email
    <3> QED BY <3>1, <3>2 DEF InTime
  <2> PICK t, el, s, q : t = o.tries /\ el = o.elapsed /\ s = Timeout.sync /\ q = Quick
    OBVIOUS
  <2>2. CASE t = 0
    BY <1>3, <1>5, <2>1, <2>2 DEF InTime
  <2>3. CASE t = 1
    BY <1>3, <1>5, <2>1, <2>3 DEF InTime
  <2> QED BY <2>1, <2>2, <2>3
<1>8. Told'
  BY <1>2, <1>5, NotToldYet
<1>9. mail[c][n].pc \notin {"idle", "done"} /\ e.pc # "idle" /\ e.to = mail[c][n].to /\ e.link = mail[c][n].link
  BY <1>2, <1>5
<1>10. mailFaults' \in Nat /\ configured' \in BOOLEAN /\ UNCHANGED hookCall /\ i + 1 \in Nat
  BY <1>1, <1>2
<1> QED BY <1>1, <1>2, <1>5, <1>6, <1>7, <1>8, <1>9, <1>10, EmailMoves

\* An attempt that is not answered with an acceptance: i, of which the last may be one.
LEMMA TryAgainHolds ==
  ASSUME MailInv, NEW c \in HookCalls, NEW n \in Positions, mail[c][n].pc = "trying",
         NEW time \in Nat, NEW lost \in {0, 1}, TryAgain(c, n, time, lost),
         hookCall[c].mode = "sync" => time <= Timeout.sync,
         inbox' = [inbox EXCEPT ![c][n] = inbox[c][n] + lost],
         UNCHANGED <<configured, hookCall, log, audit, mailFaults>>
  PROVE  MailInv'
<1> PICK o, i, pause, mode : o = mail[c][n] /\ i = inbox[c][n] /\ pause = Backoff(c, n) /\ mode = hookCall[c].mode
  OBVIOUS
<1>1. /\ o \in Email /\ i \in Nat /\ inbox \in [HookCalls -> [Positions -> Nat]]
      /\ configured \in BOOLEAN /\ mailFaults \in Nat /\ Accepted(o, i) /\ MailTypes
      /\ (mode = "sync" => InTime(o))
  BY DEF MailInv, MailTypes, EmailsHold
<1>2. pause \in Nat /\ (mode = "sync" => pause = IF o.tries = 0 THEN 1 ELSE 0)
  <2>1. o.tries \in Nat
    BY <1>1 DEF Email
  <2>2. pause = IF o.tries + 1 < Attempts(mode) THEN Pause[o.tries + 1] ELSE 0
    BY DEF Backoff
  <2>3. Attempts(mode) \in {2, 3} /\ (mode = "sync" => Attempts(mode) = 2)
    BY DEF Attempts
  <2>4. CASE o.tries \in {0, 1}
    BY <2>1, <2>2, <2>3, <2>4 DEF Pause
  <2>5. CASE o.tries \notin {0, 1}
    BY <2>1, <2>2, <2>3, <2>5
  <2> QED BY <2>4, <2>5
<1> PICK spent, next : spent = time + pause /\ next = Tried(c, n, spent, lost)
  OBVIOUS
<1>3. spent \in Nat
  BY <1>2
<1>4. /\ next \in Email /\ next.pc = "trying" /\ next.to = o.to /\ next.link = o.link
      /\ next.tries = o.tries + 1 /\ next.elapsed = o.elapsed + spent /\ next.lost = o.lost + lost
  BY <1>1, <1>3, TriedIs
<1>5. PICK e : /\ Moved(c, n, e)
               /\ IF next.tries < Attempts(mode) THEN e = next
                  ELSE e = [next EXCEPT !.pc = "audit", !.outcome = "failed"]
  BY DEF TryAgain
<1>6. /\ e \in Email /\ e.to = o.to /\ e.link = o.link /\ e.tries = o.tries + 1
      /\ e.elapsed = o.elapsed + spent /\ e.lost = o.lost + lost
      /\ \/ e.pc = "trying" /\ o.tries + 1 < Attempts(mode)
         \/ e.pc = "audit" /\ e.outcome = "failed"
  <2>1. CASE next.tries < Attempts(mode)
    BY <1>4, <1>5, <2>1
  <2>2. CASE ~(next.tries < Attempts(mode))
    BY <1>4, <1>5, <2>2 DEF Email, Outcomes
  <2> QED BY <2>1, <2>2
<1>7. i = o.lost /\ i + lost \in Nat
  BY <1>1 DEF Accepted
<1>8. Accepted(e, i + lost)
  BY <1>6, <1>7 DEF Accepted, Outcomes
<1>9. ASSUME mode = "sync" PROVE InTime(e)
  <2>1. /\ o.tries \in {0, 1} /\ (o.tries = 0 => o.elapsed = 0)
        /\ (o.tries = 1 => o.elapsed <= Timeout.sync + 1)
        /\ o.elapsed \in Nat
    <3>1. InTime(o) /\ o.pc = "trying"
      BY <1>1, <1>9
    <3>2. o.elapsed \in Nat
      BY <1>1 DEF Email
    <3> QED BY <3>1, <3>2 DEF InTime
  <2>2. Attempts(mode) = 2 /\ Timeout.sync \in Nat /\ time <= Timeout.sync
    BY <1>9, MailBounds DEF Attempts
  <2>3. CASE o.tries = 0
    <3>1. spent = time + 1 /\ e.tries = 1 /\ e.elapsed = spent
      BY <1>2, <1>3, <1>6, <1>9, <2>1, <2>3
    <3> QED BY <2>2, <3>1 DEF InTime
  <2>4. CASE o.tries = 1
    <3>1. spent = time /\ e.tries = 2 /\ e.elapsed = o.elapsed + time /\ e.pc = "audit"
      BY <1>2, <1>3, <1>6, <1>9, <2>1, <2>2, <2>4
    <3> QED BY <2>1, <2>2, <2>4, <3>1 DEF InTime
  <2> QED BY <2>1, <2>3, <2>4
<1>10. Told'
  BY <1>5, <1>6, NotToldYet
<1>11. mail[c][n].pc \notin {"idle", "done"} /\ e.pc # "idle"
  BY <1>6
<1> QED BY <1>1, <1>5, <1>6, <1>7, <1>8, <1>9, <1>10, <1>11, EmailMoves

LEMMA RefuseMailHolds ==
  ASSUME MailInv, NEW c \in HookCalls, NEW n \in Positions, RefuseMail(c, n)
  PROVE  MailInv'
<1>1. Quick \in Nat /\ Quick <= Timeout.sync
  BY MailBounds
<1>2. inbox \in [HookCalls -> [Positions -> Nat]]
  BY DEF MailInv, MailTypes
<1>3. /\ mail[c][n].pc = "trying" /\ TryAgain(c, n, Quick, 0)
      /\ UNCHANGED <<configured, hookCall, inbox, log, audit, mailFaults>>
  BY DEF RefuseMail
<1>4. inbox' = [inbox EXCEPT ![c][n] = inbox[c][n] + 0]
  BY <1>2, <1>3
<1> QED BY <1>1, <1>3, <1>4, TryAgainHolds

LEMMA NoAnswerHolds ==
  ASSUME MailInv, NEW c \in HookCalls, NEW n \in Positions, NEW accepted \in BOOLEAN, NoAnswer(c, n, accepted)
  PROVE  MailInv'
<1> PICK lost : lost = IF accepted THEN 1 ELSE 0
  OBVIOUS
<1> PICK time : time = Timeout[hookCall[c].mode]
  OBVIOUS
<1>1. hookCall[c] \in HookCall /\ inbox \in [HookCalls -> [Positions -> Nat]]
  BY DEF MailInv, MailTypes
<1>2. /\ mail[c][n].pc = "trying" /\ TryAgain(c, n, time, lost)
      /\ UNCHANGED <<configured, hookCall, log, audit, mailFaults>>
  BY DEF NoAnswer
<1>3. hookCall[c].mode \in {"sync", "background"}
  <2>1. mail[c][n] # NoEmail
    BY <1>2 DEF NoEmail
  <2>2. hookCall[c].mode # "none"
    BY <2>1 DEF MailInv, AsPlanned
  <2> QED BY <1>1, <2>2 DEF HookCall
<1>4. time \in Nat /\ (hookCall[c].mode = "sync" => time <= Timeout.sync)
  BY <1>3, MailBounds
<1>5. inbox' = [inbox EXCEPT ![c][n] = inbox[c][n] + lost]
  BY <1>1 DEF NoAnswer, Deliver
<1>6. lost \in {0, 1}
  OBVIOUS
<1> QED BY <1>2, <1>4, <1>5, <1>6, TryAgainHolds

\* What the audit and the log are told of an email: n moves to e, and the rest of Told is kept.
LEMMA AuditFailureHolds ==
  ASSUME MailInv, NEW c \in HookCalls, NEW n \in Positions, NEW ok \in BOOLEAN, AuditFailure(c, n, ok)
  PROVE  MailInv'
<1> PICK o, i : o = mail[c][n] /\ i = inbox[c][n]
  OBVIOUS
<1> PICK e : e = [o EXCEPT !.pc = "log"]
  OBVIOUS
<1>1. /\ o \in Email /\ i \in Nat /\ inbox \in [HookCalls -> [Positions -> Nat]]
      /\ mail \in [HookCalls -> [Positions -> Email]]
      /\ configured \in BOOLEAN /\ mailFaults \in Nat /\ Accepted(o, i) /\ Told
      /\ (hookCall[c].mode = "sync" => InTime(o))
  BY DEF MailInv, MailTypes, EmailsHold
<1>2. /\ o.pc = "audit" /\ Moved(c, n, e) /\ Written(ok) /\ UNCHANGED <<configured, hookCall, inbox, log>>
      /\ audit' = IF ok THEN audit \cup {<<c, n>>} ELSE audit
  BY DEF AuditFailure
<1>3. /\ e \in Email /\ e.pc = "log" /\ e.outcome = o.outcome /\ e.to = o.to /\ e.link = o.link
      /\ e.tries = o.tries /\ e.elapsed = o.elapsed /\ e.lost = o.lost
  BY <1>1 DEF Email
<1>4. o.outcome = "failed" /\ Accepted(e, i)
  BY <1>1, <1>2, <1>3 DEF Accepted
<1>5. hookCall[c].mode = "sync" => InTime(e)
  BY <1>1, <1>3, <1>2 DEF InTime
<1>6. mailFaults' \in Nat /\ mailFaults' >= mailFaults /\ (~ok => mailFaults' # 0)
  BY <1>1, <1>2 DEF Written
<1>7. Told'
  <2>1. /\ mail'[c][n] = e
        /\ \A d \in HookCalls, k \in Positions : ~(d = c /\ k = n) => mail'[d][k] = mail[d][k]
    BY <1>1, <1>2 DEF Moved
  <2>2. \A line \in log : ~(line.call = c /\ line.n = n)
    BY <1>1, <1>2 DEF Told
  <2>3. log' = log
    BY <1>2
  <2>4. ASSUME NEW line \in log
        PROVE  /\ line.call \in HookCalls /\ line.n \in Positions
               /\ mail'[line.call][line.n].pc = "done" /\ line.status = mail'[line.call][line.n].outcome
    BY <1>1, <2>1, <2>2 DEF Told
  <2>5. ASSUME NEW d \in HookCalls, NEW k \in Positions
        PROVE  /\ <<d, k>> \in audit' => mail'[d][k].pc \in {"log", "done"} /\ mail'[d][k].outcome = "failed"
               /\ mailFaults' = 0 /\ mail'[d][k].pc \in {"log", "done"} /\ mail'[d][k].outcome = "failed"
                    => <<d, k>> \in audit'
               /\ mailFaults' = 0 /\ mail'[d][k].pc = "done" => \E line \in log : line.call = d /\ line.n = k
    <3>1. CASE d = c /\ k = n
      <4>1. mailFaults' = 0 => <<c, n>> \in audit'
        BY <1>2, <1>6
      <4> QED BY <1>3, <1>4, <2>1, <3>1, <4>1
    <3>2. CASE ~(d = c /\ k = n)
      <4>1. mail'[d][k] = mail[d][k] /\ (<<d, k>> \in audit' <=> <<d, k>> \in audit)
        BY <1>2, <2>1, <3>2
      <4>2. mailFaults' = 0 => mailFaults = 0
        BY <1>1, <1>6
      <4> QED BY <1>1, <4>1, <4>2 DEF Told
    <3> QED BY <3>1, <3>2
  <2> QED BY <2>3, <2>4, <2>5 DEF Told
<1>8. inbox' = [inbox EXCEPT ![c][n] = i]
  BY <1>1, <1>2
<1>9. Moved(c, n, e) /\ e \in Email /\ i \in Nat
  BY <1>1, <1>2, <1>3
<1>10. mail[c][n].pc \notin {"idle", "done"} /\ e.pc # "idle" /\ e.to = mail[c][n].to /\ e.link = mail[c][n].link
  BY <1>2, <1>3
<1>11. configured' \in BOOLEAN /\ UNCHANGED hookCall
  BY <1>1, <1>2
<1> QED BY <1>4, <1>5, <1>6, <1>7, <1>8, <1>9, <1>10, <1>11, EmailMoves

LEMMA WriteLogHolds ==
  ASSUME MailInv, NEW c \in HookCalls, NEW n \in Positions, NEW ok \in BOOLEAN, WriteLog(c, n, ok)
  PROVE  MailInv'
<1> PICK o, i : o = mail[c][n] /\ i = inbox[c][n]
  OBVIOUS
<1> PICK e, said : e = [o EXCEPT !.pc = "done"] /\ said = [call |-> c, n |-> n, status |-> o.outcome]
  OBVIOUS
<1>1. /\ o \in Email /\ i \in Nat /\ inbox \in [HookCalls -> [Positions -> Nat]]
      /\ mail \in [HookCalls -> [Positions -> Email]]
      /\ configured \in BOOLEAN /\ mailFaults \in Nat /\ Accepted(o, i) /\ Told
      /\ (hookCall[c].mode = "sync" => InTime(o))
  BY DEF MailInv, MailTypes, EmailsHold
<1>2. /\ o.pc = "log" /\ Moved(c, n, e) /\ Written(ok) /\ UNCHANGED <<configured, hookCall, inbox, audit>>
      /\ log' = IF ok THEN log \cup {said} ELSE log
  BY DEF WriteLog, Outcome
<1>3. /\ e \in Email /\ e.pc = "done" /\ e.outcome = o.outcome /\ e.to = o.to /\ e.link = o.link
      /\ e.tries = o.tries /\ e.elapsed = o.elapsed /\ e.lost = o.lost
  BY <1>1 DEF Email
<1>4. Accepted(e, i)
  BY <1>1, <1>2, <1>3 DEF Accepted
<1>5. hookCall[c].mode = "sync" => InTime(e)
  BY <1>1, <1>3, <1>2 DEF InTime
<1>6. mailFaults' \in Nat /\ mailFaults' >= mailFaults /\ (~ok => mailFaults' # 0)
  BY <1>1, <1>2 DEF Written
<1>s. said.call = c /\ said.n = n /\ said.status = e.outcome
  BY <1>3
<1>7. Told'
  <2>1. /\ mail'[c][n] = e
        /\ \A d \in HookCalls, k \in Positions : ~(d = c /\ k = n) => mail'[d][k] = mail[d][k]
    BY <1>1, <1>2 DEF Moved
  <2>2. \A line \in log : ~(line.call = c /\ line.n = n)
    BY <1>1, <1>2 DEF Told
  <2>4. ASSUME NEW line \in log'
        PROVE  /\ line.call \in HookCalls /\ line.n \in Positions
               /\ mail'[line.call][line.n].pc = "done" /\ line.status = mail'[line.call][line.n].outcome
    <3>1. CASE line \in log
      BY <1>1, <2>1, <2>2, <3>1 DEF Told
    <3>2. CASE line = said
      BY <1>3, <1>s, <2>1, <3>2
    <3> QED BY <1>2, <3>1, <3>2
  <2>5. ASSUME NEW d \in HookCalls, NEW k \in Positions
        PROVE  /\ <<d, k>> \in audit => mail'[d][k].pc \in {"log", "done"} /\ mail'[d][k].outcome = "failed"
               /\ mailFaults' = 0 /\ mail'[d][k].pc \in {"log", "done"} /\ mail'[d][k].outcome = "failed"
                    => <<d, k>> \in audit
               /\ mailFaults' = 0 /\ mail'[d][k].pc = "done" => \E line \in log' : line.call = d /\ line.n = k
    <3>0. mailFaults' = 0 => mailFaults = 0
      BY <1>1, <1>6
    <3>1. CASE d = c /\ k = n
      <4>1. mailFaults' = 0 => said \in log'
        BY <1>2, <1>6
      <4>2. mailFaults' = 0 => \E line \in log' : line.call = d /\ line.n = k
        BY <1>s, <3>1, <4>1
      <4>3. /\ <<c, n>> \in audit => o.outcome = "failed"
            /\ mailFaults = 0 /\ o.outcome = "failed" => <<c, n>> \in audit
        BY <1>1, <1>2 DEF Told
      <4> QED BY <1>3, <2>1, <3>0, <3>1, <4>2, <4>3
    <3>2. CASE ~(d = c /\ k = n)
      <4>1. mail'[d][k] = mail[d][k] /\ log \subseteq log'
        BY <1>2, <2>1, <3>2
      <4> QED BY <1>1, <3>0, <4>1 DEF Told
    <3> QED BY <3>1, <3>2
  <2>6. audit' = audit
    BY <1>2
  <2> QED BY <2>4, <2>5, <2>6 DEF Told
<1>8. inbox' = [inbox EXCEPT ![c][n] = i]
  BY <1>1, <1>2
<1>9. Moved(c, n, e) /\ e \in Email /\ i \in Nat
  BY <1>1, <1>2, <1>3
<1>10. mail[c][n].pc \notin {"idle", "done"} /\ e.pc # "idle" /\ e.to = mail[c][n].to /\ e.link = mail[c][n].link
  BY <1>2, <1>3
<1>11. configured' \in BOOLEAN /\ UNCHANGED hookCall
  BY <1>1, <1>2
<1> QED BY <1>4, <1>5, <1>6, <1>7, <1>8, <1>9, <1>10, <1>11, EmailMoves

\* A call is answered.
LEMMA AnswerHolds ==
  ASSUME MailInv, NEW c \in HookCalls, hookCall[c].pc = "sending",
         NEW pc \in {"ok", "error"} \cup Outcomes, hookCall' = [hookCall EXCEPT ![c].pc = pc],
         pc = "ok" => hookCall[c].mode = "sync" /\ Settled(c),
         UNCHANGED <<configured, mail, inbox, log, audit, mailFaults>>
  PROVE  MailInv'
<1> PICK r : r = [hookCall[c] EXCEPT !.pc = pc]
  OBVIOUS
<1>1. hookCall \in [HookCalls -> HookCall]
  BY DEF MailInv, MailTypes
<1>2. /\ r \in HookCall /\ r.pc = pc /\ r.mode = hookCall[c].mode /\ r.payload = hookCall[c].payload
      /\ r.count = hookCall[c].count
  BY <1>1 DEF HookCall
<1>3. /\ hookCall' \in [HookCalls -> HookCall] /\ hookCall'[c] = r
      /\ \A d \in HookCalls : d # c => hookCall'[d] = hookCall[d]
  BY <1>1, <1>2
<1>4. \A d \in HookCalls : /\ hookCall'[d].mode = hookCall[d].mode /\ hookCall'[d].payload = hookCall[d].payload
                           /\ hookCall'[d].count = hookCall[d].count
  BY <1>2, <1>3
<1>5. \A d \in HookCalls : Settled(d) => Settled(d)'
  BY <1>4 DEF Settled, Sent
<1>6. ASSUME NEW d \in HookCalls PROVE AsPlanned(d)' /\ Progress(d)'
  <2>1. AsPlanned(d) /\ Progress(d)
    BY DEF MailInv
  <2>2. AsPlanned(d)'
    BY <1>4, <2>1 DEF AsPlanned
  <2>3. CASE d = c
    <3>1. /\ hookCall'[c].pc = pc /\ pc \notin {"idle", "refused"} /\ hookCall'[c].mode = hookCall[c].mode
          /\ hookCall[c].mode # "none"
      BY <1>2, <1>3, <2>1, <2>3 DEF Progress, Outcomes
    <3> QED BY <1>5, <2>2, <2>3, <3>1 DEF Progress
  <2>4. CASE d # c
    BY <1>3, <1>5, <2>1, <2>2, <2>4 DEF Progress
  <2> QED BY <2>3, <2>4
<1>7. EmailsHold'
  BY <1>4 DEF MailInv, EmailsHold
<1>8. MailTypes' /\ Told'
  BY <1>3 DEF MailInv, MailTypes, Told
<1> QED BY <1>6, <1>7, <1>8 DEF MailInv

LEMMA AnswersHold ==
  ASSUME MailInv, NEW c \in HookCalls, AnswerOk(c) \/ AnswerError(c) \/ Resolve(c)
  PROVE  MailInv'
<1>1. CASE AnswerOk(c)
  BY <1>1, AnswerHolds DEF AnswerOk
<1>2. CASE AnswerError(c)
  BY <1>2, AnswerHolds DEF AnswerError
<1>3. CASE Resolve(c)
  <2>1. mail[c][1].pc = "done" /\ 1 \in Positions
    BY <1>3 DEF Resolve, Positions
  <2>2. mail[c][1].outcome \in Outcomes
    BY <2>1 DEF MailInv, EmailsHold, Accepted
  <2>3. mail[c][1].outcome # "ok"
    BY <2>2 DEF Outcomes
  <2> QED BY <1>3, <2>2, <2>3, AnswerHolds DEF Resolve
<1> QED BY <1>1, <1>2, <1>3

LEMMA MailSteps == MailInv /\ [MailNext]_mailVars => MailInv'
<1> SUFFICES ASSUME MailInv, [MailNext]_mailVars PROVE MailInv'
  OBVIOUS
<1>1. CASE UNCHANGED mailVars
  BY <1>1 DEF mailVars, MailInv, MailTypes, AsPlanned, Progress, EmailsHold, Told, Settled, Sent
<1>2. CASE MailNext
  <2> PICK c \in HookCalls :
       \/ \E p \in Payloads : Handle(c, p) \/ SendInBackground(c, p)
       \/ AnswerOk(c) \/ AnswerError(c) \/ Resolve(c)
       \/ \E n \in Positions :
            \/ Skip(c, n) \/ Accept(c, n) \/ RefuseMail(c, n)
            \/ \E ok \in BOOLEAN : \/ Prepare(c, n, ok) \/ NoAnswer(c, n, ok)
                                   \/ AuditFailure(c, n, ok) \/ WriteLog(c, n, ok)
    BY <1>2 DEF MailNext
  <2>1. CASE \E p \in Payloads : Handle(c, p) \/ SendInBackground(c, p)
    BY <2>1, HandleHolds, SendInBackgroundHolds
  <2>2. CASE AnswerOk(c) \/ AnswerError(c) \/ Resolve(c)
    BY <2>2, AnswersHold
  <2>3. CASE \E n \in Positions : Skip(c, n) \/ Accept(c, n) \/ RefuseMail(c, n)
    BY <2>3, SkipHolds, AcceptHolds, RefuseMailHolds
  <2>4. CASE \E n \in Positions, ok \in BOOLEAN : \/ Prepare(c, n, ok) \/ NoAnswer(c, n, ok)
                                                  \/ AuditFailure(c, n, ok) \/ WriteLog(c, n, ok)
    BY <2>4, PrepareHolds, NoAnswerHolds, AuditFailureHolds, WriteLogHolds
  <2> QED BY <2>1, <2>2, <2>3, <2>4
<1> QED BY <1>1, <1>2

LEMMA MailFits == MailInv => HookKeepsItsWord
<1> SUFFICES ASSUME MailInv PROVE HookKeepsItsWord
  OBVIOUS
<1>1. OkMeansAccepted
  <2> SUFFICES ASSUME NEW c \in HookCalls
               PROVE  /\ hookCall[c].pc = "ok" => \A n \in DOMAIN Planned(hookCall[c].payload) : inbox[c][n] > 0
                      /\ hookCall[c].pc = "refused" => \A n \in Positions : inbox[c][n] = 0
    BY DEF OkMeansAccepted
  <2>1. AsPlanned(c) /\ Progress(c)
    BY DEF MailInv
  <2>2. ASSUME hookCall[c].pc = "ok", NEW n \in DOMAIN Planned(hookCall[c].payload) PROVE inbox[c][n] > 0
    <3> PICK p : p = hookCall[c].payload
      OBVIOUS
    <3>1. p \in Payloads /\ hookCall[c].count = Len(Planned(p)) /\ Settled(c)
      BY <2>1, <2>2 DEF AsPlanned, Progress
    <3>2. n \in 1 .. Len(Planned(p)) /\ n \in Positions
      <4>1. \/ \E x : Planned(p) = <<x>>
            \/ \E x, y : Planned(p) = <<x, y>>
        BY DEF Planned, PlanEmailChange
      <4>2. n \in DOMAIN Planned(p)
        OBVIOUS
      <4> QED BY <4>1, <4>2 DEF Positions
    <3>3. mail[c][n].pc = "done" /\ mail[c][n].outcome = "sent"
      BY <3>1, <3>2 DEF Settled, Sent
    <3>4. Accepted(mail[c][n], inbox[c][n]) /\ mail[c][n] \in Email
      BY <3>2 DEF MailInv, MailTypes, EmailsHold
    <3> QED BY <3>3, <3>4 DEF Accepted, Email
  <2>3. ASSUME hookCall[c].pc = "refused", NEW n \in Positions PROVE inbox[c][n] = 0
    <3>1. mail[c][n] = NoEmail /\ Accepted(mail[c][n], inbox[c][n])
      BY <2>1, <2>3 DEF MailInv, EmailsHold, AsPlanned, Progress
    <3>2. NoEmail.pc = "idle"
      BY DEF NoEmail
    <3> QED BY <3>1, <3>2 DEF Accepted
  <2> QED BY <2>2, <2>3
<1>2. LinksReachTheirOwner
  <2> SUFFICES ASSUME NEW c \in HookCalls, NEW n \in Positions, inbox[c][n] > 0, mail[c][n].link # Absent,
                      hookCall[c].payload.type = "email_change"
               PROVE  mail[c][n].to = IF \/ /\ hookCall[c].payload.hash # Absent
                                            /\ mail[c][n].link = hookCall[c].payload.hashNew
                                         \/ hookCall[c].payload.new = Absent
                                      THEN hookCall[c].payload.email ELSE hookCall[c].payload.new
    BY DEF LinksReachTheirOwner
  <2> PICK p, e : p = hookCall[c].payload /\ e = mail[c][n]
    OBVIOUS
  <2>1. AsPlanned(c) /\ Accepted(e, inbox[c][n]) /\ hookCall[c] \in HookCall
    BY DEF MailInv, MailTypes, EmailsHold
  <2>2. e.pc # "idle"
    BY <2>1 DEF Accepted
  <2>3. hookCall[c].mode = "sync"
    <3>1. hookCall[c].mode # "none"
      BY <2>1, <2>2 DEF AsPlanned, NoEmail
    <3>2. hookCall[c].mode # "background"
      BY <2>1 DEF AsPlanned
    <3> QED BY <2>1, <3>1, <3>2 DEF HookCall
  <2>4. /\ p \in Payloads /\ p.type = "email_change"
        /\ n \in 1 .. Len(Planned(p)) /\ e.to = Planned(p)[n].to /\ e.link = Planned(p)[n].link
    BY <2>1, <2>2, <2>3 DEF AsPlanned
  <2>a. \A k \in DOMAIN Planned(p) : Planned(p)[k].to # Absent
    BY <2>1, <2>3 DEF AsPlanned, Addressed
  <2>5. Planned(p) = PlanEmailChange(p)
    BY <2>4 DEF Planned, Linked, Coded, Notices
  <2>6. CASE p.hash # Absent /\ p.hashNew # Absent
    <3>1. PlanEmailChange(p) = <<MailTo(p.email, p.hashNew), MailTo(p.new, p.hash)>>
      BY <2>6 DEF PlanEmailChange
    <3>2. p.hash # p.hashNew
      BY <2>4, <2>6, MailBounds
    <3>5. p.new # Absent
      BY <2>a, <2>5, <3>1 DEF MailTo
    <3>3. CASE n = 1
      BY <2>4, <2>5, <2>6, <3>1, <3>3 DEF MailTo
    <3>4. CASE n = 2
      BY <2>4, <2>5, <2>6, <3>1, <3>2, <3>4, <3>5 DEF MailTo
    <3> QED BY <3>3, <3>4 DEF Positions
  <2>7. CASE ~(p.hash # Absent /\ p.hashNew # Absent)
    <3>1. PlanEmailChange(p) =
            <<MailTo(IF p.new # Absent THEN p.new ELSE p.email, IF p.hash # Absent THEN p.hash ELSE p.hashNew)>>
      BY <2>7 DEF PlanEmailChange
    <3>2. n = 1
      BY <2>4, <2>5, <3>1
    <3> QED BY <2>4, <2>5, <2>7, <3>1, <3>2 DEF MailTo
  <2> QED BY <2>6, <2>7
<1>3. WithinBudget
  <2> SUFFICES ASSUME NEW c \in HookCalls, NEW n \in Positions, hookCall[c].mode = "sync"
               PROVE  mail[c][n].elapsed <= Budget
    BY DEF WithinBudget
  <2> PICK e : e = mail[c][n]
    OBVIOUS
  <2>1. InTime(e) /\ e \in Email
    BY DEF MailInv, MailTypes, EmailsHold
  <2>2. e.elapsed \in Nat /\ e.tries \in {0, 1, 2}
    BY <2>1 DEF InTime, Email
  <2>3. Timeout.sync \in Nat /\ 2 * Timeout.sync + 1 <= Budget
    BY MailBounds
  <2> QED BY <2>1, <2>2, <2>3 DEF InTime, Budget
<1>4. LogIsTrue
  <2>1. Told /\ EmailsHold /\ mail \in [HookCalls -> [Positions -> Email]] /\ inbox \in [HookCalls -> [Positions -> Nat]]
    BY DEF MailInv, MailTypes
  <2>2. ASSUME NEW line \in log
        PROVE  /\ line.status = "sent" => inbox[line.call][line.n] > 0
               /\ line.status = "skipped" => inbox[line.call][line.n] = 0
               /\ line.status = "failed" => inbox[line.call][line.n] = mail[line.call][line.n].lost
    <3> PICK e, i : e = mail[line.call][line.n] /\ i = inbox[line.call][line.n]
      OBVIOUS
    <3>1. e.pc = "done" /\ line.status = e.outcome /\ line.call \in HookCalls /\ line.n \in Positions
      BY <2>1 DEF Told
    <3>2. Accepted(e, i) /\ e \in Email
      BY <2>1, <3>1 DEF EmailsHold
    <3>3. e.lost \in Nat
      BY <3>2 DEF Email
    <3> QED BY <3>1, <3>2, <3>3 DEF Accepted
  <2>3. ASSUME NEW c \in HookCalls, NEW n \in Positions PROVE inbox[c][n] <= mail[c][n].lost + 1
    <3> PICK e, i : e = mail[c][n] /\ i = inbox[c][n]
      OBVIOUS
    <3>1. Accepted(e, i) /\ e \in Email
      BY <2>1 DEF EmailsHold
    <3>2. e.lost \in Nat /\ e.pc \in {"idle", "ready", "trying", "audit", "log", "done"}
      BY <3>1 DEF Email
    <3> QED BY <3>1, <3>2 DEF Accepted, Outcomes
  <2>4. ASSUME mailFaults = 0, NEW c \in HookCalls, NEW n \in Positions, mail[c][n].pc = "done"
        PROVE  \E line \in log : line.call = c /\ line.n = n /\ (line.status = "failed") = (<<c, n>> \in audit)
    <3>0. Told
      BY <2>1
    <3>1. PICK line \in log : line.call = c /\ line.n = n
      BY ONLY <2>4, <3>0, Zenon DEF Told
    <3>2. line.status = mail[c][n].outcome
      BY <2>1, <3>1 DEF Told
    <3>3. mail[c][n].outcome = "failed" <=> <<c, n>> \in audit
      <4>1. <<c, n>> \in audit => mail[c][n].outcome = "failed"
        BY <2>1 DEF Told
      <4>2. mail[c][n].outcome = "failed" => <<c, n>> \in audit
        BY <2>1, <2>4 DEF Told
      <4> QED BY <4>1, <4>2
    <3> QED BY <3>1, <3>2, <3>3
  <2> QED BY <2>2, <2>3, <2>4 DEF LogIsTrue
<1> QED BY <1>1, <1>2, <1>3, <1>4 DEF HookKeepsItsWord

\* The hook answers in time, what it calls sent is accepted, every link goes to the address it
\* belongs to, and the log tells what happened.
THEOREM HookKeeps == MailSpec => []HookKeepsItsWord
BY InitMail, MailSteps, MailFits, PTL DEF MailSpec

(***************************************************************************)
(* SeasonInvites, for any invites, runs, requests, moves and bounds: an    *)
(* email of the season goes out once per invite, and the link that works   *)
(* was emailed to the address the invite has.  The claims say who may      *)
(* email (`ClaimsFit`).  A link is followed from its issue to its email:   *)
(* `Comes` are the links that are about to be emailed, `SentTo` those that   *)
(* were, and `LinksFit` and `NewestUnderway` say of both where they go.    *)
(***************************************************************************)

\* What the rows and the requests hold.
Invite ==
  [email: Emails, token: Nat, expired: BOOLEAN, fresh: BOOLEAN, week: BOOLEAN,
   claim: [Kinds -> Runs \cup {Unclaimed}], done: [Kinds -> BOOLEAN],
   redeemed: BOOLEAN, activated: BOOLEAN]
Delivery == [pc: {"idle", "claim", "token", "mail", "release", "mark"}, kind: Kinds,
             i: Invites \cup {0}, to: Emails, token: Nat]
LinkRequest == [pc: {"idle", "read", "replace", "mail"}, kind: {"send"}, i: Invites \cup {0},
                to: Emails, token: Nat]
MovedRow == [i: Invites, row: Invite]
Reissue == [pc: {"idle"}, kind: {"send"}, i: Invites, to: Emails, token: Nat]
Letter == [invite: Invites, kind: Kinds \cup {"resend", "move"}, token: Nat, to: Emails]
InviteTypes ==
  /\ invite \in [Invites -> Invite] /\ account \in Emails /\ tokens \in 0 .. MaxTokens
  /\ run \in [Runs -> Delivery] /\ resend \in [Resends -> LinkRequest]
  /\ move \in [pc: {"idle", "list", "move"}, rows: SUBSET MovedRow, unsent: SUBSET Reissue]
  /\ mails \subseteq Letter /\ inviteFaults \in 0 .. MaxInviteFaults

\* Link k of invite i was emailed to an address, or is about to be.
SentTo(i, k, to) == \E letter \in mails : letter.invite = i /\ letter.token = k /\ letter.to = to
Coming(r, i, k, to) == r.i = i /\ r.token = k /\ r.to = to
Comes(i, k, to) ==
  \/ \E d \in Runs : run[d].pc = "mail" /\ Coming(run[d], i, k, to)
  \/ \E q \in Resends : resend[q].pc = "mail" /\ Coming(resend[q], i, k, to)
  \/ \E r \in move.unsent : Coming(r, i, k, to)

\* A link is of one invite.
IsOf(k, i) == k \in 1 .. tokens /\ \A j \in Invites : invite[j].token = k => j = i
TokensInRange ==
  \A i \in Invites : /\ invite[i].token \in 0 .. tokens
                     /\ invite[i].token = 0 => invite[i].expired = TRUE
TokensApart ==
  \A i, j \in Invites : invite[i].token = invite[j].token => i = j \/ invite[i].token = 0
LinksOfOne ==
  \A i \in Invites, k \in Nat, to \in Emails : SentTo(i, k, to) \/ Comes(i, k, to) => IsOf(k, i)
TokensFit == TokensInRange /\ TokensApart /\ LinksOfOne

\* A run that has not emailed yet holds the claim, and so does the email of a run that has.
Emailed(i, kind) == \E letter \in mails : letter.invite = i /\ letter.kind = kind
RunsOnInvites == \A d \in Runs : run[d].pc # "idle" => run[d].i \in Invites
ClaimsHeld ==
  \A d \in Runs, i \in Invites, kind \in Kinds :
    /\ run[d].pc \in {"token", "mail", "mark", "release"} /\ run[d].i = i /\ run[d].kind = kind
    /\ <<i, kind>> \notin repeatable
    => invite[i].claim[kind] = d /\ (run[d].pc # "mark" => ~Emailed(i, kind))
EmailedClaimed ==
  \A i \in Invites, kind \in Kinds :
    <<i, kind>> \notin repeatable /\ Emailed(i, kind) => invite[i].claim[kind] # Unclaimed
EmailsApart ==
  \A l, m \in mails :
    /\ l.invite = m.invite /\ l.kind = m.kind /\ l.kind \in Kinds
    /\ <<l.invite, l.kind>> \notin repeatable
    => l = m
ClaimsFit == RunsOnInvites /\ ClaimsHeld /\ EmailedClaimed /\ EmailsApart

\* What a move has read and has still to email is of addresses that are not, or are, the account's.
MoveFits ==
  /\ move.pc # "move" => move.rows = {} /\ move.unsent = {}
  /\ \A read \in move.rows : read.row.email # account
  /\ \A r \in move.unsent : r.to = account /\ invite[r.i].email = account

\* Unless a move crossed an email, the newest link was sent to the invite's address, and so
\* will be what is about to be; and it was sent, or is about to be, unless its email failed.
LinksFit ==
  /\ ~misled
  /\ \A q \in Resends : resend[q].pc \in {"replace", "mail"} => resend[q].i \in Invites
  /\ \A i \in Invites \ crossed, k \in Nat, to \in Emails :
       /\ SentTo(i, k, to) /\ k = invite[i].token => to = invite[i].email
       /\ Comes(i, k, to) => to = invite[i].email
NewestUnderway ==
  \A i \in Invites \ (crossed \cup unmailed) :
    invite[i].token # 0 =>
      \E to \in Emails : SentTo(i, invite[i].token, to) \/ Comes(i, invite[i].token, to)

InvitesInv == InviteTypes /\ TokensFit /\ ClaimsFit /\ MoveFits /\ LinksFit /\ NewestUnderway

LEMMA InitInvites == InvitesInit => InvitesInv
<1> SUFFICES ASSUME InvitesInit PROVE InvitesInv
  OBVIOUS
<1>1. /\ \A d \in Runs : run[d] = NoRun
      /\ \A q \in Resends : resend[q] = NoRun
      /\ move.pc = "idle" /\ move.rows = {} /\ move.unsent = {} /\ mails = {} /\ ~misled
      /\ \A i \in Invites : invite[i].token = 0 /\ invite[i].expired = TRUE
  BY DEF InvitesInit, NoMove
<1>2. InviteTypes
  <2>1. NoRun \in Delivery /\ NoRun \in LinkRequest
    BY InviteBounds DEF NoRun, Delivery, LinkRequest, Kinds
  <2>2. invite \in [Invites -> Invite]
    BY InviteBounds DEF InvitesInit, Invite, Kinds, Unclaimed
  <2>3. run \in [Runs -> Delivery] /\ resend \in [Resends -> LinkRequest]
    BY <2>1 DEF InvitesInit
  <2>4. move \in [pc: {"idle", "list", "move"}, rows: SUBSET MovedRow, unsent: SUBSET Reissue]
    BY DEF InvitesInit, NoMove
  <2>5. 0 \in 0 .. MaxTokens /\ 0 \in 0 .. MaxInviteFaults
    BY InviteBounds
  <2>6. account \in Emails /\ tokens = 0 /\ inviteFaults = 0
    BY InviteBounds DEF InvitesInit
  <2> QED BY <1>1, <2>2, <2>3, <2>4, <2>5, <2>6 DEF InviteTypes
<1>3. \A i, k, to : ~SentTo(i, k, to) /\ ~Comes(i, k, to)
  BY <1>1 DEF SentTo, Comes, NoRun
<1>4. \A i \in Invites : invite[i].token \in 0 .. tokens
  BY <1>1 DEF InvitesInit
<1>5. TokensFit
  BY <1>1, <1>3, <1>4 DEF TokensFit, TokensInRange, TokensApart, LinksOfOne
<1>6. ClaimsFit /\ MoveFits
  BY <1>1 DEF ClaimsFit, RunsOnInvites, ClaimsHeld, EmailedClaimed, EmailsApart, MoveFits, NoRun, Emailed
<1>7. LinksFit /\ NewestUnderway
  BY <1>1, <1>3 DEF LinksFit, NewestUnderway, NoRun
<1> QED BY <1>2, <1>5, <1>6, <1>7 DEF InvitesInv

\* What the invariant makes of the properties.
LEMMA InvitesHold ==
  ASSUME InvitesInv
  PROVE  InvitesReachOnce
<1>1. InvitesTypeOK
  BY InviteBounds DEF InvitesInv, InvitesTypeOK, InviteTypes, TokensFit, TokensInRange, TokensApart, LinksOfOne, Invite
<1>2. EmailedOnce
  <2> SUFFICES ASSUME NEW i \in Invites, NEW kind \in Kinds, <<i, kind>> \notin repeatable
               PROVE  Cardinality({letter \in mails : letter.invite = i /\ letter.kind = kind}) <= 1
    BY DEF EmailedOnce
  <2> DEFINE S == {letter \in mails : letter.invite = i /\ letter.kind = kind}
  <2>1. \A l, m \in S : l = m
    BY DEF InvitesInv, ClaimsFit, EmailsApart
  <2>2. CASE S = {}
    <3> HIDE DEF S
    <3>1. Cardinality(S) = 0
      BY <2>2, FS_EmptySet
    <3> QED BY <3>1 DEF S
  <2>3. CASE S # {}
    <3>1. PICK l : l \in S
      BY <2>3
    <3>2. S = {l}
      BY <2>1, <3>1
    <3> HIDE DEF S
    <3>3. Cardinality(S) = 1
      BY <3>2, FS_Singleton
    <3> QED BY <3>3 DEF S
  <2> QED BY <2>2, <2>3
<1>3. LinksFollowAddress
  <2>1. ~misled
    BY DEF InvitesInv, LinksFit
  <2>2. ASSUME NEW i \in Invites, invite[i].token # 0, ~Busy(i), i \notin crossed \cup unmailed
        PROVE  \E letter \in mails : /\ letter.invite = i /\ letter.token = invite[i].token
                                     /\ letter.to = invite[i].email
    <3>1. invite[i].token \in Nat
      BY DEF InvitesInv, InviteTypes, Invite
    <3>2. PICK to \in Emails : SentTo(i, invite[i].token, to) \/ Comes(i, invite[i].token, to)
      BY <2>2 DEF InvitesInv, NewestUnderway
    <3>3. move.unsent = {}
      BY <2>2 DEF InvitesInv, MoveFits, Busy
    <3>4. ~Comes(i, invite[i].token, to)
      BY <2>2, <3>3 DEF Comes, Coming, Busy
    <3>5. to = invite[i].email
      BY <2>2, <3>1, <3>2, <3>4 DEF InvitesInv, LinksFit
    <3> QED BY <3>2, <3>4, <3>5 DEF SentTo
  <2> QED BY <2>1, <2>2 DEF LinksFollowAddress
<1> QED BY <1>1, <1>2, <1>3 DEF InvitesReachOnce

\* A step that issues no link, and moves no invite that has one which no move crossed.
LEMMA Neutral ==
  ASSUME InvitesInv, tokens' = tokens, crossed \subseteq crossed', unmailed \subseteq unmailed', ~misled',
         \A j \in Invites : invite'[j].token = invite[j].token,
         \A j \in Invites : \/ invite'[j].email = invite[j].email \/ j \in crossed'
                           \/ /\ j \in unmailed' /\ invite[j].token = 0
                              /\ \A k \in Nat, to \in Emails : ~Comes(j, k, to),
         \A j \in Invites : invite'[j].token = 0 => invite'[j].expired = TRUE,
         \A i \in Invites, k \in Nat, to \in Emails : Comes(i, k, to)' => Comes(i, k, to),
         \A i \in Invites, k \in Nat, to \in Emails :
           SentTo(i, k, to)' => SentTo(i, k, to) \/ Comes(i, k, to),
         \A i \in Invites, k \in Nat, to \in Emails :
           i \notin unmailed' /\ (SentTo(i, k, to) \/ Comes(i, k, to))
             => SentTo(i, k, to)' \/ Comes(i, k, to)',
         \A q \in Resends : resend'[q].pc \in {"replace", "mail"} => resend'[q].i \in Invites
  PROVE  TokensFit' /\ LinksFit' /\ NewestUnderway'
<1>1. TokensFit'
  <2>1. \A i \in Invites : /\ invite'[i].token \in 0 .. tokens'
                           /\ invite'[i].token = 0 => invite'[i].expired = TRUE
    BY DEF InvitesInv, TokensFit, TokensInRange, TokensApart, LinksOfOne
  <2>2. \A i, j \in Invites : invite'[i].token = invite'[j].token => i = j \/ invite'[i].token = 0
    BY DEF InvitesInv, TokensFit, TokensInRange, TokensApart, LinksOfOne
  <2>3. ASSUME NEW i \in Invites, NEW k \in Nat, NEW to \in Emails, SentTo(i, k, to)' \/ Comes(i, k, to)'
        PROVE  IsOf(k, i)'
    <3>1. IsOf(k, i)
      BY <2>3 DEF InvitesInv, TokensFit, TokensInRange, TokensApart, LinksOfOne
    <3> QED BY <3>1 DEF IsOf
  <2>4. TokensInRange'
    BY <2>1 DEF TokensInRange
  <2>5. TokensApart'
    BY <2>2 DEF TokensApart
  <2>6. LinksOfOne'
    BY <2>3 DEF LinksOfOne
  <2> QED BY <2>4, <2>5, <2>6 DEF TokensFit
<1>2. LinksFit'
  <2>1. ASSUME NEW i \in Invites, i \notin crossed', NEW k \in Nat, NEW to \in Emails
        PROVE  /\ SentTo(i, k, to)' /\ k = invite'[i].token => to = invite'[i].email
               /\ Comes(i, k, to)' => to = invite'[i].email
    <3>1. CASE invite'[i].email = invite[i].email
      BY <2>1, <3>1 DEF InvitesInv, LinksFit
    <3>2. CASE invite[i].token = 0 /\ \A l \in Nat, e \in Emails : ~Comes(i, l, e)
      <4>1. ~IsOf(0, i)
        BY DEF IsOf
      <4>2. ~Comes(i, k, to)'
        BY <3>2
      <4>3. SentTo(i, k, to)' => k # 0
        BY <4>1, <3>2 DEF InvitesInv, TokensFit, LinksOfOne
      <4> QED BY <3>2, <4>2, <4>3
    <3> QED BY <2>1, <3>1, <3>2
  <2> QED BY <2>1 DEF LinksFit
<1>3. NewestUnderway'
  <2> SUFFICES ASSUME NEW i \in Invites, i \notin crossed', i \notin unmailed', invite'[i].token # 0
               PROVE  \E to \in Emails : \/ SentTo(i, invite[i].token, to)'
                                         \/ Comes(i, invite[i].token, to)'
    BY DEF NewestUnderway
  <2>1. invite[i].token \in Nat
    BY DEF InvitesInv, InviteTypes, Invite
  <2>2. PICK to \in Emails : SentTo(i, invite[i].token, to) \/ Comes(i, invite[i].token, to)
    BY DEF InvitesInv, NewestUnderway
  <2> QED BY <2>1, <2>2
<1> QED BY <1>1, <1>2, <1>3

\* A step that issues a link to one invite, and may move it.
LEMMA Issuing ==
  ASSUME InvitesInv, NEW i \in Invites, tokens' = tokens + 1, ~misled',
         crossed \subseteq crossed', unmailed \subseteq unmailed',
         invite'[i].token = tokens + 1,
         \A j \in Invites \ {i} : invite'[j] = invite[j],
         \A j \in Invites, k \in Nat, to \in Emails : SentTo(j, k, to)' <=> SentTo(j, k, to),
         \A j \in Invites, k \in Nat, to \in Emails :
           Comes(j, k, to)' => Comes(j, k, to) \/ (j = i /\ k = tokens + 1),
         \A j \in Invites \ {i}, k \in Nat, to \in Emails : Comes(j, k, to) => Comes(j, k, to)',
         i \notin crossed' =>
           \A k \in Nat, to \in Emails : Comes(i, k, to)' => to = invite'[i].email,
         i \notin crossed' /\ i \notin unmailed' =>
           \E k \in Nat, to \in Emails : k = tokens + 1 /\ Comes(i, k, to)',
         \A q \in Resends : resend'[q].pc \in {"replace", "mail"} => resend'[q].i \in Invites
  PROVE  TokensFit' /\ LinksFit' /\ NewestUnderway'
<1> USE DEF TokensFit
<1>0. /\ tokens \in Nat /\ \A j \in Invites : invite[j].token \in 0 .. tokens
      /\ \A j \in Invites, k \in Nat, to \in Emails : SentTo(j, k, to) \/ Comes(j, k, to) => k <= tokens
  BY InviteBounds DEF InvitesInv, InviteTypes, TokensInRange, LinksOfOne, IsOf
<1>1. TokensInRange'
  BY <1>0 DEF InvitesInv, TokensInRange
<1>2. TokensApart'
  BY <1>0 DEF InvitesInv, TokensApart
<1>3. LinksOfOne'
  <2> SUFFICES ASSUME NEW j \in Invites, NEW k \in Nat, NEW to \in Emails,
                      SentTo(j, k, to)' \/ Comes(j, k, to)'
               PROVE  IsOf(k, j)'
    BY DEF LinksOfOne
  <2>1. CASE SentTo(j, k, to) \/ Comes(j, k, to)
    <3>1. IsOf(k, j)
      BY <2>1 DEF InvitesInv, LinksOfOne
    <3> QED BY <1>0, <2>1, <3>1 DEF IsOf
  <2>2. CASE j = i /\ k = tokens + 1
    BY <1>0, <2>2 DEF IsOf
  <2> QED BY <2>1, <2>2
<1>4. LinksFit'
  <2>1. ASSUME NEW j \in Invites, j \notin crossed', NEW k \in Nat, NEW to \in Emails
        PROVE  /\ SentTo(j, k, to)' /\ k = invite'[j].token => to = invite'[j].email
               /\ Comes(j, k, to)' => to = invite'[j].email
    <3>1. CASE j = i
      BY <1>0, <2>1, <3>1
    <3>2. CASE j # i
      <4>1. invite'[j] = invite[j] /\ j \notin crossed
        BY <2>1, <3>2
      <4> QED BY <2>1, <3>2, <4>1 DEF InvitesInv, LinksFit
    <3> QED BY <3>1, <3>2
  <2> QED BY <2>1 DEF LinksFit
<1>5. NewestUnderway'
  <2>1. ASSUME NEW j \in Invites, j \notin crossed', j \notin unmailed', invite'[j].token # 0
        PROVE  \E k \in Nat : k = invite'[j].token /\ \E to \in Emails : SentTo(j, k, to)' \/ Comes(j, k, to)'
    <3>1. CASE j = i
      <4>1. PICK k \in Nat, to \in Emails : k = tokens + 1 /\ Comes(i, k, to)'
        BY <2>1, <3>1
      <4>2. tokens + 1 \in Nat /\ invite'[j].token = tokens + 1
        BY <1>0, <3>1
      <4> QED BY <3>1, <4>1, <4>2
    <3>2. CASE j # i
      <4>1. invite'[j] = invite[j] /\ invite[j].token \in Nat
        BY <3>2, <1>0
      <4>2. PICK to \in Emails : SentTo(j, invite[j].token, to) \/ Comes(j, invite[j].token, to)
        BY <2>1, <4>1 DEF InvitesInv, NewestUnderway
      <4> QED BY <4>1, <4>2, <3>2
    <3> QED BY <3>1, <3>2
  <2> QED BY <2>1 DEF NewestUnderway
<1> QED BY <1>1, <1>2, <1>3, <1>4, <1>5

\* A step that is not a run's, and no release by hand.
LEMMA ClaimsKept ==
  ASSUME InvitesInv, run' = run, repeatable' = repeatable,
         \A j \in Invites : invite'[j].claim = invite[j].claim,
         \A letter : letter.kind \in Kinds => (letter \in mails' <=> letter \in mails)
  PROVE  ClaimsFit'
<1>1. \A i \in Invites, kind \in Kinds : Emailed(i, kind)' <=> Emailed(i, kind)
  BY DEF Emailed
<1>2. RunsOnInvites'
  BY DEF InvitesInv, ClaimsFit, RunsOnInvites
<1>3. ClaimsHeld'
  BY <1>1 DEF InvitesInv, ClaimsFit, ClaimsHeld
<1>4. EmailedClaimed'
  BY <1>1 DEF InvitesInv, ClaimsFit, EmailedClaimed
<1>5. EmailsApart'
  BY DEF InvitesInv, ClaimsFit, EmailsApart
<1> QED BY <1>2, <1>3, <1>4, <1>5 DEF ClaimsFit

LEMMA MoveKept ==
  ASSUME InvitesInv, move' = move, account' = account,
         \A j \in Invites : invite'[j].email = invite[j].email
  PROVE  MoveFits'
<1>1. \A r \in move.unsent : r.i \in Invites
  BY DEF InvitesInv, InviteTypes, Reissue
<1> QED BY <1>1 DEF InvitesInv, MoveFits

LEMMA RowStep ==
  ASSUME InvitesInv, NEW i \in Invites, NEW e \in Invite, invite' = [invite EXCEPT ![i] = e]
  PROVE  /\ invite' \in [Invites -> Invite] /\ invite'[i] = e
         /\ \A j \in Invites : j # i => invite'[j] = invite[j]
BY DEF InvitesInv, InviteTypes

LEMMA RunStep ==
  ASSUME InvitesInv, NEW d \in Runs, NEW r \in Delivery, run' = [run EXCEPT ![d] = r],
         resend' = resend, move' = move
  PROVE  /\ run' \in [Runs -> Delivery] /\ run'[d] = r /\ \A c \in Runs : c # d => run'[c] = run[c]
         /\ \A i, k, to :
              /\ Comes(i, k, to)' => Comes(i, k, to) \/ (r.pc = "mail" /\ Coming(r, i, k, to))
              /\ Comes(i, k, to) => Comes(i, k, to)' \/ (run[d].pc = "mail" /\ Coming(run[d], i, k, to))
              /\ r.pc = "mail" /\ Coming(r, i, k, to) => Comes(i, k, to)'
<1>1. /\ run' \in [Runs -> Delivery] /\ run'[d] = r /\ \A c \in Runs : c # d => run'[c] = run[c]
  BY DEF InvitesInv, InviteTypes
<1> QED BY <1>1 DEF Comes

LEMMA ResendStep ==
  ASSUME InvitesInv, NEW q \in Resends, NEW r \in LinkRequest, resend' = [resend EXCEPT ![q] = r],
         run' = run, move' = move
  PROVE  /\ resend' \in [Resends -> LinkRequest] /\ resend'[q] = r
         /\ \A c \in Resends : c # q => resend'[c] = resend[c]
         /\ \A i, k, to :
              /\ Comes(i, k, to)' => Comes(i, k, to) \/ (r.pc = "mail" /\ Coming(r, i, k, to))
              /\ Comes(i, k, to) =>
                   Comes(i, k, to)' \/ (resend[q].pc = "mail" /\ Coming(resend[q], i, k, to))
              /\ r.pc = "mail" /\ Coming(r, i, k, to) => Comes(i, k, to)'
<1>1. /\ resend' \in [Resends -> LinkRequest] /\ resend'[q] = r
      /\ \A c \in Resends : c # q => resend'[c] = resend[c]
  BY DEF InvitesInv, InviteTypes
<1> QED BY <1>1 DEF Comes

LEMMA MoveStep ==
  ASSUME run' = run, resend' = resend
  PROVE  \A i, k, to :
           /\ Comes(i, k, to)' =>
                Comes(i, k, to) \/ \E r \in move'.unsent \ move.unsent : Coming(r, i, k, to)
           /\ Comes(i, k, to) =>
                Comes(i, k, to)' \/ \E r \in move.unsent \ move'.unsent : Coming(r, i, k, to)
           /\ \A r \in move'.unsent : Coming(r, i, k, to) => Comes(i, k, to)'
BY DEF Comes

LEMMA SentStep ==
  ASSUME NEW letter, mails' = mails \cup {letter}
  PROVE  \A i, k, to :
           SentTo(i, k, to)' <=>
             SentTo(i, k, to) \/ (letter.invite = i /\ letter.token = k /\ letter.to = to)
BY DEF SentTo
LEMMA SentKept ==
  ASSUME mails' = mails
  PROVE  \A i, k, to : SentTo(i, k, to)' <=> SentTo(i, k, to)
BY DEF SentTo

\* A step of a run that issues no link: what it leaves, it has emailed or it is counted as unmailed.
LEMMA RunQuiet ==
  ASSUME InvitesInv, NEW d \in Runs, NEW r \in Delivery, run' = [run EXCEPT ![d] = r], r.pc # "mail",
         account' = account, tokens' = tokens, resend' = resend, move' = move,
         crossed' = crossed, misled' = misled, unmailed \subseteq unmailed',
         inviteFaults' \in 0 .. MaxInviteFaults, invite' \in [Invites -> Invite],
         \A j \in Invites : /\ invite'[j].token = invite[j].token /\ invite'[j].email = invite[j].email
                            /\ invite'[j].expired = invite[j].expired,
         \/ mails' = mails /\ (run[d].pc = "mail" => run[d].i \in unmailed')
         \/ run[d].pc = "mail" /\ mails' = mails \cup {Mailed(run[d], run[d].kind)}
  PROVE  InviteTypes' /\ TokensFit' /\ LinksFit' /\ NewestUnderway' /\ MoveFits'
<1>1. PICK job \in Delivery : job = run[d]
  BY DEF InvitesInv, InviteTypes
<1>2. job.pc # "idle" => job.i \in Invites
  BY <1>1 DEF InvitesInv, ClaimsFit, RunsOnInvites
<1>3. mails' \subseteq Letter
  BY <1>1, <1>2 DEF InvitesInv, InviteTypes, Mailed, Delivery, Letter
<1>4. InviteTypes'
  BY <1>3, RunStep DEF InvitesInv, InviteTypes
<1>5. \A i, k, to : Comes(i, k, to)' => Comes(i, k, to)
  BY RunStep
<1>6. \A i, k, to : Comes(i, k, to) => Comes(i, k, to)' \/ (job.pc = "mail" /\ Coming(job, i, k, to))
  BY <1>1, RunStep
<1>7. /\ \A i, k, to : SentTo(i, k, to) => SentTo(i, k, to)'
      /\ \A i, k, to : SentTo(i, k, to)' => SentTo(i, k, to) \/ (job.pc = "mail" /\ Coming(job, i, k, to))
      /\ \A i, k, to : job.pc = "mail" /\ Coming(job, i, k, to) => i \in unmailed' \/ SentTo(i, k, to)'
  <2>1. CASE mails' = mails /\ (job.pc = "mail" => job.i \in unmailed')
    BY <2>1, SentKept DEF Coming
  <2>2. CASE job.pc = "mail" /\ mails' = mails \cup {Mailed(job, job.kind)}
    <3>1. PICK letter : letter = Mailed(job, job.kind)
      OBVIOUS
    <3>2. letter.invite = job.i /\ letter.token = job.token /\ letter.to = job.to
      BY <3>1 DEF Mailed
    <3> QED BY <2>2, <3>1, <3>2, SentStep DEF Coming
  <2> QED BY <1>1, <2>1, <2>2
<1>8. \A i, k, to : job.pc = "mail" /\ Coming(job, i, k, to) => Comes(i, k, to)
  BY <1>1 DEF Comes
<1>9. \A q \in Resends : resend'[q].pc \in {"replace", "mail"} => resend'[q].i \in Invites
  BY DEF InvitesInv, LinksFit
<1>10. ~misled' /\ \A j \in Invites : invite'[j].token = 0 => invite'[j].expired = TRUE
  BY DEF InvitesInv, LinksFit, TokensFit, TokensInRange
<1>11. \A i \in Invites, k \in Nat, to \in Emails :
          i \notin unmailed' /\ (SentTo(i, k, to) \/ Comes(i, k, to)) => SentTo(i, k, to)' \/ Comes(i, k, to)'
  BY <1>6, <1>7
<1>12. \A i \in Invites, k \in Nat, to \in Emails : SentTo(i, k, to)' => SentTo(i, k, to) \/ Comes(i, k, to)
  BY <1>7, <1>8
<1>13. TokensFit' /\ LinksFit' /\ NewestUnderway'
  BY <1>5, <1>9, <1>10, <1>11, <1>12, Neutral
<1> QED BY <1>4, <1>13, MoveKept

\* A run that goes on, or ends, with the claims and the emails as they are.
LEMMA RunClaims ==
  ASSUME InvitesInv, NEW d \in Runs, NEW r \in Delivery, run' = [run EXCEPT ![d] = r],
         r.pc # "idle" => r.i \in Invites,
         repeatable \subseteq repeatable', mails' = mails,
         \A j \in Invites : invite'[j].claim = invite[j].claim,
         \/ r.pc \in {"idle", "claim"}
         \/ /\ r.i = run[d].i /\ r.kind = run[d].kind /\ r.pc # "mark"
            /\ run[d].pc \in {"token", "mail", "release"}
  PROVE  ClaimsFit'
<1>1. run'[d] = r /\ \A c \in Runs : c # d => run'[c] = run[c]
  BY DEF InvitesInv, InviteTypes
<1>2. \A i, kind : Emailed(i, kind)' <=> Emailed(i, kind)
  BY DEF Emailed
<1>3. RunsOnInvites'
  BY <1>1 DEF InvitesInv, ClaimsFit, RunsOnInvites
<1>4. ClaimsHeld'
  <2> SUFFICES ASSUME NEW c \in Runs, NEW i \in Invites, NEW kind \in Kinds,
                      run'[c].pc \in {"token", "mail", "mark", "release"},
                      run'[c].i = i, run'[c].kind = kind, <<i, kind>> \notin repeatable'
               PROVE  invite'[i].claim[kind] = c /\ (run'[c].pc # "mark" => ~Emailed(i, kind)')
    BY DEF ClaimsHeld
  <2>1. CASE c = d
    <3>1. run[d].pc \in {"token", "mail", "release"} /\ run[d].i = i /\ run[d].kind = kind
      BY <1>1, <2>1
    <3> QED BY <1>2, <2>1, <3>1 DEF InvitesInv, ClaimsFit, ClaimsHeld
  <2>2. CASE c # d
    BY <1>1, <1>2, <2>2 DEF InvitesInv, ClaimsFit, ClaimsHeld
  <2> QED BY <2>1, <2>2
<1>5. EmailedClaimed'
  BY <1>2 DEF InvitesInv, ClaimsFit, EmailedClaimed
<1>6. EmailsApart'
  BY DEF InvitesInv, ClaimsFit, EmailsApart
<1> QED BY <1>3, <1>4, <1>5, <1>6 DEF ClaimsFit

LEMMA StartRunStep ==
  ASSUME InvitesInv, NEW d \in Runs, NEW i \in Invites, NEW kind \in Kinds, StartRun(d, i, kind)
  PROVE  InvitesInv'
<1>1. PICK r \in Delivery : r.pc = "claim" /\ r.i = i /\ run' = [run EXCEPT ![d] = r]
  <2>1. [NoRun EXCEPT !.pc = "claim", !.kind = kind, !.i = i, !.to = invite[i].email] \in Delivery
    BY DEF InvitesInv, InviteTypes, Invite, NoRun, Delivery
  <2> QED BY <2>1 DEF StartRun, ToRun, NoRun
<1>2. run[d].pc = "idle" /\ mails' = mails /\ unmailed' = unmailed /\ repeatable' = repeatable
  BY DEF StartRun, history
<1>3. InviteTypes' /\ TokensFit' /\ LinksFit' /\ NewestUnderway' /\ MoveFits'
  BY <1>1, <1>2, RunQuiet DEF StartRun, history, InvitesInv, InviteTypes
<1>4. ClaimsFit'
  BY <1>1, <1>2, RunClaims DEF StartRun
<1> QED BY <1>3, <1>4 DEF InvitesInv

LEMMA NoRunFits == NoRun \in Delivery /\ NoRun.pc = "idle"
BY InviteBounds DEF NoRun, Delivery, Kinds

\* A run that ends, or fails, and has changed nothing else.
LEMMA RunOver ==
  ASSUME InvitesInv, NEW d \in Runs, ToRun(d, NoRun), inviteFaults' \in 0 .. MaxInviteFaults,
         UNCHANGED <<invite, account, tokens, resend, move, mails, crossed, repeatable, misled>>,
         unmailed' = IF run[d].pc = "mail" THEN unmailed \cup {run[d].i} ELSE unmailed
  PROVE  InvitesInv'
<1>1. InviteTypes' /\ TokensFit' /\ LinksFit' /\ NewestUnderway' /\ MoveFits'
  BY NoRunFits, RunQuiet DEF ToRun, InvitesInv, InviteTypes
<1>2. ClaimsFit'
  BY NoRunFits, RunClaims DEF ToRun
<1> QED BY <1>1, <1>2 DEF InvitesInv

LEMMA ClaimStep ==
  ASSUME InvitesInv, NEW d \in Runs, ClaimInvite(d)
  PROVE  InvitesInv'
<1>0. /\ run[d].pc = "claim" /\ UNCHANGED <<account, tokens, resend, move, mails, crossed, unmailed, repeatable, misled>>
      /\ inviteFaults' \in 0 .. MaxInviteFaults
  BY InviteBounds DEF ClaimInvite, history, Fault, InvitesInv, InviteTypes
<1>1. PICK job \in Delivery : job = run[d]
  BY DEF InvitesInv, InviteTypes
<1>2. job.i \in Invites /\ job.kind \in Kinds
  BY <1>0, <1>1 DEF InvitesInv, ClaimsFit, RunsOnInvites, Delivery
<1> DEFINE i == job.i  kind == job.kind
<1>3. CASE ToRun(d, NoRun) /\ invite' = invite
  BY <1>0, <1>3, RunOver
<1>4. CASE /\ Claimable(i, kind) /\ Row(i, [invite[i] EXCEPT !.claim[kind] = d])
           /\ ToRun(d, [job EXCEPT !.pc = "token"])
  <2>1. PICK r \in Delivery : r.pc = "token" /\ r.i = i /\ r.kind = kind /\ run' = [run EXCEPT ![d] = r]
    BY <1>4 DEF ToRun, Delivery
  <2>2. PICK e \in Invite : /\ invite' = [invite EXCEPT ![i] = e] /\ e.claim[kind] = d
                            /\ \A k \in Kinds : k # kind => e.claim[k] = invite[i].claim[k]
                            /\ e.token = invite[i].token /\ e.email = invite[i].email
                            /\ e.expired = invite[i].expired
    <3>1. PICK entry \in Invite : entry = invite[i]
      BY <1>2 DEF InvitesInv, InviteTypes
    <3>2. PICK e : e = [entry EXCEPT !.claim[kind] = d]
      OBVIOUS
    <3>3. e \in Invite
      BY <1>2, <3>2 DEF Invite
    <3>4. e.claim[kind] = d /\ \A k \in Kinds : k # kind => e.claim[k] = entry.claim[k]
      BY <1>2, <3>2 DEF Invite
    <3>5. e.token = entry.token /\ e.email = entry.email /\ e.expired = entry.expired
      BY <3>2 DEF Invite
    <3>6. invite' = [invite EXCEPT ![i] = e]
      BY <1>4, <3>1, <3>2 DEF Row
    <3> QED BY <3>1, <3>3, <3>4, <3>5, <3>6
  <2>3. /\ invite' \in [Invites -> Invite] /\ invite'[i] = e
        /\ \A j \in Invites : j # i => invite'[j] = invite[j]
    BY <1>2, <2>2, RowStep
  <2>4. InviteTypes' /\ TokensFit' /\ LinksFit' /\ NewestUnderway' /\ MoveFits'
    BY <1>0, <2>1, <2>2, <2>3, RunQuiet
  <2>5. run'[d] = r /\ \A c \in Runs : c # d => run'[c] = run[c]
    BY <2>1 DEF InvitesInv, InviteTypes
  <2>6. \A j, k : Emailed(j, k)' <=> Emailed(j, k)
    BY <1>0 DEF Emailed
  <2>7. invite[i].claim[kind] = Unclaimed /\ Unclaimed \notin Runs
    BY <1>4, InviteBounds DEF Claimable, Unclaimed
  <2>8. RunsOnInvites'
    BY <1>2, <2>1, <2>5 DEF InvitesInv, ClaimsFit, RunsOnInvites
  <2>9. ClaimsHeld'
    <3> SUFFICES ASSUME NEW c \in Runs, NEW j \in Invites, NEW k \in Kinds,
                        run'[c].pc \in {"token", "mail", "mark", "release"},
                        run'[c].i = j, run'[c].kind = k, <<j, k>> \notin repeatable
                 PROVE  invite'[j].claim[k] = c /\ (run'[c].pc # "mark" => ~Emailed(j, k)')
      BY <1>0 DEF ClaimsHeld
    <3>1. CASE c = d
      BY <2>1, <2>2, <2>3, <2>5, <2>6, <2>7, <3>1 DEF InvitesInv, ClaimsFit, EmailedClaimed
    <3>2. CASE c # d
      <4>1. invite[j].claim[k] = c /\ (run'[c].pc # "mark" => ~Emailed(j, k))
        BY <2>5, <3>2 DEF InvitesInv, ClaimsFit, ClaimsHeld
      <4>2. invite'[j].claim[k] = c
        BY <2>2, <2>3, <2>7, <4>1
      <4> QED BY <2>6, <4>1, <4>2
    <3> QED BY <3>1, <3>2
  <2>10. EmailedClaimed'
    <3> SUFFICES ASSUME NEW j \in Invites, NEW k \in Kinds, <<j, k>> \notin repeatable, Emailed(j, k)
                 PROVE  invite'[j].claim[k] # Unclaimed
      BY <1>0, <2>6 DEF EmailedClaimed
    <3>1. invite[j].claim[k] # Unclaimed
      BY DEF InvitesInv, ClaimsFit, EmailedClaimed
    <3> QED BY <2>2, <2>3, <2>7, <3>1
  <2>11. EmailsApart'
    BY <1>0 DEF InvitesInv, ClaimsFit, EmailsApart
  <2> QED BY <2>4, <2>8, <2>9, <2>10, <2>11 DEF InvitesInv, ClaimsFit
<1> QED BY <1>0, <1>1, <1>3, <1>4 DEF ClaimInvite

\* A link that is issued to an invite.
LEMMA IssueStep ==
  ASSUME InvitesInv, NEW i \in Invites, Issue
  PROVE  /\ Issued(invite[i], tokens + 1) \in Invite /\ tokens' \in 0 .. MaxTokens
         /\ tokens' = tokens + 1 /\ tokens + 1 \in Nat
         /\ Issued(invite[i], tokens + 1).token = tokens + 1
         /\ Issued(invite[i], tokens + 1).email = invite[i].email
         /\ Issued(invite[i], tokens + 1).claim = invite[i].claim
<1>1. PICK entry \in Invite : entry = invite[i]
  BY DEF InvitesInv, InviteTypes
<1>2. tokens \in Nat /\ tokens' = tokens + 1 /\ tokens' \in 0 .. MaxTokens
  BY InviteBounds DEF InvitesInv, InviteTypes, Issue
<1>3. PICK n \in Nat : n = tokens + 1
  BY <1>2
<1> DEFINE e == Issued(entry, n)
<1>4. e \in Invite
  BY DEF Issued, Invite
<1>5. e.token = n /\ e.email = entry.email /\ e.claim = entry.claim
  BY DEF Issued, Invite
<1> HIDE DEF e
<1>6. e = Issued(invite[i], tokens + 1)
  BY <1>1, <1>3 DEF e
<1> QED BY <1>1, <1>2, <1>3, <1>4, <1>5, <1>6

LEMMA SetTokenStep ==
  ASSUME InvitesInv, NEW d \in Runs, SetToken(d)
  PROVE  InvitesInv'
<1>0. /\ run[d].pc = "token" /\ UNCHANGED <<account, resend, move, mails, unmailed, repeatable, misled>>
      /\ inviteFaults' \in 0 .. MaxInviteFaults
  BY InviteBounds DEF SetToken, Fault, InvitesInv, InviteTypes
<1>1. PICK job \in Delivery : job = run[d]
  BY DEF InvitesInv, InviteTypes
<1>2. job.i \in Invites /\ job.kind \in Kinds
  BY <1>0, <1>1 DEF InvitesInv, ClaimsFit, RunsOnInvites, Delivery
<1> DEFINE i == job.i
<1>3. CASE ToRun(d, [job EXCEPT !.pc = "release"]) /\ UNCHANGED <<invite, tokens, crossed>>
  <2>1. PICK r \in Delivery : r.pc = "release" /\ r.i = i /\ r.kind = job.kind /\ run' = [run EXCEPT ![d] = r]
    BY <1>3 DEF ToRun, Delivery
  <2>2. InviteTypes' /\ TokensFit' /\ LinksFit' /\ NewestUnderway' /\ MoveFits'
    BY <1>0, <1>3, <2>1, RunQuiet DEF InvitesInv, InviteTypes
  <2>3. ClaimsFit'
    BY <1>0, <1>1, <1>2, <1>3, <2>1, RunClaims
  <2> QED BY <2>2, <2>3 DEF InvitesInv
<1>4. CASE /\ Issue /\ Row(i, Issued(invite[i], tokens + 1))
           /\ ToRun(d, [job EXCEPT !.pc = "mail", !.token = tokens + 1])
           /\ crossed' = IF job.to # invite[i].email THEN crossed \cup {i} ELSE crossed
  <2>0. /\ tokens' \in 0 .. MaxTokens /\ tokens' = tokens + 1 /\ tokens + 1 \in Nat
        /\ Issued(invite[i], tokens + 1) \in Invite
        /\ Issued(invite[i], tokens + 1).token = tokens + 1
        /\ Issued(invite[i], tokens + 1).email = invite[i].email
        /\ Issued(invite[i], tokens + 1).claim = invite[i].claim
    BY <1>2, <1>4, IssueStep
  <2>1. PICK r \in Delivery : /\ r.pc = "mail" /\ r.i = i /\ r.kind = job.kind /\ r.to = job.to
                              /\ r.token = tokens + 1 /\ run' = [run EXCEPT ![d] = r]
    <3>1. [job EXCEPT !.pc = "mail", !.token = tokens + 1] \in Delivery
      BY <2>0 DEF Delivery
    <3> QED BY <1>4, <3>1 DEF ToRun, Delivery
  <2>2. PICK e \in Invite : /\ invite' = [invite EXCEPT ![i] = e] /\ e.token = tokens + 1
                            /\ e.email = invite[i].email /\ e.claim = invite[i].claim
    BY <1>4, <2>0 DEF Row
  <2>3. /\ invite' \in [Invites -> Invite] /\ invite'[i] = e
        /\ \A j \in Invites : j # i => invite'[j] = invite[j]
    BY <1>2, <2>2, RowStep
  <2>4. /\ run' \in [Runs -> Delivery]
        /\ \A j, k, to : Comes(j, k, to)' => Comes(j, k, to) \/ Coming(r, j, k, to)
        /\ \A j, k, to : Comes(j, k, to) => Comes(j, k, to)'
        /\ \A j, k, to : Coming(r, j, k, to) => Comes(j, k, to)'
    BY <1>0, <2>1, RunStep
  <2>5. InviteTypes'
    BY <1>0, <2>0, <2>3, <2>4 DEF InvitesInv, InviteTypes
  <2>6. \A j, k, to : Coming(r, j, k, to) <=> j = i /\ k = tokens + 1 /\ to = job.to
    BY <2>1 DEF Coming
  <2>7. \A j, k, to : SentTo(j, k, to)' <=> SentTo(j, k, to)
    BY <1>0, SentKept
  <2>8. i \notin crossed' =>
          \A k \in Nat, to \in Emails : Comes(i, k, to)' => to = invite'[i].email
    <3> SUFFICES ASSUME i \notin crossed', NEW k \in Nat, NEW to \in Emails, Comes(i, k, to)'
                 PROVE  to = invite'[i].email
      OBVIOUS
    <3>1. i \notin crossed /\ job.to = invite[i].email
      BY <1>4
    <3>2. Comes(i, k, to) => to = invite[i].email
      BY <1>2, <3>1 DEF InvitesInv, LinksFit
    <3> QED BY <2>2, <2>3, <2>4, <2>6, <3>1, <3>2
  <2>9. \E k \in Nat, to \in Emails : k = tokens + 1 /\ Comes(i, k, to)'
    BY <2>0, <2>4, <2>6 DEF Delivery
  <2>10. \A q \in Resends : resend'[q].pc \in {"replace", "mail"} => resend'[q].i \in Invites
    BY <1>0 DEF InvitesInv, LinksFit
  <2>11. TokensFit' /\ LinksFit' /\ NewestUnderway'
    <3>1. ~misled' /\ crossed \subseteq crossed' /\ unmailed \subseteq unmailed'
      BY <1>0, <1>4 DEF InvitesInv, LinksFit
    <3>2. \A j \in Invites, k \in Nat, to \in Emails :
            Comes(j, k, to)' => Comes(j, k, to) \/ (j = i /\ k = tokens + 1)
      BY <2>4, <2>6
    <3>3. invite'[i].token = tokens + 1 /\ \A j \in Invites \ {i} : invite'[j] = invite[j]
      BY <2>2, <2>3
    <3> QED BY <1>2, <2>0, <2>4, <2>7, <2>8, <2>9, <2>10, <3>1, <3>2, <3>3, Issuing
  <2>12. MoveFits'
    BY <1>0, <2>2, <2>3, MoveKept
  <2>13. ClaimsFit'
    BY <1>0, <1>1, <1>2, <2>1, <2>2, <2>3, RunClaims
  <2> QED BY <2>5, <2>11, <2>12, <2>13 DEF InvitesInv
<1> QED BY <1>0, <1>1, <1>3, <1>4 DEF SetToken

LEMMA MailStep ==
  ASSUME InvitesInv, NEW d \in Runs, MailRun(d)
  PROVE  InvitesInv'
<1>0. /\ run[d].pc = "mail" /\ UNCHANGED <<invite, account, tokens, resend, move, crossed, misled>>
      /\ inviteFaults' \in 0 .. MaxInviteFaults /\ unmailed \subseteq unmailed'
  BY InviteBounds DEF MailRun, Fault, InvitesInv, InviteTypes
<1>1. PICK job \in Delivery : job = run[d]
  BY DEF InvitesInv, InviteTypes
<1>2. job.i \in Invites /\ job.kind \in Kinds
  BY <1>0, <1>1 DEF InvitesInv, ClaimsFit, RunsOnInvites, Delivery
<1> DEFINE i == job.i  kind == job.kind
<1>3. CASE /\ mails' = mails \cup {Mailed(job, kind)} /\ repeatable \subseteq repeatable'
           /\ \E pc \in {"mark", "release"} :
                ToRun(d, [job EXCEPT !.pc = pc]) /\ (pc = "release" => <<i, kind>> \in repeatable')
  <2>1. PICK r \in Delivery : /\ r.pc \in {"mark", "release"} /\ r.i = i /\ r.kind = kind
                              /\ run' = [run EXCEPT ![d] = r]
                              /\ r.pc = "release" => <<i, kind>> \in repeatable'
    <3>1. PICK pc \in {"mark", "release"} : /\ ToRun(d, [job EXCEPT !.pc = pc])
                                            /\ pc = "release" => <<i, kind>> \in repeatable'
      BY <1>3
    <3>2. PICK r : r = [job EXCEPT !.pc = pc]
      OBVIOUS
    <3>3. r \in Delivery /\ r.pc = pc /\ r.i = i /\ r.kind = kind
      BY <3>2 DEF Delivery
    <3>4. run' = [run EXCEPT ![d] = r]
      BY <3>1, <3>2 DEF ToRun
    <3> HIDE DEF i, kind
    <3> QED BY <3>1, <3>3, <3>4
  <2>2. InviteTypes' /\ TokensFit' /\ LinksFit' /\ NewestUnderway' /\ MoveFits'
    BY <1>0, <1>1, <1>3, <2>1, RunQuiet DEF InvitesInv, InviteTypes
  <2>3. run'[d] = r /\ \A c \in Runs : c # d => run'[c] = run[c]
    BY <2>1 DEF InvitesInv, InviteTypes
  <2>4. PICK letter : /\ letter.invite = i /\ letter.kind = kind
                      /\ mails' = mails \cup {letter}
    BY <1>3 DEF Mailed
  <2>5. \A j, k : Emailed(j, k)' <=> Emailed(j, k) \/ (j = i /\ k = kind)
    BY <2>4 DEF Emailed
  <2>6. <<i, kind>> \notin repeatable => invite[i].claim[kind] = d /\ ~Emailed(i, kind)
    BY <1>0, <1>1, <1>2 DEF InvitesInv, ClaimsFit, ClaimsHeld
  <2>7. RunsOnInvites'
    BY <1>2, <2>1, <2>3 DEF InvitesInv, ClaimsFit, RunsOnInvites
  <2>8. ClaimsHeld'
    <3> SUFFICES ASSUME NEW c \in Runs, NEW j \in Invites, NEW k \in Kinds,
                        run'[c].pc \in {"token", "mail", "mark", "release"},
                        run'[c].i = j, run'[c].kind = k, <<j, k>> \notin repeatable'
                 PROVE  invite[j].claim[k] = c /\ (run'[c].pc # "mark" => ~Emailed(j, k)')
      BY <1>0 DEF ClaimsHeld
    <3>1. CASE c = d
      BY <1>3, <2>1, <2>3, <2>6, <3>1
    <3>2. CASE c # d
      <4>1. invite[j].claim[k] = c /\ (run'[c].pc # "mark" => ~Emailed(j, k))
        BY <1>3, <2>3, <3>2 DEF InvitesInv, ClaimsFit, ClaimsHeld
      <4>2. ~(j = i /\ k = kind)
        BY <1>3, <2>6, <3>2, <4>1
      <4> QED BY <2>5, <4>1, <4>2
    <3> QED BY <3>1, <3>2
  <2>9. EmailedClaimed'
    <3> SUFFICES ASSUME NEW j \in Invites, NEW k \in Kinds, <<j, k>> \notin repeatable', Emailed(j, k)'
                 PROVE  invite[j].claim[k] # Unclaimed
      BY <1>0 DEF EmailedClaimed
    <3>1. <<j, k>> \notin repeatable
      BY <1>3
    <3>2. CASE Emailed(j, k)
      BY <3>1, <3>2 DEF InvitesInv, ClaimsFit, EmailedClaimed
    <3>3. CASE j = i /\ k = kind
      BY <2>6, <3>1, <3>3, InviteBounds DEF Unclaimed
    <3> QED BY <2>5, <3>2, <3>3
  <2>10. EmailsApart'
    <3> SUFFICES ASSUME NEW l \in mails', NEW m \in mails', l.invite = m.invite, l.kind = m.kind,
                        l.kind \in Kinds, <<l.invite, l.kind>> \notin repeatable'
                 PROVE  l = m
      BY DEF EmailsApart
    <3>1. <<l.invite, l.kind>> \notin repeatable
      BY <1>3
    <3>2. CASE l \in mails /\ m \in mails
      BY <3>1, <3>2 DEF InvitesInv, ClaimsFit, EmailsApart
    <3>3. CASE l \in mails /\ m = letter
      BY <2>4, <2>6, <3>1, <3>3 DEF Emailed
    <3>4. CASE l = letter /\ m \in mails
      BY <2>4, <2>6, <3>1, <3>4 DEF Emailed
    <3> QED BY <2>4, <3>2, <3>3, <3>4
  <2> QED BY <2>2, <2>7, <2>8, <2>9, <2>10 DEF InvitesInv, ClaimsFit
<1>4. CASE /\ ToRun(d, [job EXCEPT !.pc = "release"]) /\ mails' = mails
           /\ unmailed' = unmailed \cup {i} /\ repeatable' = repeatable
  <2>1. PICK r \in Delivery : r.pc = "release" /\ r.i = i /\ r.kind = kind /\ run' = [run EXCEPT ![d] = r]
    BY <1>4 DEF ToRun, Delivery
  <2>2. InviteTypes' /\ TokensFit' /\ LinksFit' /\ NewestUnderway' /\ MoveFits'
    BY <1>0, <1>1, <1>4, <2>1, RunQuiet DEF InvitesInv, InviteTypes
  <2>3. ClaimsFit'
    BY <1>0, <1>1, <1>2, <1>4, <2>1, RunClaims
  <2> QED BY <2>2, <2>3 DEF InvitesInv
<1> QED BY <1>1, <1>3, <1>4 DEF MailRun

LEMMA ReleaseStep ==
  ASSUME InvitesInv, NEW d \in Runs, ReleaseClaim(d)
  PROVE  InvitesInv'
<1>0. /\ run[d].pc = "release" /\ ToRun(d, NoRun) /\ inviteFaults' \in 0 .. MaxInviteFaults
      /\ UNCHANGED <<account, tokens, resend, move, mails, crossed, unmailed, repeatable, misled>>
  BY InviteBounds DEF ReleaseClaim, history, Fault, InvitesInv, InviteTypes
<1>1. PICK job \in Delivery : job = run[d]
  BY DEF InvitesInv, InviteTypes
<1>2. job.i \in Invites /\ job.kind \in Kinds
  BY <1>0, <1>1 DEF InvitesInv, ClaimsFit, RunsOnInvites, Delivery
<1> DEFINE i == job.i  kind == job.kind
<1>3. CASE invite' = invite
  BY <1>0, <1>3, RunOver
<1>4. CASE Row(i, [invite[i] EXCEPT !.claim[kind] = Unclaimed])
  <2>1. PICK e \in Invite : /\ invite' = [invite EXCEPT ![i] = e]
                            /\ \A k \in Kinds : k # kind => e.claim[k] = invite[i].claim[k]
                            /\ e.token = invite[i].token /\ e.email = invite[i].email
                            /\ e.expired = invite[i].expired
    <3>1. PICK entry \in Invite : entry = invite[i]
      BY <1>2 DEF InvitesInv, InviteTypes
    <3>2. PICK e : e = [entry EXCEPT !.claim[kind] = Unclaimed]
      OBVIOUS
    <3>3. e \in Invite
      BY <1>2, <3>2 DEF Invite
    <3>4. \A k \in Kinds : k # kind => e.claim[k] = entry.claim[k]
      BY <1>2, <3>2 DEF Invite
    <3>5. e.token = entry.token /\ e.email = entry.email /\ e.expired = entry.expired
      BY <3>2 DEF Invite
    <3>6. invite' = [invite EXCEPT ![i] = e]
      BY <1>4, <3>1, <3>2 DEF Row
    <3> QED BY <3>1, <3>3, <3>4, <3>5, <3>6
  <2>2. /\ invite' \in [Invites -> Invite] /\ invite'[i] = e
        /\ \A j \in Invites : j # i => invite'[j] = invite[j]
    BY <1>2, <2>1, RowStep
  <2>3. InviteTypes' /\ TokensFit' /\ LinksFit' /\ NewestUnderway' /\ MoveFits'
    BY <1>0, <2>1, <2>2, NoRunFits, RunQuiet DEF ToRun
  <2>4. run'[d] = NoRun /\ \A c \in Runs : c # d => run'[c] = run[c]
    BY <1>0 DEF ToRun, InvitesInv, InviteTypes
  <2>5. \A j, k : Emailed(j, k)' <=> Emailed(j, k)
    BY <1>0 DEF Emailed
  <2>6. <<i, kind>> \notin repeatable => invite[i].claim[kind] = d /\ ~Emailed(i, kind)
    BY <1>0, <1>1, <1>2 DEF InvitesInv, ClaimsFit, ClaimsHeld
  <2>7. RunsOnInvites'
    BY <2>4, NoRunFits DEF InvitesInv, ClaimsFit, RunsOnInvites
  <2>8. ClaimsHeld'
    <3> SUFFICES ASSUME NEW c \in Runs, NEW j \in Invites, NEW k \in Kinds,
                        run'[c].pc \in {"token", "mail", "mark", "release"},
                        run'[c].i = j, run'[c].kind = k, <<j, k>> \notin repeatable
                 PROVE  invite'[j].claim[k] = c /\ (run'[c].pc # "mark" => ~Emailed(j, k)')
      BY <1>0 DEF ClaimsHeld
    <3>1. c # d
      BY <2>4, NoRunFits
    <3>2. invite[j].claim[k] = c /\ (run'[c].pc # "mark" => ~Emailed(j, k))
      BY <2>4, <3>1 DEF InvitesInv, ClaimsFit, ClaimsHeld
    <3>3. ~(j = i /\ k = kind)
      BY <2>6, <3>1, <3>2
    <3> QED BY <2>1, <2>2, <2>5, <3>2, <3>3
  <2>9. EmailedClaimed'
    <3> SUFFICES ASSUME NEW j \in Invites, NEW k \in Kinds, <<j, k>> \notin repeatable, Emailed(j, k)
                 PROVE  invite'[j].claim[k] # Unclaimed
      BY <1>0, <2>5 DEF EmailedClaimed
    <3>1. invite[j].claim[k] # Unclaimed
      BY DEF InvitesInv, ClaimsFit, EmailedClaimed
    <3>2. ~(j = i /\ k = kind)
      BY <2>6
    <3> QED BY <2>1, <2>2, <3>1, <3>2
  <2>10. EmailsApart'
    BY <1>0 DEF InvitesInv, ClaimsFit, EmailsApart
  <2> QED BY <2>3, <2>7, <2>8, <2>9, <2>10 DEF InvitesInv, ClaimsFit
<1>5. invite' = invite \/ Row(i, [invite[i] EXCEPT !.claim[kind] = Unclaimed])
  <2>1. invite \in [Invites -> Invite]
    BY DEF InvitesInv, InviteTypes
  <2>2. Row(i, Released(invite[i], kind, d)) \/ invite' = invite
    BY <1>1 DEF ReleaseClaim
  <2>3. Row(i, invite[i]) => invite' = invite
    BY <1>2, <2>1 DEF Row
  <2> QED BY <2>2, <2>3 DEF Released
<1> QED BY <1>3, <1>4, <1>5

LEMMA MarkStep ==
  ASSUME InvitesInv, NEW d \in Runs, Mark(d)
  PROVE  InvitesInv'
<1>0. /\ run[d].pc = "mark" /\ ToRun(d, NoRun) /\ inviteFaults' \in 0 .. MaxInviteFaults
      /\ UNCHANGED <<account, tokens, resend, move, mails, crossed, unmailed, repeatable, misled>>
  BY InviteBounds DEF Mark, history, Fault, InvitesInv, InviteTypes
<1>1. PICK job \in Delivery : job = run[d]
  BY DEF InvitesInv, InviteTypes
<1>2. job.i \in Invites /\ job.kind \in Kinds
  BY <1>0, <1>1 DEF InvitesInv, ClaimsFit, RunsOnInvites, Delivery
<1>3. CASE invite' = invite
  BY <1>0, <1>3, RunOver
<1>4. CASE Row(job.i, Marked(invite[job.i], job.kind))
  <2>1. PICK entry \in Invite : entry = invite[job.i]
    BY <1>2 DEF InvitesInv, InviteTypes
  <2>2. PICK e : e = Marked(entry, job.kind)
    OBVIOUS
  <2>3. e \in Invite
    BY <1>2, <2>2 DEF Invite, Marked
  <2>4. e.token = entry.token /\ e.email = entry.email /\ e.expired = entry.expired /\ e.claim = entry.claim
    BY <2>2 DEF Invite, Marked
  <2>5. invite' = [invite EXCEPT ![job.i] = e]
    BY <1>4, <2>1, <2>2 DEF Row
  <2>6. /\ invite' \in [Invites -> Invite] /\ invite'[job.i] = e
        /\ \A j \in Invites : j # job.i => invite'[j] = invite[j]
    BY <1>2, <2>3, <2>5, RowStep
  <2>7. InviteTypes' /\ TokensFit' /\ LinksFit' /\ NewestUnderway' /\ MoveFits'
    BY <1>0, <2>1, <2>4, <2>6, NoRunFits, RunQuiet DEF ToRun
  <2>8. ClaimsFit'
    BY <1>0, <2>1, <2>4, <2>6, NoRunFits, RunClaims DEF ToRun
  <2> QED BY <2>7, <2>8 DEF InvitesInv
<1> QED BY <1>1, <1>3, <1>4 DEF Mark

LEMMA DieStep ==
  ASSUME InvitesInv, NEW d \in Runs, DieRun(d)
  PROVE  InvitesInv'
<1>1. inviteFaults' \in 0 .. MaxInviteFaults
  BY InviteBounds DEF DieRun, Fault, InvitesInv, InviteTypes
<1> QED BY <1>1, RunOver DEF DieRun

\* A step of the rows that leaves every address and every link as it is.
LEMMA RowsQuiet ==
  ASSUME InvitesInv, invite' \in [Invites -> Invite], ~misled',
         UNCHANGED <<account, tokens, run, resend, move, mails, crossed, unmailed, inviteFaults>>,
         \A j \in Invites : /\ invite'[j].token = invite[j].token /\ invite'[j].email = invite[j].email
                            /\ invite'[j].token = 0 => invite'[j].expired = TRUE
  PROVE  InviteTypes' /\ TokensFit' /\ LinksFit' /\ NewestUnderway' /\ MoveFits'
<1>1. InviteTypes'
  BY DEF InvitesInv, InviteTypes
<1>2. \A i, k, to : (Comes(i, k, to)' <=> Comes(i, k, to)) /\ (SentTo(i, k, to)' <=> SentTo(i, k, to))
  BY DEF Comes, SentTo
<1>3. \A q \in Resends : resend'[q].pc \in {"replace", "mail"} => resend'[q].i \in Invites
  BY DEF InvitesInv, LinksFit
<1>4. TokensFit' /\ LinksFit' /\ NewestUnderway'
  BY <1>2, <1>3, Neutral
<1> QED BY <1>1, <1>4, MoveKept

LEMMA ReleaseStaleStep ==
  ASSUME InvitesInv, NEW kind \in Kinds, ReleaseStale(kind)
  PROVE  InvitesInv'
<1>1. PICK stale : /\ stale \subseteq Invites /\ repeatable' = repeatable \cup (stale \X {kind})
                   /\ invite' = [i \in Invites |->
                        IF i \in stale THEN [invite[i] EXCEPT !.claim[kind] = Unclaimed] ELSE invite[i]]
  BY DEF ReleaseStale, UnfinishedClaims
<1>2. UNCHANGED <<account, tokens, run, resend, move, mails, crossed, unmailed, misled, inviteFaults>>
  BY DEF ReleaseStale, jobs
<1>3. ASSUME NEW j \in Invites
      PROVE  /\ invite'[j] \in Invite
             /\ invite'[j].token = invite[j].token /\ invite'[j].email = invite[j].email
             /\ invite'[j].expired = invite[j].expired
             /\ \A k \in Kinds : <<j, k>> \in repeatable' \/ invite'[j].claim[k] = invite[j].claim[k]
  <2>1. PICK entry \in Invite : entry = invite[j]
    BY DEF InvitesInv, InviteTypes
  <2>2. CASE j \notin stale
    BY <1>1, <2>1, <2>2
  <2>3. CASE j \in stale
    <3>1. PICK e : e = [entry EXCEPT !.claim[kind] = Unclaimed]
      OBVIOUS
    <3>2. e \in Invite
      BY <3>1 DEF Invite
    <3>3. e.token = entry.token /\ e.email = entry.email /\ e.expired = entry.expired
      BY <3>1 DEF Invite
    <3>4. \A k \in Kinds : k # kind => e.claim[k] = entry.claim[k]
      BY <3>1 DEF Invite
    <3>5. invite'[j] = e
      BY <1>1, <2>1, <2>3, <3>1
    <3>6. <<j, kind>> \in repeatable'
      BY <1>1, <2>3
    <3> QED BY <2>1, <3>2, <3>3, <3>4, <3>5, <3>6
  <2> QED BY <2>2, <2>3
<1>4. invite' \in [Invites -> Invite]
  BY <1>1, <1>3
<1>5. /\ ~misled'
      /\ \A j \in Invites : invite'[j].token = 0 => invite'[j].expired = TRUE
  BY <1>2, <1>3 DEF InvitesInv, LinksFit, TokensFit, TokensInRange
<1>6. InviteTypes' /\ TokensFit' /\ LinksFit' /\ NewestUnderway' /\ MoveFits'
  BY <1>2, <1>3, <1>4, <1>5, RowsQuiet
<1>7. \A j, k : Emailed(j, k)' <=> Emailed(j, k)
  BY <1>2 DEF Emailed
<1>8. repeatable \subseteq repeatable'
  BY <1>1
<1>9. RunsOnInvites'
  BY <1>2 DEF InvitesInv, ClaimsFit, RunsOnInvites
<1>10. ClaimsHeld'
  BY <1>2, <1>3, <1>7, <1>8 DEF InvitesInv, ClaimsFit, ClaimsHeld
<1>11. EmailedClaimed'
  BY <1>3, <1>7, <1>8 DEF InvitesInv, ClaimsFit, EmailedClaimed
<1>12. EmailsApart'
  BY <1>2, <1>8 DEF InvitesInv, ClaimsFit, EmailsApart
<1> QED BY <1>6, <1>9, <1>10, <1>11, <1>12 DEF InvitesInv, ClaimsFit

\* A entry of which neither the address, the link nor the claims change.
LEMMA RowKept ==
  ASSUME InvitesInv, NEW i \in Invites, NEW e \in Invite, Row(i, e), ~misled',
         UNCHANGED <<account, tokens, run, resend, move, mails, crossed, unmailed, repeatable, inviteFaults>>,
         e.token = invite[i].token, e.email = invite[i].email, e.claim = invite[i].claim,
         e.token = 0 => e.expired = TRUE
  PROVE  InvitesInv'
<1>1. /\ invite' \in [Invites -> Invite] /\ invite'[i] = e
      /\ \A j \in Invites : j # i => invite'[j] = invite[j]
  BY RowStep DEF Row
<1>2. \A j \in Invites : invite'[j].token = 0 => invite'[j].expired = TRUE
  BY <1>1 DEF InvitesInv, TokensFit, TokensInRange
<1>3. InviteTypes' /\ TokensFit' /\ LinksFit' /\ NewestUnderway' /\ MoveFits'
  BY <1>1, <1>2, RowsQuiet
<1>4. ClaimsFit'
  BY <1>1, ClaimsKept
<1> QED BY <1>3, <1>4 DEF InvitesInv

LEMMA RedeemStep ==
  ASSUME InvitesInv, NEW letter \in mails, Redeem(letter)
  PROVE  InvitesInv'
<1>1. PICK i \in Invites : /\ invite[i].token = letter.token /\ ~invite[i].expired
                           /\ account = invite[i].email /\ Row(i, Redeemed(invite[i]))
  BY DEF Redeem, ByToken
<1>2. PICK entry \in Invite : entry = invite[i]
  BY DEF InvitesInv, InviteTypes
<1>3. ~misled'
  <2>1. letter.invite \in Invites /\ letter.token \in Nat /\ letter.to \in Emails
    BY DEF InvitesInv, InviteTypes, Letter
  <2>2. SentTo(letter.invite, letter.token, letter.to)
    BY DEF SentTo
  <2>3. IsOf(letter.token, letter.invite)
    BY <2>1, <2>2 DEF InvitesInv, TokensFit, LinksOfOne
  <2>4. i = letter.invite
    BY <1>1, <2>3 DEF IsOf
  <2>5. letter.invite \notin crossed => letter.to = account
    BY <1>1, <2>1, <2>2, <2>4 DEF InvitesInv, LinksFit
  <2> QED BY <2>5 DEF Redeem, InvitesInv, LinksFit
<1>4. PICK e : e = Redeemed(entry)
  OBVIOUS
<1>5. e \in Invite /\ e.token = entry.token /\ e.email = entry.email /\ e.claim = entry.claim /\ e.expired = entry.expired
  BY <1>4 DEF Redeemed, Invite
<1>6. e.token = 0 => e.expired = TRUE
  BY <1>2, <1>5 DEF InvitesInv, TokensFit, TokensInRange
<1>7. UNCHANGED <<account, tokens, run, resend, move, mails, crossed, unmailed, repeatable, inviteFaults>>
  BY DEF Redeem, jobs
<1>8. Row(i, e)
  BY <1>1, <1>2, <1>4
<1> QED BY <1>2, <1>3, <1>5, <1>6, <1>7, <1>8, RowKept

LEMMA CompleteStep ==
  ASSUME InvitesInv, CompleteInvites
  PROVE  InvitesInv'
<1>1. UNCHANGED <<account, tokens, run, resend, move, mails, crossed, unmailed, repeatable, misled, inviteFaults>>
  BY DEF CompleteInvites, jobs, history
<1>2. ASSUME NEW j \in Invites
      PROVE  /\ invite'[j] \in Invite /\ invite'[j].token = invite[j].token
             /\ invite'[j].email = invite[j].email /\ invite'[j].expired = invite[j].expired
             /\ invite'[j].claim = invite[j].claim
  <2>1. PICK entry \in Invite : entry = invite[j]
    BY DEF InvitesInv, InviteTypes
  <2>2. PICK e : e = [entry EXCEPT !.activated = TRUE]
    OBVIOUS
  <2>3. e \in Invite /\ e.token = entry.token /\ e.email = entry.email /\ e.claim = entry.claim /\ e.expired = entry.expired
    BY <2>2 DEF Invite
  <2>4. invite'[j] = e
    BY <2>1, <2>2 DEF CompleteInvites, MarkActivated
  <2> QED BY <2>1, <2>3, <2>4
<1>3. invite' \in [Invites -> Invite]
  BY <1>2 DEF CompleteInvites, MarkActivated
<1>4. ~misled' /\ \A j \in Invites : invite'[j].token = 0 => invite'[j].expired = TRUE
  BY <1>1, <1>2 DEF InvitesInv, LinksFit, TokensFit, TokensInRange
<1>5. InviteTypes' /\ TokensFit' /\ LinksFit' /\ NewestUnderway' /\ MoveFits'
  BY <1>1, <1>2, <1>3, <1>4, RowsQuiet
<1>6. ClaimsFit'
  BY <1>1, <1>2, ClaimsKept
<1> QED BY <1>5, <1>6 DEF InvitesInv

LEMMA AgeStep ==
  ASSUME InvitesInv, NEW i \in Invites, Age(i)
  PROVE  InvitesInv'
<1>1. UNCHANGED <<account, tokens, run, resend, move, mails, crossed, unmailed, repeatable, misled, inviteFaults>>
  BY DEF Age, jobs, history
<1>2. PICK entry \in Invite : entry = invite[i] /\ (entry.token = 0 => entry.expired = TRUE)
  BY DEF InvitesInv, InviteTypes, TokensFit, TokensInRange
<1>3. PICK e : /\ Row(i, e)
               /\ \/ e = [entry EXCEPT !.fresh = FALSE]
                  \/ e = [entry EXCEPT !.week = TRUE]
                  \/ e = [entry EXCEPT !.expired = TRUE]
  BY <1>2 DEF Age
<1>4. e \in Invite /\ e.token = entry.token /\ e.email = entry.email /\ e.claim = entry.claim
  BY <1>3 DEF Invite
<1>5. entry.expired = TRUE => e.expired = TRUE
  BY <1>3 DEF Invite
<1>6. ~misled'
  BY <1>1 DEF InvitesInv, LinksFit
<1> QED BY <1>1, <1>2, <1>3, <1>4, <1>5, <1>6, RowKept

\* Nothing the invariant speaks of changes.
LEMMA Still ==
  ASSUME InvitesInv,
         UNCHANGED <<invite, account, tokens, run, resend, move, mails, crossed, unmailed, repeatable, misled, inviteFaults>>
  PROVE  InvitesInv'
<1>1. invite \in [Invites -> Invite] /\ ~misled
  BY DEF InvitesInv, InviteTypes, LinksFit
<1>2. \A j \in Invites : invite[j].token = 0 => invite[j].expired = TRUE
  BY DEF InvitesInv, TokensFit, TokensInRange
<1>3. InviteTypes' /\ TokensFit' /\ LinksFit' /\ NewestUnderway' /\ MoveFits'
  BY <1>1, <1>2, RowsQuiet
<1>4. ClaimsFit'
  BY ClaimsKept
<1> QED BY <1>3, <1>4 DEF InvitesInv

\* A step of a request that issues no link.
LEMMA LinkQuiet ==
  ASSUME InvitesInv, NEW q \in Resends, NEW r \in LinkRequest, resend' = [resend EXCEPT ![q] = r],
         r.pc # "mail", r.pc = "replace" => r.i \in Invites,
         UNCHANGED <<invite, account, tokens, run, move, crossed, repeatable, misled>>,
         unmailed \subseteq unmailed', inviteFaults' \in 0 .. MaxInviteFaults,
         \/ mails' = mails /\ (resend[q].pc = "mail" => resend[q].i \in unmailed')
         \/ resend[q].pc = "mail" /\ mails' = mails \cup {Mailed(resend[q], "resend")}
  PROVE  InvitesInv'
<1>1. PICK job \in LinkRequest : job = resend[q]
  BY DEF InvitesInv, InviteTypes
<1>2. job.pc = "mail" => job.i \in Invites
  BY <1>1 DEF InvitesInv, LinksFit
<1>3. mails' \subseteq Letter
  BY <1>1, <1>2 DEF InvitesInv, InviteTypes, Mailed, LinkRequest, Letter
<1>4. InviteTypes'
  BY <1>3, ResendStep DEF InvitesInv, InviteTypes
<1>5. \A i, k, to : Comes(i, k, to)' => Comes(i, k, to)
  BY ResendStep
<1>6. \A i, k, to : Comes(i, k, to) => Comes(i, k, to)' \/ (job.pc = "mail" /\ Coming(job, i, k, to))
  BY <1>1, ResendStep
<1>7. /\ \A i, k, to : SentTo(i, k, to) => SentTo(i, k, to)'
      /\ \A i, k, to : SentTo(i, k, to)' => SentTo(i, k, to) \/ (job.pc = "mail" /\ Coming(job, i, k, to))
      /\ \A i, k, to : job.pc = "mail" /\ Coming(job, i, k, to) => i \in unmailed' \/ SentTo(i, k, to)'
      /\ \A letter : letter.kind \in Kinds => (letter \in mails' <=> letter \in mails)
  <2>1. CASE mails' = mails /\ (job.pc = "mail" => job.i \in unmailed')
    BY <2>1, SentKept DEF Coming
  <2>2. CASE job.pc = "mail" /\ mails' = mails \cup {Mailed(job, "resend")}
    <3>1. PICK letter : letter = Mailed(job, "resend")
      OBVIOUS
    <3>2. /\ letter.invite = job.i /\ letter.token = job.token /\ letter.to = job.to
          /\ letter.kind \notin Kinds
      BY <3>1 DEF Mailed, Kinds
    <3> QED BY <2>2, <3>1, <3>2, SentStep DEF Coming
  <2> QED BY <1>1, <2>1, <2>2
<1>8. \A i, k, to : job.pc = "mail" /\ Coming(job, i, k, to) => Comes(i, k, to)
  BY <1>1 DEF Comes
<1>9. \A c \in Resends : resend'[c].pc \in {"replace", "mail"} => resend'[c].i \in Invites
  BY ResendStep DEF InvitesInv, LinksFit
<1>10. ~misled' /\ \A j \in Invites : invite'[j].token = 0 => invite'[j].expired = TRUE
  BY DEF InvitesInv, LinksFit, TokensFit, TokensInRange
<1>11. \A i \in Invites, k \in Nat, to \in Emails :
          i \notin unmailed' /\ (SentTo(i, k, to) \/ Comes(i, k, to)) => SentTo(i, k, to)' \/ Comes(i, k, to)'
  BY <1>6, <1>7
<1>12. \A i \in Invites, k \in Nat, to \in Emails : SentTo(i, k, to)' => SentTo(i, k, to) \/ Comes(i, k, to)
  BY <1>7, <1>8
<1>13. TokensFit' /\ LinksFit' /\ NewestUnderway'
  BY <1>5, <1>9, <1>10, <1>11, <1>12, Neutral
<1>14. ClaimsFit'
  BY <1>7, ClaimsKept
<1> QED BY <1>4, <1>13, <1>14, MoveKept DEF InvitesInv

LEMMA NoRequestFits == NoRun \in LinkRequest /\ NoRun.pc = "idle"
BY InviteBounds DEF NoRun, LinkRequest, Kinds

LEMMA RequestStep ==
  ASSUME InvitesInv, NEW q \in Resends, NEW e \in Emails, RequestLink(q, e)
  PROVE  InvitesInv'
<1>1. PICK r : r = [NoRun EXCEPT !.pc = "read", !.to = e]
  OBVIOUS
<1>2. r \in LinkRequest /\ r.pc = "read"
  BY <1>1 DEF NoRun, LinkRequest
<1>3. resend' = [resend EXCEPT ![q] = r]
  BY <1>1 DEF RequestLink, ToResend
<1>4. /\ resend[q].pc = "idle" /\ inviteFaults' \in 0 .. MaxInviteFaults
      /\ UNCHANGED <<invite, account, tokens, run, move, mails, crossed, unmailed, repeatable, misled>>
  BY DEF RequestLink, history, InvitesInv, InviteTypes
<1> QED BY <1>2, <1>3, <1>4, LinkQuiet

LEMMA ReadLatestStep ==
  ASSUME InvitesInv, NEW q \in Resends, ReadLatest(q)
  PROVE  InvitesInv'
<1>1. /\ resend[q].pc = "read" /\ inviteFaults' \in 0 .. MaxInviteFaults
      /\ UNCHANGED <<invite, account, tokens, run, move, mails, crossed, unmailed, repeatable, misled>>
  BY DEF ReadLatest, history, InvitesInv, InviteTypes
<1>2. CASE ToResend(q, NoRun)
  BY <1>1, <1>2, NoRequestFits, LinkQuiet DEF ToResend
<1>3. ASSUME NEW i \in Invites, ToResend(q, [resend[q] EXCEPT !.pc = "replace", !.i = i])
      PROVE  InvitesInv'
  <2>1. PICK job \in LinkRequest : job = resend[q]
    BY DEF InvitesInv, InviteTypes
  <2>2. PICK r : r = [job EXCEPT !.pc = "replace", !.i = i]
    OBVIOUS
  <2>3. r \in LinkRequest /\ r.pc = "replace" /\ r.i = i
    BY <2>2 DEF LinkRequest
  <2> QED BY <1>1, <1>3, <2>1, <2>2, <2>3, LinkQuiet DEF ToResend
<1> QED BY <1>2, <1>3 DEF ReadLatest, LatestByEmail

LEMMA MailLinkStep ==
  ASSUME InvitesInv, NEW q \in Resends, MailLink(q)
  PROVE  InvitesInv'
<1>1. inviteFaults' \in 0 .. MaxInviteFaults
  BY InviteBounds DEF MailLink, Fault, InvitesInv, InviteTypes
<1>2. UNCHANGED <<invite, account, tokens, run, move, crossed, repeatable, misled>> /\ unmailed \subseteq unmailed'
  BY DEF MailLink
<1>3. \/ mails' = mails /\ (resend[q].pc = "mail" => resend[q].i \in unmailed')
      \/ resend[q].pc = "mail" /\ mails' = mails \cup {Mailed(resend[q], "resend")}
  BY DEF MailLink
<1>4. resend' = [resend EXCEPT ![q] = NoRun]
  BY DEF MailLink, ToResend
<1> QED BY <1>1, <1>2, <1>3, <1>4, NoRequestFits, LinkQuiet

LEMMA ReplaceStep ==
  ASSUME InvitesInv, NEW q \in Resends, Replace(q)
  PROVE  InvitesInv'
<1>0. /\ resend[q].pc = "replace" /\ inviteFaults' \in 0 .. MaxInviteFaults
      /\ UNCHANGED <<account, run, move, mails, unmailed, repeatable, misled>>
  BY DEF Replace, InvitesInv, InviteTypes
<1>1. PICK job \in LinkRequest : job = resend[q]
  BY DEF InvitesInv, InviteTypes
<1>2. job.i \in Invites
  BY <1>0, <1>1 DEF InvitesInv, LinksFit
<1> DEFINE i == job.i
<1>3. CASE ToResend(q, NoRun) /\ UNCHANGED <<invite, tokens, crossed>>
  BY <1>0, <1>3, NoRequestFits, LinkQuiet DEF ToResend
<1>4. CASE /\ Issue /\ Row(i, Issued(invite[i], tokens + 1))
           /\ ToResend(q, [job EXCEPT !.pc = "mail", !.token = tokens + 1])
           /\ crossed' = IF job.to # invite[i].email THEN crossed \cup {i} ELSE crossed
  <2>0. /\ tokens' \in 0 .. MaxTokens /\ tokens' = tokens + 1 /\ tokens + 1 \in Nat
        /\ Issued(invite[i], tokens + 1) \in Invite
        /\ Issued(invite[i], tokens + 1).token = tokens + 1
        /\ Issued(invite[i], tokens + 1).email = invite[i].email
        /\ Issued(invite[i], tokens + 1).claim = invite[i].claim
    BY <1>2, <1>4, IssueStep
  <2>1. PICK r \in LinkRequest : /\ r.pc = "mail" /\ r.i = i /\ r.to = job.to
                                 /\ r.token = tokens + 1 /\ resend' = [resend EXCEPT ![q] = r]
    <3>1. [job EXCEPT !.pc = "mail", !.token = tokens + 1] \in LinkRequest
      BY <2>0 DEF LinkRequest
    <3> QED BY <1>4, <3>1 DEF ToResend, LinkRequest
  <2>2. PICK e \in Invite : /\ invite' = [invite EXCEPT ![i] = e] /\ e.token = tokens + 1
                            /\ e.email = invite[i].email /\ e.claim = invite[i].claim
    BY <1>4, <2>0 DEF Row
  <2>3. /\ invite' \in [Invites -> Invite] /\ invite'[i] = e
        /\ \A j \in Invites : j # i => invite'[j] = invite[j]
    BY <1>2, <2>2, RowStep
  <2>4. /\ resend' \in [Resends -> LinkRequest] /\ resend'[q] = r
        /\ \A c \in Resends : c # q => resend'[c] = resend[c]
        /\ \A j, k, to : Comes(j, k, to)' => Comes(j, k, to) \/ Coming(r, j, k, to)
        /\ \A j, k, to : Comes(j, k, to) => Comes(j, k, to)'
        /\ \A j, k, to : Coming(r, j, k, to) => Comes(j, k, to)'
    BY <1>0, <2>1, ResendStep
  <2>5. InviteTypes'
    BY <1>0, <2>0, <2>3, <2>4 DEF InvitesInv, InviteTypes
  <2>6. \A j, k, to : Coming(r, j, k, to) <=> j = i /\ k = tokens + 1 /\ to = job.to
    BY <2>1 DEF Coming
  <2>7. \A j, k, to : SentTo(j, k, to)' <=> SentTo(j, k, to)
    BY <1>0, SentKept
  <2>8. i \notin crossed' =>
          \A k \in Nat, to \in Emails : Comes(i, k, to)' => to = invite'[i].email
    <3> SUFFICES ASSUME i \notin crossed', NEW k \in Nat, NEW to \in Emails, Comes(i, k, to)'
                 PROVE  to = invite'[i].email
      OBVIOUS
    <3>1. i \notin crossed /\ job.to = invite[i].email
      BY <1>4
    <3>2. Comes(i, k, to) => to = invite[i].email
      BY <1>2, <3>1 DEF InvitesInv, LinksFit
    <3> QED BY <2>2, <2>3, <2>4, <2>6, <3>1, <3>2
  <2>9. \E k \in Nat, to \in Emails : k = tokens + 1 /\ Comes(i, k, to)'
    BY <2>0, <2>4, <2>6 DEF LinkRequest
  <2>10. \A c \in Resends : resend'[c].pc \in {"replace", "mail"} => resend'[c].i \in Invites
    BY <1>2, <2>1, <2>4 DEF InvitesInv, LinksFit
  <2>11. TokensFit' /\ LinksFit' /\ NewestUnderway'
    <3>1. ~misled' /\ crossed \subseteq crossed' /\ unmailed \subseteq unmailed'
      BY <1>0, <1>4 DEF InvitesInv, LinksFit
    <3>2. \A j \in Invites, k \in Nat, to \in Emails :
            Comes(j, k, to)' => Comes(j, k, to) \/ (j = i /\ k = tokens + 1)
      BY <2>4, <2>6
    <3>3. invite'[i].token = tokens + 1 /\ \A j \in Invites \ {i} : invite'[j] = invite[j]
      BY <2>2, <2>3
    <3> QED BY <1>2, <2>0, <2>4, <2>7, <2>8, <2>9, <2>10, <3>1, <3>2, <3>3, Issuing
  <2>12. MoveFits'
    BY <1>0, <2>2, <2>3, MoveKept
  <2>13. ClaimsFit'
    BY <1>0, <2>2, <2>3, ClaimsKept
  <2> QED BY <2>5, <2>11, <2>12, <2>13 DEF InvitesInv
<1> QED BY <1>1, <1>3, <1>4 DEF Replace

MoveType == [pc: {"idle", "list", "move"}, rows: SUBSET MovedRow, unsent: SUBSET Reissue]

\* A step of a move that leaves the rows.
LEMMA MoveQuiet ==
  ASSUME InvitesInv, MoveFits', move' \in MoveType, account' \in Emails,
         UNCHANGED <<invite, tokens, run, resend, crossed, repeatable, misled>>,
         unmailed \subseteq unmailed', inviteFaults' \in 0 .. MaxInviteFaults,
         move'.unsent \subseteq move.unsent,
         \/ mails' = mails /\ \A r \in move.unsent \ move'.unsent : r.i \in unmailed'
         \/ \E r \in move.unsent :
              mails' = mails \cup {Mailed(r, "move")} /\ move'.unsent = move.unsent \ {r}
  PROVE  InvitesInv'
<1>1. \A i, k, to : Comes(i, k, to)' => Comes(i, k, to)
  BY MoveStep
<1>2. \A i, k, to : \A r \in move.unsent : Coming(r, i, k, to) => Comes(i, k, to)
  BY DEF Comes
<1>3. /\ mails' \subseteq Letter
      /\ \A letter : letter.kind \in Kinds => (letter \in mails' <=> letter \in mails)
      /\ \A i, k, to : SentTo(i, k, to) => SentTo(i, k, to)'
      /\ \A i, k, to : SentTo(i, k, to)' => SentTo(i, k, to) \/ Comes(i, k, to)
      /\ \A i, k, to : Comes(i, k, to) => i \in unmailed' \/ Comes(i, k, to)' \/ SentTo(i, k, to)'
  <2>1. CASE mails' = mails /\ \A r \in move.unsent \ move'.unsent : r.i \in unmailed'
    <3>1. mails' \subseteq Letter
      BY <2>1 DEF InvitesInv, InviteTypes
    <3>2. \A i, k, to : SentTo(i, k, to)' <=> SentTo(i, k, to)
      BY <2>1, SentKept
    <3>3. \A i, k, to : Comes(i, k, to) => i \in unmailed' \/ Comes(i, k, to)'
      BY <2>1, MoveStep DEF Coming
    <3> QED BY <2>1, <3>1, <3>2, <3>3
  <2>2. ASSUME NEW r \in move.unsent, mails' = mails \cup {Mailed(r, "move")},
               move'.unsent = move.unsent \ {r}
        PROVE  /\ mails' \subseteq Letter
               /\ \A letter : letter.kind \in Kinds => (letter \in mails' <=> letter \in mails)
               /\ \A i, k, to : SentTo(i, k, to) => SentTo(i, k, to)'
               /\ \A i, k, to : SentTo(i, k, to)' => SentTo(i, k, to) \/ Comes(i, k, to)
               /\ \A i, k, to : Comes(i, k, to) => i \in unmailed' \/ Comes(i, k, to)' \/ SentTo(i, k, to)'
    <3>1. PICK letter : letter = Mailed(r, "move")
      OBVIOUS
    <3>2. /\ letter.invite = r.i /\ letter.token = r.token /\ letter.to = r.to
          /\ letter.kind \notin Kinds
      BY <3>1 DEF Mailed, Kinds
    <3>3. letter \in Letter
      BY <3>1 DEF Mailed, Letter, InvitesInv, InviteTypes, Reissue
    <3>4. \A i, k, to : SentTo(i, k, to)' <=> SentTo(i, k, to) \/ Coming(r, i, k, to)
      BY <2>2, <3>1, <3>2, SentStep DEF Coming
    <3>5. \A i, k, to : Comes(i, k, to) => Comes(i, k, to)' \/ Coming(r, i, k, to)
      BY <2>2, MoveStep
    <3>6. mails \subseteq Letter /\ mails' = mails \cup {letter}
      BY <2>2, <3>1 DEF InvitesInv, InviteTypes
    <3> QED BY <1>2, <3>2, <3>3, <3>4, <3>5, <3>6
  <2> QED BY <2>1, <2>2
<1>4. InviteTypes'
  BY <1>3 DEF InvitesInv, InviteTypes, MoveType
<1>5. /\ ~misled' /\ \A j \in Invites : invite'[j].token = 0 => invite'[j].expired = TRUE
      /\ \A q \in Resends : resend'[q].pc \in {"replace", "mail"} => resend'[q].i \in Invites
  BY DEF InvitesInv, LinksFit, TokensFit, TokensInRange
<1>6. TokensFit' /\ LinksFit' /\ NewestUnderway'
  BY <1>1, <1>3, <1>5, Neutral
<1>7. ClaimsFit'
  BY <1>3, ClaimsKept
<1> QED BY <1>4, <1>6, <1>7 DEF InvitesInv

LEMMA ChangeStep ==
  ASSUME InvitesInv, NEW e \in Emails, ChangeAddress(e)
  PROVE  InvitesInv'
<1>1. PICK m \in MoveType : m = move /\ m.rows = {} /\ m.unsent = {}
  BY DEF InvitesInv, InviteTypes, MoveType, MoveFits, ChangeAddress
<1>2. PICK n : n = [m EXCEPT !.pc = "list"]
  OBVIOUS
<1>3. n \in MoveType /\ n.pc = "list" /\ n.rows = {} /\ n.unsent = {}
  BY <1>1, <1>2 DEF MoveType
<1>4. move' = n
  BY <1>1, <1>2 DEF ChangeAddress
<1>5. MoveFits'
  BY <1>3, <1>4 DEF MoveFits
<1>6. /\ UNCHANGED <<invite, tokens, run, resend, crossed, repeatable, misled, mails, unmailed>>
      /\ inviteFaults' \in 0 .. MaxInviteFaults /\ account' \in Emails
  BY DEF ChangeAddress, history, InvitesInv, InviteTypes
<1> QED BY <1>1, <1>3, <1>4, <1>5, <1>6, MoveQuiet

LEMMA ListStep ==
  ASSUME InvitesInv, ListInvites
  PROVE  InvitesInv'
<1>1. PICK m \in MoveType : m = move /\ m.rows = {} /\ m.unsent = {}
  BY DEF InvitesInv, InviteTypes, MoveType, MoveFits, ListInvites
<1>2. PICK rows : rows = {[i |-> i, row |-> invite[i]] : i \in {j \in Invites : invite[j].email # account}}
  OBVIOUS
<1>3. rows \subseteq MovedRow /\ \A read \in rows : read.row.email # account
  BY <1>2 DEF InvitesInv, InviteTypes, MovedRow
<1>4. PICK n : n = [m EXCEPT !.pc = "move", !.rows = rows]
  OBVIOUS
<1>5. n \in MoveType /\ n.pc = "move" /\ n.rows = rows /\ n.unsent = {}
  BY <1>1, <1>3, <1>4 DEF MoveType
<1>6. move' = n
  BY <1>1, <1>2, <1>4 DEF ListInvites
<1>7. UNCHANGED <<invite, account, tokens, run, resend, crossed, repeatable, misled, mails, unmailed, inviteFaults>>
  BY DEF ListInvites, history
<1>8. MoveFits'
  BY <1>3, <1>5, <1>6, <1>7 DEF MoveFits
<1>9. inviteFaults' \in 0 .. MaxInviteFaults /\ account' \in Emails
  BY <1>7 DEF InvitesInv, InviteTypes
<1> QED BY <1>1, <1>5, <1>6, <1>7, <1>8, <1>9, MoveQuiet

LEMMA MailMovedStep ==
  ASSUME InvitesInv, NEW r \in move.unsent, MailMoved(r)
  PROVE  InvitesInv'
<1>1. PICK m \in MoveType : m = move
  BY DEF InvitesInv, InviteTypes, MoveType
<1>2. PICK n : n = [m EXCEPT !.unsent = @ \ {r}]
  OBVIOUS
<1>3. n \in MoveType /\ n.pc = m.pc /\ n.rows = m.rows /\ n.unsent = m.unsent \ {r}
  BY <1>2 DEF MoveType
<1>4. move' = n
  BY <1>1, <1>2 DEF MailMoved
<1>5. /\ UNCHANGED <<invite, account, tokens, run, resend, crossed, repeatable, misled>>
      /\ unmailed \subseteq unmailed'
      /\ \/ mails' = mails /\ r.i \in unmailed'
         \/ mails' = mails \cup {Mailed(r, "move")}
  BY DEF MailMoved
<1>6. inviteFaults' \in 0 .. MaxInviteFaults
  BY InviteBounds DEF MailMoved, Fault, InvitesInv, InviteTypes
<1>7. MoveFits'
  BY <1>1, <1>3, <1>4, <1>5 DEF InvitesInv, MoveFits
<1>8. account' \in Emails
  BY <1>5 DEF InvitesInv, InviteTypes
<1> QED BY <1>1, <1>3, <1>4, <1>5, <1>6, <1>7, <1>8, MoveQuiet

LEMMA EndStep ==
  ASSUME InvitesInv, EndMove
  PROVE  InvitesInv'
<1>1. move' \in MoveType /\ move'.rows = {} /\ move'.unsent = {}
  BY DEF EndMove, NoMove, MoveType
<1>2. UNCHANGED <<invite, account, tokens, run, resend, crossed, repeatable, misled, mails, unmailed, inviteFaults>>
  BY DEF EndMove, history
<1>3. MoveFits'
  BY <1>1 DEF MoveFits
<1>4. inviteFaults' \in 0 .. MaxInviteFaults /\ account' \in Emails /\ move.unsent = {}
  BY <1>2 DEF InvitesInv, InviteTypes, EndMove
<1> QED BY <1>1, <1>2, <1>3, <1>4, MoveQuiet

LEMMA MoveToStep ==
  ASSUME InvitesInv, NEW read \in move.rows, MoveTo(read)
  PROVE  InvitesInv'
<1>0. /\ UNCHANGED <<account, run, resend, mails, repeatable, misled, inviteFaults>>
      /\ move.pc = "move" /\ inviteFaults' \in 0 .. MaxInviteFaults /\ account' \in Emails
  BY DEF MoveTo, InvitesInv, InviteTypes
<1>1. PICK m \in MoveType : m = move
  BY DEF InvitesInv, InviteTypes, MoveType
<1>2. /\ read.i \in Invites /\ read.row \in Invite /\ read.row.email # account
      /\ \A r \in m.unsent : r.to = account /\ r.i \in Invites /\ invite[r.i].email = account
  BY <1>1 DEF InvitesInv, InviteTypes, MoveType, MovedRow, MoveFits, Reissue
<1> DEFINE i == read.i
<1>3. CASE /\ UNCHANGED <<invite, tokens, crossed, unmailed>>
           /\ move' = [move EXCEPT !.rows = @ \ {read}]
  <2>1. PICK n : n = [m EXCEPT !.rows = @ \ {read}]
    OBVIOUS
  <2>2. n \in MoveType /\ n.pc = m.pc /\ n.rows = m.rows \ {read} /\ n.unsent = m.unsent
    BY <2>1 DEF MoveType
  <2>3. move' = n
    BY <1>1, <1>3, <2>1
  <2>4. MoveFits'
    BY <1>0, <1>1, <1>3, <2>2, <2>3 DEF InvitesInv, MoveFits
  <2> QED BY <1>0, <1>1, <1>3, <2>2, <2>3, <2>4, MoveQuiet
<1>4. ASSUME invite[i].email = read.row.email,
             NEW token \in Nat, NEW e \in Invite,
             token = tokens + 1 \/ (token = 0 /\ ~Rotates(read.row) /\ ~Reissues(i, read.row)),
             IF token = 0 THEN tokens' = tokens ELSE tokens' = tokens + 1 /\ tokens' \in 0 .. MaxTokens,
             invite' = [invite EXCEPT ![i] = e],
             e.email = account, e.claim = invite[i].claim,
             IF token = 0 THEN e.token = invite[i].token /\ e.expired = invite[i].expired
                          ELSE e.token = tokens + 1,
             crossed' = IF read.row.token # invite[i].token \/ OnItsWay(i) THEN crossed \cup {i} ELSE crossed,
             NEW more \in SUBSET Reissue,
             \A r \in more : r.i = i /\ r.to = account /\ r.token = token /\ token = tokens + 1,
             unmailed' = IF more # {} THEN unmailed ELSE unmailed \cup {i},
             NEW n \in MoveType, move' = n, n.pc = m.pc, n.rows = m.rows \ {read},
             n.unsent = m.unsent \cup more
      PROVE  InvitesInv'
  <2>0. tokens \in Nat /\ tokens' \in 0 .. MaxTokens
    BY <1>4 DEF InvitesInv, InviteTypes
  <2>1. /\ invite' \in [Invites -> Invite] /\ invite'[i] = e
        /\ \A j \in Invites : j # i => invite'[j] = invite[j]
    BY <1>2, <1>4, RowStep
  <2>2. InviteTypes'
    BY <1>0, <1>4, <2>0, <2>1 DEF InvitesInv, InviteTypes, MoveType
  <2>3. MoveFits'
    <3>1. \A r \in n.unsent : r.to = account /\ r.i \in Invites /\ invite'[r.i].email = account
      BY <1>2, <1>4, <2>1
    <3>2. \A j \in n.rows : j.row.email # account
      BY <1>1, <1>4 DEF InvitesInv, MoveFits
    <3>3. n.pc = "move"
      BY <1>0, <1>1, <1>4
    <3> QED BY <1>0, <1>4, <3>1, <3>2, <3>3 DEF MoveFits
  <2>4. ClaimsFit'
    BY <1>0, <1>4, <2>1, ClaimsKept
  <2>5. /\ \A j, k, to : Comes(j, k, to)' => Comes(j, k, to) \/ \E r \in more : Coming(r, j, k, to)
        /\ \A j, k, to : Comes(j, k, to) => Comes(j, k, to)'
        /\ \A j, k, to : \A r \in more : Coming(r, j, k, to) => Comes(j, k, to)'
    BY <1>0, <1>1, <1>4, MoveStep
  <2>6. \A j, k, to : SentTo(j, k, to)' <=> SentTo(j, k, to)
    BY <1>0, SentKept
  <2>7. i \notin crossed' => \A k, to : ~Comes(i, k, to)
    <3> SUFFICES ASSUME i \notin crossed', NEW k, NEW to, Comes(i, k, to)
                 PROVE  FALSE
      OBVIOUS
    <3>1. ~OnItsWay(i)
      BY <1>4
    <3>2. \A r \in move.unsent : r.i # i
      BY <1>1, <1>2, <1>4
    <3> QED BY <3>1, <3>2 DEF Comes, Coming, OnItsWay
  <2>8. /\ \A q \in Resends : resend'[q].pc \in {"replace", "mail"} => resend'[q].i \in Invites
        /\ ~misled' /\ crossed \subseteq crossed' /\ unmailed \subseteq unmailed'
    BY <1>0, <1>4 DEF InvitesInv, LinksFit
  <2>9. CASE token # 0
    <3>1. token = tokens + 1 /\ tokens' = tokens + 1
      BY <1>4, <2>9
    <3>2. invite'[i].token = tokens + 1 /\ \A j \in Invites \ {i} : invite'[j] = invite[j]
      BY <1>4, <2>1, <2>9
    <3>3. \A j \in Invites, k \in Nat, to \in Emails :
            Comes(j, k, to)' => Comes(j, k, to) \/ (j = i /\ k = tokens + 1)
      BY <1>4, <2>5, <3>1 DEF Coming
    <3>4. i \notin crossed' =>
            \A k \in Nat, to \in Emails : Comes(i, k, to)' => to = invite'[i].email
      BY <1>4, <2>1, <2>5, <2>7 DEF Coming
    <3>5. i \notin crossed' /\ i \notin unmailed' =>
            \E k \in Nat, to \in Emails : k = tokens + 1 /\ Comes(i, k, to)'
      <4> SUFFICES ASSUME i \notin unmailed'
                   PROVE  \E k \in Nat, to \in Emails : k = tokens + 1 /\ Comes(i, k, to)'
        OBVIOUS
      <4>1. PICK r \in more : TRUE
        BY <1>4
      <4>2. Coming(r, i, token, account)
        BY <1>4, <4>1 DEF Coming
      <4>3. Comes(i, token, account)'
        BY <1>0, <2>5, <4>2
      <4>4. PICK to \in Emails : to = account
        BY <1>0
      <4>5. Comes(i, token, to)'
        BY <1>0, <4>3, <4>4
      <4> QED BY <3>1, <4>5
    <3> QED BY <1>2, <2>5, <2>6, <2>8, <3>1, <3>2, <3>3, <3>4, <3>5, <2>2, <2>3, <2>4, Issuing DEF InvitesInv
  <2>10. CASE token = 0
    <3>1. more = {} /\ tokens' = tokens /\ i \in unmailed'
      BY <1>4, <2>0, <2>10
    <3>2. \A j \in Invites : invite'[j].token = invite[j].token /\ invite'[j].expired = invite[j].expired
      BY <1>4, <2>1, <2>10
    <3>3. \A j \in Invites : invite'[j].token = 0 => invite'[j].expired = TRUE
      BY <3>2 DEF InvitesInv, TokensFit, TokensInRange
    <3>4. read.row.token = 0
      BY <1>2, <1>4, <2>0, <2>10 DEF Rotates
    <3>5. \A j \in Invites : \/ invite'[j].email = invite[j].email \/ j \in crossed'
                             \/ /\ j \in unmailed' /\ invite[j].token = 0
                                /\ \A k \in Nat, to \in Emails : ~Comes(j, k, to)
      BY <1>4, <2>1, <2>7, <3>1, <3>4
    <3>6. \A j, k, to : Comes(j, k, to)' <=> Comes(j, k, to)
      BY <2>5, <3>1
    <3>7. TokensFit' /\ LinksFit' /\ NewestUnderway'
      BY <2>6, <2>8, <3>1, <3>2, <3>3, <3>5, <3>6, Neutral
    <3> QED BY <2>2, <2>3, <2>4, <3>7 DEF InvitesInv
  <2> QED BY <2>9, <2>10
<1>5. CASE /\ invite[i].email = read.row.email
           /\ IF Rotates(read.row) THEN Issue ELSE UNCHANGED tokens
           /\ Row(i, LET moved == [invite[i] EXCEPT !.email = account] IN
                     IF Reissues(i, read.row) THEN Issued(moved, tokens + 1)
                     ELSE IF Rotates(read.row) THEN [moved EXCEPT !.token = tokens + 1] ELSE moved)
           /\ crossed' = IF read.row.token # invite[i].token \/ OnItsWay(i)
                         THEN crossed \cup {i} ELSE crossed
           /\ unmailed' = IF Reissues(i, read.row) THEN unmailed ELSE unmailed \cup {i}
           /\ move' = [move EXCEPT !.rows = @ \ {read},
                         !.unsent = IF Reissues(i, read.row)
                                    THEN @ \cup {[NoRun EXCEPT !.i = i, !.to = account, !.token = tokens + 1]}
                                    ELSE @]
  <2>1. PICK entry \in Invite : entry = invite[i]
    BY <1>2 DEF InvitesInv, InviteTypes
  <2>2. PICK there \in Emails, next \in Nat : there = account /\ next = tokens + 1
    BY InviteBounds DEF InvitesInv, InviteTypes
  <2>3. PICK moved : moved = [entry EXCEPT !.email = there]
    OBVIOUS
  <2>4. /\ moved \in Invite /\ moved.email = there /\ moved.claim = entry.claim
        /\ moved.token = entry.token /\ moved.expired = entry.expired
    BY <2>3 DEF Invite
  <2>5. CASE Reissues(i, read.row)
    <3>1. tokens' = tokens + 1 /\ tokens' \in 0 .. MaxTokens
      BY <1>5, <2>5, InviteBounds DEF Reissues, Issue, InvitesInv, InviteTypes
    <3>2. PICK e : e = Issued(moved, next)
      OBVIOUS
    <3>3. e \in Invite /\ e.email = there /\ e.claim = entry.claim /\ e.token = next
      BY <2>4, <3>2 DEF Issued, Invite
    <3>4. invite' = [invite EXCEPT ![i] = e]
      BY <1>5, <2>1, <2>2, <2>3, <2>5, <3>2 DEF Row
    <3>5. PICK r : r = [NoRun EXCEPT !.i = i, !.to = there, !.token = next]
      OBVIOUS
    <3>6. r \in Reissue /\ r.i = i /\ r.to = there /\ r.token = next
      BY <1>2, <3>5 DEF NoRun, Reissue
    <3>7. PICK n : n = [m EXCEPT !.rows = @ \ {read}, !.unsent = @ \cup {r}]
      OBVIOUS
    <3>8. n \in MoveType /\ n.pc = m.pc /\ n.rows = m.rows \ {read} /\ n.unsent = m.unsent \cup {r}
      BY <3>6, <3>7 DEF MoveType
    <3>9. move' = n
      BY <1>1, <1>5, <2>2, <2>5, <3>5, <3>7
    <3>10. {r} \in SUBSET Reissue /\ {r} # {} /\ \A x \in {r} : x = r
      BY <3>6
    <3>11. crossed' = IF read.row.token # invite[i].token \/ OnItsWay(i) THEN crossed \cup {i} ELSE crossed
      BY <1>5
    <3>12. unmailed' = IF {r} # {} THEN unmailed ELSE unmailed \cup {i}
      BY <1>5, <2>5
    <3>13. next # 0 /\ next = tokens + 1
      BY <2>2, InviteBounds DEF InvitesInv, InviteTypes
    <3>14. invite[i].email = read.row.email
      BY <1>5
    <3>15. \A x \in {r} : x.i = i /\ x.to = account /\ x.token = next /\ next = tokens + 1
      BY <2>2, <3>6
    <3> HIDE DEF i
    <3> QED BY <1>4, <2>1, <2>2, <3>1, <3>3, <3>4, <3>8, <3>9, <3>10, <3>11, <3>12, <3>13, <3>14, <3>15
  <2>6. CASE ~Reissues(i, read.row)
    <3>1. PICK n : n = [m EXCEPT !.rows = @ \ {read}]
      OBVIOUS
    <3>2. n \in MoveType /\ n.pc = m.pc /\ n.rows = m.rows \ {read} /\ n.unsent = m.unsent \cup {}
      BY <3>1 DEF MoveType
    <3>3. move' = n
      <4>1. [m EXCEPT !.rows = @ \ {read}, !.unsent = @] = [m EXCEPT !.rows = @ \ {read}]
        BY DEF MoveType
      <4>2. move' = [m EXCEPT !.rows = @ \ {read}, !.unsent = @]
        BY <1>1, <1>5, <2>6
      <4> QED BY <3>1, <4>1, <4>2
    <3>4. /\ crossed' = IF read.row.token # invite[i].token \/ OnItsWay(i) THEN crossed \cup {i} ELSE crossed
          /\ unmailed' = IF {} # {} THEN unmailed ELSE unmailed \cup {i}
          /\ invite[i].email = read.row.email
          /\ {} \in SUBSET Reissue
      BY <1>5, <2>6
    <3>5. CASE Rotates(read.row)
      <4>1. tokens' = tokens + 1 /\ tokens' \in 0 .. MaxTokens
        BY <1>5, <3>5, InviteBounds DEF Issue, InvitesInv, InviteTypes
      <4>2. PICK e : e = [moved EXCEPT !.token = next]
        OBVIOUS
      <4>3. e \in Invite /\ e.email = there /\ e.claim = entry.claim /\ e.token = next
        BY <2>4, <4>2 DEF Invite
      <4>4. invite' = [invite EXCEPT ![i] = e]
        BY <1>5, <2>1, <2>2, <2>3, <2>6, <3>5, <4>2 DEF Row
      <4>5. next # 0 /\ next = tokens + 1
        BY <2>2, InviteBounds DEF InvitesInv, InviteTypes
      <4> HIDE DEF i
      <4> QED BY <1>4, <2>1, <2>2, <3>2, <3>3, <3>4, <4>1, <4>3, <4>4, <4>5
    <3>6. CASE ~Rotates(read.row)
      <4>1. tokens' = tokens /\ 0 \in Nat
        BY <1>5, <3>6
      <4>2. invite' = [invite EXCEPT ![i] = moved]
        BY <1>5, <2>1, <2>2, <2>3, <2>6, <3>6 DEF Row
      <4> HIDE DEF i
      <4> QED BY <1>4, <2>1, <2>2, <2>4, <2>6, <3>2, <3>3, <3>4, <3>6, <4>1, <4>2
    <3> QED BY <3>5, <3>6
  <2> QED BY <2>5, <2>6
<1> QED BY <1>3, <1>5 DEF MoveTo

LEMMA StepInvites ==
  ASSUME InvitesInv, [InvitesNext]_inviteVars
  PROVE  InvitesInv'
<1>1. ASSUME NEW d \in Runs, NEW i \in Invites, NEW kind \in Kinds, StartRun(d, i, kind)
      PROVE  InvitesInv'
  BY <1>1, StartRunStep
<1>2. ASSUME NEW d \in Runs,
             ClaimInvite(d) \/ SetToken(d) \/ MailRun(d) \/ ReleaseClaim(d) \/ Mark(d) \/ DieRun(d)
      PROVE  InvitesInv'
  BY <1>2, ClaimStep, SetTokenStep, MailStep, ReleaseStep, MarkStep, DieStep
<1>3. ASSUME NEW kind \in Kinds, ReleaseStale(kind)
      PROVE  InvitesInv'
  BY <1>3, ReleaseStaleStep
<1>4. ASSUME NEW q \in Resends, NEW e \in Emails, RequestLink(q, e)
      PROVE  InvitesInv'
  BY <1>4, RequestStep
<1>5. ASSUME NEW q \in Resends, ReadLatest(q) \/ Replace(q) \/ MailLink(q)
      PROVE  InvitesInv'
  BY <1>5, ReadLatestStep, ReplaceStep, MailLinkStep
<1>6. ASSUME NEW e \in Emails, ChangeAddress(e)
      PROVE  InvitesInv'
  BY <1>6, ChangeStep
<1>7. ASSUME NEW e \in Emails, Cool(e)
      PROVE  InvitesInv'
  BY <1>7, Still DEF Cool, jobs, history
<1>8. CASE ListInvites \/ EndMove
  BY <1>8, ListStep, EndStep
<1>9. ASSUME NEW read \in move.rows, MoveTo(read)
      PROVE  InvitesInv'
  BY <1>9, MoveToStep
<1>10. ASSUME NEW r \in move.unsent, MailMoved(r)
       PROVE  InvitesInv'
  BY <1>10, MailMovedStep
<1>11. ASSUME NEW letter \in mails, Redeem(letter)
       PROVE  InvitesInv'
  BY <1>11, RedeemStep
<1>12. CASE CompleteInvites
  BY <1>12, CompleteStep
<1>13. ASSUME NEW i \in Invites, Age(i)
       PROVE  InvitesInv'
  BY <1>13, AgeStep
<1>14. CASE UNCHANGED inviteVars
  BY <1>14, Still DEF inviteVars
<1> QED BY <1>1, <1>2, <1>3, <1>4, <1>5, <1>6, <1>7, <1>8, <1>9, <1>10, <1>11, <1>12, <1>13, <1>14
        DEF InvitesNext

\* A season email and a reminder go out once per invite, and the link that works was emailed to
\* the address the invite has: for any numbers of invites, runs, requests and moves.
THEOREM Invited == InvitesSpec => []InvitesReachOnce
<1>1. InvitesSpec => []InvitesInv
  BY InitInvites, StepInvites, PTL DEF InvitesSpec
<1>2. InvitesInv => InvitesReachOnce
  BY InvitesHold
<1> QED BY <1>1, <1>2, PTL

==============================================================================
