---- MODULE RosterImport ----
(* The season roster, a CSV of people who signed up by a form (activation/roster): what   *)
(* is read from the answers of one person, and what the import then writes for the person. *)
(* The two meet in the certifications of an entry, and each is a machine of its own.       *)
EXTENDS Naturals, FiniteSets, SequencesExt

------------------------------------------------------------------------------
(* How the certification answers of a sign-up form become certification rows:       *)
(*   activation/roster/roster-normalize.ts, roster-llm.ts                            *)
(*   activation/roster/roster-import.ts (normalizeEntryWithLlm)                      *)
(* The cell is a list of answers, each read as a clause: the org, level and words it *)
(* names (tokenize is not modelled). What the rules leave unresolved may be proposed *)
(* by a language model, whose answer is taken item by item if it validates.          *)

CONSTANTS
  Clauses,      \* answers a cell may hold
  Details,      \* clauses of the "when and where" text
  Items,        \* items of the model's answer, for any value
  MaxValues,    \* bound: answers in a cell
  MaxItems      \* bound: items in an answer

VARIABLES
  stage,        \* form, parsed, asked
  cell,
  details,
  row,          \* the entry: certifications, trainer status, unresolved answers
  ruled         \* history: the certifications of the rules alone

rosterVars == <<stage, cell, details, row, ruled>>

None == "none"
Disciplines == [csia |-> "ski", casi |-> "snowboard"]
Vocabulary == [csia |-> {"ski", "teach"}, casi |-> {"instructor_training", "riding", "teaching"}]
OrgComponent ==
  [csia |-> [ski |-> "ski", teaching |-> "teach"],
   casi |-> [teaching |-> "teaching", riding |-> "riding",
             instructor_training |-> "instructor_training"]]
Levels == [regular |-> 1 .. 4, park |-> 1 .. 2, carving |-> 1 .. 1]

Clause(org, level) ==
  [org |-> org, level |-> level, park |-> FALSE, carving |-> FALSE, partial |-> FALSE,
   trainer |-> FALSE, components |-> {}, unknown |-> FALSE]
Certificate(org, track, level, components, partial, source) ==
  [org |-> org, track |-> track, level |-> level, partial |-> partial,
   components |-> components, source |-> source]
Full(org, track, level, source) == Certificate(org, track, level, {}, FALSE, source)

------------------------------------------------------------------------------
(* The rules *)

Unrecognised == [kind |-> "unrecognised"]
AsFull(c, track, level) ==
  IF level \in Levels[track]
  THEN [kind |-> "full", cert |-> Full(c.org, track, level, "rule")] ELSE Unrecognised

Classify(c) ==
  IF c.unknown THEN Unrecognised
  ELSE IF c.trainer
  THEN IF c.level = 0 /\ ~c.park /\ ~c.carving /\ ~c.partial /\ c.components = {}
       THEN [kind |-> "trainer"] ELSE Unrecognised
  ELSE IF c.components # {}
  THEN IF c.park \/ c.carving THEN Unrecognised ELSE [kind |-> "fragment"]
  ELSE IF c.org = None THEN Unrecognised
  ELSE IF c.partial
  THEN IF ~c.park /\ ~c.carving /\ c.level \in Levels.regular
       THEN [kind |-> "partial"] ELSE Unrecognised
  ELSE IF c.carving
  THEN IF c.org = "casi" /\ ~c.park
       THEN AsFull(c, "carving", IF c.level = 0 THEN 1 ELSE c.level) ELSE Unrecognised
  ELSE AsFull(c, IF c.park THEN "park" ELSE "regular", c.level)

Stated(clauses) == {c.org : c \in Range(clauses)} \ {None}

(* trainerDisciplineFor: the org of the answer, else the only one of the cell. *)
DisciplineFor(c, clauses) ==
  LET orgs == IF c.org # None THEN {c.org} ELSE Stated(clauses) IN
  IF Cardinality(orgs) = 1 THEN Disciplines[CHOOSE o \in orgs : TRUE] ELSE None

(* attach: a clause names the components of the one marker it can mean. Mutation: of *)
(* whichever marker.                                                                  *)
Candidates(markers, c) ==
  {m \in markers : c.org \in {None, m.org} /\ c.level \in {0, m.level}}
AttachesToSome(markers, c) ==
  LET ms == Candidates(markers, c)
  IN ms # {} /\ \A m \in ms : c.components \subseteq DOMAIN OrgComponent[m.org]
Attaches(markers, c) ==
  LET ms == Candidates(markers, c)
  IN Cardinality(ms) = 1 /\ \A m \in ms : c.components \subseteq DOMAIN OrgComponent[m.org]
Attach(markers, c) ==
  IF ~Attaches(markers, c) THEN markers
  ELSE LET m == CHOOSE n \in Candidates(markers, c) : TRUE IN
       (markers \ {m}) \cup
         {[m EXCEPT !.components = @ \cup {OrgComponent[m.org][x] : x \in c.components}]}

PartialOrFull(org, level, components, source) ==
  IF components = Vocabulary[org] THEN Full(org, "regular", level, source)
  ELSE Certificate(org, "regular", level, components, TRUE, source)

Outranks(a, b) == a.level > b.level \/ (a.level = b.level /\ ~a.partial /\ b.partial)

(* keepHighest, one certificate; Mutation: a partial one replaces another. *)
MergedLast(a, b) == b
Merged(a, b) ==
  PartialOrFull(a.org, a.level, a.components \cup b.components,
                IF "llm" \in {a.source, b.source} THEN "llm" ELSE "rule")
Keep(best, cert) ==
  LET same == {b \in best : b.org = cert.org /\ b.track = cert.track} IN
  IF same = {} THEN best \cup {cert}
  ELSE LET current == CHOOSE b \in same : TRUE
           others == best \ same IN
       IF Outranks(cert, current) THEN others \cup {cert}
       ELSE IF Outranks(current, cert) THEN best
       ELSE IF cert.partial THEN others \cup {Merged(current, cert)}
       ELSE IF current.source = "llm" THEN others \cup {cert} ELSE best
KeepHighest(certs) == FoldLeft(Keep, {}, certs)

MergeTrainers(statuses) ==
  {s \in statuses : s.source = "rule" \/ [s EXCEPT !.source = "rule"] \notin statuses}

(* normalizeCertifications *)
DetailClauses(clauses) ==
  SelectSeq(clauses, LAMBDA c : c.components # {} /\ c.level # 0 /\ ~c.park /\ ~c.carving)
OfKind(clauses, kind) == SelectSeq(clauses, LAMBDA c : Classify(c).kind = kind)
NormalizeCertifications(clauses, text) ==
  LET fragments == OfKind(clauses, "fragment")
      named == SelectSeq(fragments, LAMBDA c : c.org # None /\ c.level \in Levels.regular)
      markers == {[org |-> c.org, level |-> c.level, components |-> {}] :
                    c \in Range(OfKind(clauses, "partial") \o named)}
      attached == FoldLeft(Attach, markers, fragments \o DetailClauses(text))
      trainers == Range(OfKind(clauses, "trainer"))
      fulls == LET full == OfKind(clauses, "full") IN [i \in DOMAIN full |-> Classify(full[i]).cert]
      partials == {PartialOrFull(m.org, m.level, m.components, "rule") : m \in attached}
  IN [certifications |-> KeepHighest(fulls \o SetToSeq(partials)),
      trainers |-> {[discipline |-> DisciplineFor(c, clauses), source |-> "rule"] :
                      c \in {t \in trainers : DisciplineFor(t, clauses) # None}},
      unresolved |-> {c \in Range(clauses) :
                        \/ Classify(c).kind = "unrecognised"
                        \/ Classify(c).kind = "trainer" /\ DisciplineFor(c, clauses) = None
                        \/ Classify(c).kind = "fragment" /\ ~Attaches(markers, c)}]

------------------------------------------------------------------------------
(* The language model: an item answers a value with a certificate, a trainer's discipline *)
(* or both; it has a confidence and a reason.                                              *)

(* validateCertification; Mutation: the components are not looked at. *)
CertificateFitsAnyComponents(c) == c.level \in Levels[c.track]
CertificateFits(c) ==
  /\ c.level \in Levels[c.track]
  /\ c.track = "carving" => c.org = "casi"
  /\ c.partial => c.track = "regular"
  /\ ~c.partial => c.components = {}
  /\ c.components \subseteq Vocabulary[c.org]
Validated(c) ==
  IF c.partial THEN PartialOrFull(c.org, c.level, c.components, "llm")
  ELSE Full(c.org, c.track, c.level, "llm")

(* validateLlmResult: the first item for a value that was asked for. *)
Accepts(item) ==
  /\ item.sure
  /\ item.certificate # {} \/ item.trainer # None
  /\ \A c \in item.certificate : CertificateFits(c)
  /\ item.trainer # None => item.trainer = DisciplineFor(item.value, cell)
Considered(items) ==
  {items[i] : i \in {j \in DOMAIN items : /\ items[j].value \in row.unresolved
                                          /\ \A k \in 1 .. j - 1 : items[k].value # items[j].value}}

(* normalizeEntryWithLlm *)
WithAnswer(items) ==
  LET accepted == {item \in Considered(items) : Accepts(item)}
      proposed == {Validated(c) : c \in UNION {item.certificate : item \in accepted}}
      trainers == {item.trainer : item \in accepted} \ {None}
  IN [certifications |-> KeepHighest(SetToSeq(row.certifications) \o SetToSeq(proposed)),
      trainers |-> MergeTrainers(row.trainers \cup
                     {[discipline |-> d, source |-> "llm"] : d \in trainers}),
      unresolved |-> row.unresolved \ {item.value : item \in accepted}]

(* The constraints of the table. *)
Allowed(c) ==
  /\ c.track = "carving" => c.org = "casi"
  /\ c.level \in Levels[c.track]
  /\ c.track \in {"park", "carving"} => ~c.partial
  /\ c.components \subseteq Vocabulary[c.org]

------------------------------------------------------------------------------

RosterInit ==
  /\ stage = "form" /\ cell = <<>> /\ details = <<>> /\ ruled = {}
  /\ row = [certifications |-> {}, trainers |-> {}, unresolved |-> {}]

AnswerValue(c) ==
  /\ stage = "form" /\ Len(cell) < MaxValues
  /\ cell' = Append(cell, c)
  /\ UNCHANGED <<stage, details, row, ruled>>

AnswerDetail(c) ==
  /\ stage = "form" /\ details = <<>>
  /\ details' = <<c>>
  /\ UNCHANGED <<stage, cell, row, ruled>>

Parse ==
  /\ stage = "form" /\ stage' = "parsed"
  /\ row' = NormalizeCertifications(cell, details)
  /\ ruled' = row'.certifications
  /\ UNCHANGED <<cell, details>>

(* Only a row with unresolved values is sent; a failed request changes nothing. *)
Ask(items) ==
  /\ stage = "parsed" /\ row.unresolved # {}
  /\ stage' = "asked" /\ row' = WithAnswer(items)
  /\ UNCHANGED <<cell, details, ruled>>

RosterNext ==
  \/ \E c \in Clauses : AnswerValue(c)
  \/ \E c \in Details : AnswerDetail(c)
  \/ Parse
  \/ /\ stage = "parsed"
     /\ \E n \in 0 .. MaxItems :
          \E items \in [1 .. n -> {[item EXCEPT !.value = c] : item \in Items, c \in row.unresolved}] :
            Ask(items)

RosterSpec == RosterInit /\ [][RosterNext]_rosterVars

------------------------------------------------------------------------------

(* What is written is what the constraints of instructor_certifications allow, whoever *)
(* proposed it: one certificate per org and track, in range, with components of its org; *)
(* and one status per discipline.                                                         *)
RowIsValid ==
  /\ \A c \in row.certifications : Allowed(c)
  /\ \A c, d \in row.certifications : c.org = d.org /\ c.track = d.track => c = d
  /\ \A s, t \in row.trainers : s.discipline = t.discipline => s = t

(* Whatever the order of the answers, the entry has for each org and track the highest *)
(* level anybody stated, complete if it was stated so or its components add up.         *)
Claims ==
  {Classify(c).cert : c \in Range(OfKind(cell, "full"))} \cup
  LET keys == {<<c.org, c.level>> : c \in Range(OfKind(cell, "partial"))} \cup
              {<<c.org, c.level>> : c \in {f \in Range(OfKind(cell, "fragment")) :
                                             f.org # None /\ f.level \in Levels.regular}}
      means(c, key) == {key} = {k \in keys : c.org \in {None, k[1]} /\ c.level \in {0, k[2]}}
      about(key) == {c \in Range(OfKind(cell, "fragment")) \cup Range(DetailClauses(details)) :
                       means(c, key) /\ c.components \subseteq DOMAIN OrgComponent[key[1]]}
  IN {Certificate(key[1], "regular", key[2],
        UNION {{OrgComponent[key[1]][x] : x \in c.components} : c \in about(key)}, TRUE, "rule") :
      key \in keys}
HighestClaims ==
  {LET top == {c \in Claims : /\ c.org = k[1] /\ c.track = k[2]
                              /\ \A d \in Claims : d.org = k[1] /\ d.track = k[2] => d.level <= c.level}
       some == CHOOSE c \in top : TRUE
       together == UNION {c.components : c \in top}
   IN Certificate(k[1], k[2], some.level,
        IF (\E c \in top : ~c.partial) \/ together = Vocabulary[k[1]] THEN {} ELSE together,
        (\A c \in top : c.partial) /\ together # Vocabulary[k[1]], "rule")
   : k \in {<<c.org, c.track>> : c \in Claims}}
HighestKept == stage = "parsed" => row.certifications = HighestClaims

(* Whatever the language model says, what the rules found is neither lost nor lowered. *)
AtLeast(a, b) ==
  /\ a.org = b.org /\ a.track = b.track
  /\ a.level > b.level \/ (a.level = b.level /\ (~a.partial \/ (b.partial /\ b.components \subseteq a.components)))
RulesStand == \A c \in ruled : \E d \in row.certifications : AtLeast(d, c)

------------------------------------------------------------------------------
(* What the season roster import writes for one email of its CSV:                  *)
(*   activation/roster/roster-import.ts (plan, applyEntry, runApply), roster-ports.ts *)
(*   activation/roster/roster-csv.ts                                                *)
(* The script is run by hand, again after a failure, perhaps twice at once. It plans *)
(* from one listing of the auth users and then writes without a transaction: user,    *)
(* instructor, relations, invite. Meanwhile the person may sign in, which creates a   *)
(* missing instructor, and edit the profile, or sign up before the import does.       *)

CONSTANTS
  Applies,       \* runs of --apply
  MaxApplies,    \* bound: starts of a run
  MaxEdits,      \* bound: edits of the profile
  MaxFaults      \* bound: calls that fail, scripts that die

VARIABLES
  user,          \* the auth user: absent, imported (by this season), other
  instructor,    \* the row exists
  relations,     \* certifications, locations and trainer status: none, imported, own
  invited,       \* the invite of the season exists
  apply,         \* apply[r]: a run at this entry
  edits,
  applies,
  raced,         \* history: the profile was edited between a run's look and its write
  overwritten,   \* history: the person's own relations were replaced
  importFaults

importVars == <<user, instructor, relations, invited, apply, edits, applies, raced,
                overwritten, importFaults>>
rows == <<user, instructor, relations, invited>>
past == <<edits, raced, overwritten>>

NoApply == [pc |-> "idle", user |-> "absent", found |-> FALSE, wrote |-> FALSE, status |-> "none"]

ImportInit ==
  /\ user \in {"absent", "other"} /\ instructor = FALSE /\ relations = "none" /\ invited = FALSE
  /\ apply = [r \in Applies |-> NoApply]
  /\ edits = 0 /\ applies = 0 /\ raced = FALSE /\ overwritten = FALSE /\ importFaults = 0

Fault == importFaults < MaxFaults /\ importFaults' = importFaults + 1
To(r, pc) == apply' = [apply EXCEPT ![r].pc = pc]
End(r, status) == apply' = [apply EXCEPT ![r].pc = "idle", ![r].status = status]

(* A call of an entry fails: the entry is reported as failed, what it wrote stays. *)
Fails(r, pc) ==
  /\ apply[r].pc = pc /\ Fault
  /\ End(r, "failed")
  /\ UNCHANGED <<rows, applies, past>>

(* plan: existing users of another origin are skipped untouched. Mutation: they are not. *)
SkipsNobody(r) == FALSE
Skips(r) == user = "other"
Plan(r) ==
  /\ apply[r].pc = "idle" /\ applies < MaxApplies /\ applies' = applies + 1
  /\ apply' = [apply EXCEPT ![r] =
       [NoApply EXCEPT !.user = user,
          !.pc = IF Skips(r) THEN "idle" ELSE IF user = "absent" THEN "user" ELSE "find",
          !.status = IF Skips(r) THEN "existing_user" ELSE "none"]]
  /\ UNCHANGED <<rows, past, importFaults>>

(* createUser fails for an address that has an account by now. *)
CreateUser(r) ==
  /\ apply[r].pc = "user"
  /\ IF user = "absent" THEN user' = "imported" /\ To(r, "find")
     ELSE End(r, "failed") /\ UNCHANGED user
  /\ UNCHANGED <<instructor, relations, invited, applies, past, importFaults>>

FindInstructor(r) ==
  /\ apply[r].pc = "find"
  /\ apply' = [apply EXCEPT ![r].found = instructor,
                            ![r].pc = IF instructor THEN "look" ELSE "insert"]
  /\ UNCHANGED <<rows, applies, past, importFaults>>

(* A unique violation means somebody else has inserted it: that row is used. *)
InsertInstructor(r) ==
  /\ apply[r].pc = "insert"
  /\ instructor' = TRUE /\ To(r, "set")
  /\ UNCHANGED <<user, relations, invited, applies, past, importFaults>>

(* hasProfileRelations; Mutation: it is not asked. *)
HasRelationsNever == FALSE
HasRelations == relations # "none"
LookAtRelations(r) ==
  /\ apply[r].pc = "look"
  /\ To(r, IF HasRelations THEN "invite" ELSE "set")
  /\ UNCHANGED <<rows, applies, past, importFaults>>

(* update_instructor_profile, one transaction that replaces all of them. *)
SetRelations(r) ==
  /\ apply[r].pc = "set"
  /\ relations' = "imported"
  /\ overwritten' = (overwritten \/ relations = "own")
  /\ apply' = [apply EXCEPT ![r].pc = "invite", ![r].wrote = TRUE]
  /\ UNCHANGED <<user, instructor, invited, applies, edits, raced, importFaults>>

InsertInvite(r) ==
  /\ apply[r].pc = "invite"
  /\ invited' = TRUE
  /\ End(r, IF apply[r].user = "absent" THEN "created"
            ELSE IF ~apply[r].found THEN "resumed"
            ELSE IF apply[r].wrote \/ ~invited THEN "repaired" ELSE "already_imported")
  /\ UNCHANGED <<user, instructor, relations, applies, past, importFaults>>

(* The answer of a call that took effect is lost, or the script dies. *)
LoseAnswer(r) ==
  /\ Fault
  /\ \/ apply[r].pc = "user" /\ user = "absent" /\ user' = "imported"
        /\ UNCHANGED <<instructor, relations, invited, overwritten>>
     \/ apply[r].pc = "insert" /\ instructor' = TRUE
        /\ UNCHANGED <<user, relations, invited, overwritten>>
     \/ apply[r].pc = "set" /\ relations' = "imported"
        /\ overwritten' = (overwritten \/ relations = "own")
        /\ UNCHANGED <<user, instructor, invited>>
     \/ apply[r].pc = "invite" /\ invited' = TRUE
        /\ UNCHANGED <<user, instructor, relations, overwritten>>
  /\ End(r, "failed")
  /\ UNCHANGED <<applies, edits, raced>>

------------------------------------------------------------------------------
(* The person *)

SignUp ==
  /\ user = "absent" /\ user' = "other"
  /\ UNCHANGED <<instructor, relations, invited, apply, applies, past, importFaults>>

SignIn ==
  /\ user # "absent" /\ ~instructor
  /\ instructor' = TRUE
  /\ UNCHANGED <<user, relations, invited, apply, applies, past, importFaults>>

EditProfile ==
  /\ instructor /\ edits < MaxEdits /\ edits' = edits + 1
  /\ relations' \in {"own", "none"}
  /\ raced' = (raced \/ \E r \in Applies : apply[r].pc \in {"insert", "set"})
  /\ UNCHANGED <<user, instructor, invited, apply, applies, overwritten, importFaults>>

ImportNext ==
  \/ \E r \in Applies :
       \/ Plan(r) \/ CreateUser(r) \/ FindInstructor(r) \/ InsertInstructor(r)
       \/ LookAtRelations(r) \/ SetRelations(r) \/ InsertInvite(r) \/ LoseAnswer(r)
       \/ \E pc \in {"user", "find", "insert", "look", "set", "invite"} : Fails(r, pc)
  \/ SignUp \/ SignIn \/ EditProfile

ImportSpec == ImportInit /\ [][ImportNext]_importVars

------------------------------------------------------------------------------

Done == {"created", "resumed", "repaired", "already_imported"}

(* An account the import did not make is untouched; what a person has filled in is only  *)
(* replaced when they did so while a run was between its look and its write; and an       *)
(* entry reported as done is complete, whatever failed before and in whichever run.       *)
ImportIsSafe ==
  /\ user = "other" => ~invited /\ relations # "imported"
  /\ overwritten => raced
  /\ \A r \in Applies : apply[r].status \in Done =>
       user = "imported" /\ instructor /\ invited /\ (relations # "none" \/ edits > 0)
====
