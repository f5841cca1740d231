---- MODULE MCOffice ----
(* The back office, checked side by side: the signing of documents, the versions of   *)
(* their templates and the uploads of certifications, each with its state in its        *)
(* module's own variables, and, one per behaviour and in v1, v2, ..., the archives of    *)
(* documents and the bios and names in two languages.                                    *)
EXTENDS DocumentSigning, DocumentVersions, CertificationUploads, TLC

CONSTANTS annas, annas2, bens, s1, s2, t1, t2, letter, legal, letter2

VARIABLES
  part,  \* what this behaviour is about
  \* the variables of that part, in the order its module declares them
  v1, v2, v3, v4, v5, v6, v7, v8

slots == <<v1, v2, v3, v4, v5, v6, v7, v8>>

\* Nothing but their name tells two who sign apart.
MCSymmetry == Permutations({t1, t2})

MCOwner == annas :> "anna" @@ annas2 :> "anna" @@ bens :> "ben"
MCLayout == letter :> "portrait" @@ legal :> "landscape" @@ letter2 :> "portrait"

Bios == INSTANCE Translations WITH
  Texts <- {1, 2}, Savers <- {"s1", "s2"}, Translators <- {"w1", "w2"}, MaxSaves <- 2,
  MaxAttempts <- 2, MaxFaults <- 1,
  bio <- v1, save <- v2, jobs <- v3, worker <- v4, saves <- v5, overwritten <- v6,
  excusedBio <- v7, bioFaults <- v8,
  Admins <- {}, Typed <- {}, MaxEdits <- 0, ref <- 0, edit <- 0, typed <- 0, crossed <- 0,
  unavailable <- 0, edits <- 0, nameFaults <- 0
Zip == INSTANCE DocumentExports WITH
  Rows <- <<<<"x">>, <<"x">>, <<"x", 2>>>>, Sizes <- {1, 2, 3}, MaxFileSize <- 2,
  PartSize <- 2, MaxInFlight <- 2, HighWater <- 2, MaxExportFaults <- 1,
  copies <- v1, build <- v2, opened <- v3, output <- v4, upload <- v5, sent <- v6,
  bucket <- v7, archiveFaults <- v8,
  Exports <- {}, Owners <- {}, Passes <- {}, Copies <- 0, exportRow <- 0, zips <- 0,
  alive <- 0, creating <- 0, waiting <- 0, zipJob <- 0, retention <- 0, stranded <- 0,
  leaked <- 0, exportFaults <- 0
Names == INSTANCE Translations WITH
  Admins <- {"a", "b"}, Typed <- {1, 2}, MaxEdits <- 3, MaxFaults <- 1,
  ref <- v1, edit <- v2, typed <- v3, crossed <- v4, unavailable <- v5, edits <- v6,
  nameFaults <- v7,
  Texts <- {}, Savers <- {}, Translators <- {}, MaxSaves <- 0, MaxAttempts <- 0, bio <- 0,
  save <- 0, jobs <- 0, worker <- 0, saves <- 0, overwritten <- 0, excusedBio <- 0,
  bioFaults <- 0

------------------------------------------------------------------------------

SuiteInit ==
  /\ Init /\ VersionsInit /\ CertInit
  /\ \/ /\ part \in {"signing", "versions", "uploads", "expiry"}
        /\ v1 = 0 /\ v2 = 0 /\ v3 = 0 /\ v4 = 0 /\ v5 = 0 /\ v6 = 0 /\ v7 = 0 /\ v8 = 0
     \/ part = "bios" /\ Bios!BioInit
     \/ part = "archive" /\ Zip!ArchiveInit
     \/ part = "names" /\ Names!NamesInit /\ v8 = 0
  \* A module's own variables rest in one state while a behaviour is about another part.
  /\ part # "signing" => kind = "read" /\ source = letter /\ rows = [a \in Assignments |-> Missing]
  /\ part # "versions" => lang = "none"

resting == <<part, vars, versionVars, certVars>>

SigningStep == part = "signing" /\ Next /\ UNCHANGED <<part, versionVars, certVars, slots>>
VersionsStep == part = "versions" /\ VersionsNext /\ UNCHANGED <<part, vars, certVars, slots>>
\* Two requests about two uploads, and two reviews of the first while its emails go out:
\* a review back to pending is to them as an approval.
UploadsStep ==
  /\ part = "uploads" /\ CertNext
  /\ UNCHANGED <<part, vars, versionVars, slots, pass>>
ExpiryStep ==
  /\ part = "expiry" /\ CertNext /\ certCounts'.requests <= 2 /\ request'[s1].status # "pending"
  /\ UNCHANGED <<part, vars, versionVars, slots, intent, staging, certUpload[2], request[s2]>>
BiosStep == part = "bios" /\ Bios!BioNext /\ UNCHANGED resting
ZipStep == part = "archive" /\ Zip!ArchiveNext /\ UNCHANGED resting
NamesStep == part = "names" /\ Names!NamesNext /\ UNCHANGED <<resting, v8>>

SuiteNext ==
  \/ SigningStep \/ VersionsStep \/ UploadsStep \/ ExpiryStep \/ BiosStep \/ ZipStep
  \/ NamesStep

Suite == SuiteInit /\ [][SuiteNext]_<<resting, slots>>

\* Archives alone, in which what was begun goes on.
ArchiveSuite ==
  /\ SuiteInit /\ part = "archive"
  /\ [][ZipStep]_<<resting, slots>> /\ WF_<<resting, slots>>(ZipStep)

------------------------------------------------------------------------------

(* A text in one language is the translation of the one beside it, and never written   *)
(* over what a person typed: bios, by the worker, and the names of reference rows, as   *)
(* they are saved (Translations).                                                       *)
TranslationsFit ==
  /\ part = "bios" => Bios!BioTypeOK /\ Bios!TranslationsFit
  /\ part = "names" => Names!NamesAgree

(* An archive is whole or absent, its memory is bounded and it never waits for itself  *)
(* (DocumentExports).                                                                    *)
ArchiveHolds == part = "archive" => Zip!ArchiveHolds

(* An export fails once the connection of a copy is cut (DocumentExports).              *)
CutFailsExport == part = "archive" => Zip!CutFailsExport
====
