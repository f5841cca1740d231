---- MODULE DocumentExports ----
(* Exports of signed copies as ZIP archives: the row of an export with the process that    *)
(* builds it (Exports...), and the archive itself as it is streamed to the storage          *)
(* (Archive...). To the first the second is one step that ends or fails; each is a machine  *)
(* of its own.                                                                              *)
EXTENDS Integers, Sequences, FiniteSets, SequencesExt, FiniteSetsExt

------------------------------------------------------------------------------
(* ZIP exports of signed copies, built in the background by the process that was *)
(* asked, and dropped a day later.                                               *)
(*   documents/document-exports.service.ts, document-exports.repository.ts,      *)
(*   document-export-queue.ts, document-export-owner.ts, document-export-zip.ts, *)
(*   document-export-retention.service.ts, supabase/migrations/299               *)
(* Processes come and go; each builds one export at a time, and any of them fails *)
(* what belongs to one that is gone. A step is one query or one call of storage. *)

CONSTANTS
  Exports,    \* export ids
  Owners,     \* processes: owner ids, one for every start of a process
  Passes,     \* runs of the retention, by the worker or the endpoint
  Copies,     \* signed copies an export holds, at least 1
  MaxExportFaults  \* bound, for each half: processes that die, calls and queries that fail

ASSUME ExportsAssumption ==
  "none" \notin Exports /\ Copies \in Nat \ {0} /\ MaxExportFaults \in Nat

VARIABLES
  exportRow,    \* exportRow[x]: the row of document_exports
  zips,         \* exports whose ZIP is in the bucket
  alive,        \* processes that run
  creating,     \* exports inserted and not yet in the queue of their process
  waiting,      \* waiting[o]: DocumentExportQueue
  zipJob,       \* zipJob[o]: the export that is built
  retention,    \* retention[p]: a pass of the retention
  stranded,     \* history: rows a query failed to move on while their owner lived
  leaked,       \* history: ZIPs a failure left behind
  exportFaults

exportVars == <<exportRow, zips, alive, creating, waiting, zipJob, retention, stranded, leaked,
                exportFaults>>
work == <<creating, waiting, zipJob>>
history == <<stranded, leaked>>

(* "past" is ready with expires_at behind; fresh: heartbeat_at within 2 minutes. *)
Unfinished == {"queued", "running"}
Statuses == Unfinished \cup {"none", "ready", "past", "failed", "expired"}
NoExport == [status |-> "none", owner |-> "nobody", fresh |-> FALSE]
NoJob == [pc |-> "idle", x |-> "none", copies |-> 0, reading |-> 0]
NoRetention == [pc |-> "idle", listed |-> {}, x |-> "none"]

ExportsInit ==
  /\ exportRow = [x \in Exports |-> NoExport]
  /\ zips = {} /\ alive = Owners /\ creating = {}
  /\ waiting = [o \in Owners |-> <<>>]
  /\ zipJob = [o \in Owners |-> NoJob]
  /\ retention = [p \in Passes |-> NoRetention]
  /\ stranded = {} /\ leaked = {} /\ exportFaults = 0

ExportFault == exportFaults < MaxExportFaults /\ exportFaults' = exportFaults + 1
ToJob(o, j) == zipJob' = [zipJob EXCEPT ![o] = j]
At(o, pc) == [zipJob[o] EXCEPT !.pc = pc]

(* updateIfStatus: only while the status is one of these and the owner is this one. *)
Movable(x, statuses, o) == exportRow[x].status \in statuses /\ exportRow[x].owner = o
Moved(x, status) == exportRow' = [exportRow EXCEPT ![x].status = status]

------------------------------------------------------------------------------
(* create: the row, an audit that never throws, then the queue. *)

Create(o, x) ==
  /\ o \in alive /\ exportRow[x].status = "none"
  /\ exportRow' = [exportRow EXCEPT ![x] = [status |-> "queued", owner |-> o, fresh |-> TRUE]]
  /\ \/ creating' = creating \cup {x} /\ UNCHANGED <<stranded, exportFaults>>
     \/ ExportFault /\ stranded' = stranded \cup {x} /\ UNCHANGED creating   \* the answer is lost
  /\ UNCHANGED <<zips, alive, waiting, zipJob, retention, leaked>>

Enqueue(x) ==
  /\ x \in creating
  /\ creating' = creating \ {x}
  /\ waiting' = [waiting EXCEPT ![exportRow[x].owner] = Append(@, x)]
  /\ UNCHANGED <<exportRow, zips, alive, zipJob, retention, history, exportFaults>>

------------------------------------------------------------------------------
(* run, one at a time *)

(* The claim; when the query fails the job ends, and the row stays queued. *)
Claim(o) ==
  /\ zipJob[o].pc = "idle" /\ waiting[o] # <<>>
  /\ LET x == Head(waiting[o]) IN
     \/ /\ Movable(x, {"queued"}, o)
        /\ exportRow' = [exportRow EXCEPT ![x].status = "running", ![x].fresh = TRUE]
        /\ ToJob(o, [NoJob EXCEPT !.pc = "build", !.x = x])
        /\ UNCHANGED <<stranded, exportFaults>>
     \/ /\ ~Movable(x, {"queued"}, o)
        /\ UNCHANGED <<exportRow, zipJob, stranded, exportFaults>>
     \/ /\ ExportFault
        /\ stranded' = stranded \cup {x}
        /\ UNCHANGED <<exportRow, zipJob>>
  /\ waiting' = [waiting EXCEPT ![o] = Tail(@)]
  /\ UNCHANGED <<zips, alive, creating, retention, leaked>>

(* writeSignedCopiesZip: one copy is written while the next is opened. *)
OpenCopy(o) ==
  /\ zipJob[o].pc = "build" /\ zipJob[o].copies + zipJob[o].reading < Copies /\ zipJob[o].reading < 2
  /\ ToJob(o, [zipJob[o] EXCEPT !.reading = @ + 1])
  /\ UNCHANGED <<exportRow, zips, alive, creating, waiting, retention, history, exportFaults>>

(* A copy is in the ZIP, or is missing or too large and listed as skipped. *)
WriteCopy(o) ==
  /\ zipJob[o].pc = "build" /\ zipJob[o].reading > 0
  /\ ToJob(o, [zipJob[o] EXCEPT !.reading = @ - 1, !.copies = @ + 1])
  /\ UNCHANGED <<exportRow, zips, alive, creating, waiting, retention, history, exportFaults>>

(* The manifest is written and the multipart upload completed. *)
EndZip(o) ==
  /\ zipJob[o].pc = "build" /\ zipJob[o].copies = Copies
  /\ zips' = zips \cup {zipJob[o].x}
  /\ ToJob(o, At(o, "mark"))
  /\ UNCHANGED <<exportRow, alive, creating, waiting, retention, history, exportFaults>>

(* Opening or uploading fails, and the upload is aborted; when the answer to complete *)
(* is lost, the ZIP is there.                                                        *)
ZipFails(o) ==
  /\ zipJob[o].pc = "build" /\ ExportFault
  /\ \/ UNCHANGED <<zips, leaked>>
     \/ /\ zipJob[o].copies = Copies
        /\ zips' = zips \cup {zipJob[o].x} /\ leaked' = leaked \cup {zipJob[o].x}
  /\ ToJob(o, At(o, "fail"))
  /\ UNCHANGED <<exportRow, alive, creating, waiting, retention, stranded>>

(* A copy cut while it is read, of which the ZIP hears nothing (BodyCut), or a call of *)
(* the storage that is never answered: its client is given no timeout. The job waits   *)
(* until its process dies, and what is behind it in the queue waits with it.          *)
Hangs(o) ==
  LET x == zipJob[o].x IN
  /\ zipJob[o].pc \in {"build", "delete"} /\ ExportFault
  /\ \/ UNCHANGED zips
     \/ zipJob[o].pc = "build" /\ zipJob[o].copies = Copies /\ zips' = zips \cup {x}
     \/ zipJob[o].pc = "delete" /\ zips' = zips \ {x}
  /\ ToJob(o, At(o, "hung"))
  /\ UNCHANGED <<exportRow, alive, creating, waiting, retention, history>>

(* Ready for 24 hours, unless it is no longer running; when the query fails, its *)
(* effect is there or not.                                                       *)
MarkReady(o) ==
  /\ zipJob[o].pc = "mark"
  /\ LET x == zipJob[o].x  may == Movable(x, {"running"}, o) IN
     \/ /\ IF may THEN Moved(x, "ready") ELSE UNCHANGED exportRow
        /\ ToJob(o, IF may THEN NoJob ELSE At(o, "delete"))
        /\ UNCHANGED <<leaked, exportFaults>>
     \/ /\ ExportFault
        /\ \/ may /\ Moved(x, "ready") /\ UNCHANGED leaked
           \/ UNCHANGED exportRow /\ leaked' = leaked \cup {x}
        /\ ToJob(o, At(o, "fail"))
  /\ UNCHANGED <<zips, alive, creating, waiting, retention, stranded>>

DeleteZip(o) ==
  /\ zipJob[o].pc = "delete"
  /\ \/ zips' = zips \ {zipJob[o].x} /\ ToJob(o, NoJob) /\ UNCHANGED <<leaked, exportFaults>>
     \/ /\ ExportFault /\ leaked' = leaked \cup {zipJob[o].x} /\ ToJob(o, At(o, "fail"))
        /\ zips' \in {zips, zips \ {zipJob[o].x}}
  /\ UNCHANGED <<exportRow, alive, creating, waiting, retention, stranded>>

(* The catch of run; its own query may fail too. *)
MarkFailed(o) ==
  /\ zipJob[o].pc = "fail"
  /\ LET x == zipJob[o].x IN
     \/ /\ IF Movable(x, {"running"}, o) THEN Moved(x, "failed") ELSE UNCHANGED exportRow
        /\ UNCHANGED <<stranded, exportFaults>>
     \/ ExportFault /\ stranded' = stranded \cup {x} /\ UNCHANGED exportRow
  /\ ToJob(o, NoJob)
  /\ UNCHANGED <<zips, alive, creating, waiting, retention, leaked>>

------------------------------------------------------------------------------
(* Heartbeats, recovery and processes that die *)

Owned(o) == {x \in Exports : exportRow[x].owner = o /\ exportRow[x].status \in Unfinished}

(* heartbeat(owner). *)
Heartbeat(o) ==
  /\ o \in alive /\ \E x \in Owned(o) : ~exportRow[x].fresh
  /\ exportRow' = [x \in Exports |-> IF x \in Owned(o) THEN [exportRow[x] EXCEPT !.fresh = TRUE]
                                     ELSE exportRow[x]]
  /\ UNCHANGED <<zips, alive, work, retention, history, exportFaults>>

(* Two minutes without a heartbeat: the owner is gone, or its queries fail. *)
TurnsStale(x) ==
  /\ exportRow[x].status \in Unfinished /\ exportRow[x].fresh
  /\ IF exportRow[x].owner \in alive THEN ExportFault ELSE UNCHANGED exportFaults
  /\ exportRow' = [exportRow EXCEPT ![x].fresh = FALSE]
  /\ UNCHANGED <<zips, alive, work, retention, history>>

(* failStale, in the timer of any process. *)
RunningOnly == {"running"}
RecoveredStatuses == Unfinished
Stale == {x \in Exports : exportRow[x].status \in RecoveredStatuses /\ ~exportRow[x].fresh}

RecoverStale ==
  /\ alive # {} /\ Stale # {}
  /\ exportRow' = [x \in Exports |-> IF x \in Stale THEN [exportRow[x] EXCEPT !.status = "failed"]
                                     ELSE exportRow[x]]
  /\ UNCHANGED <<zips, alive, work, retention, history, exportFaults>>

(* A process dies with its queue; another is there or is started. *)
Die(o) ==
  /\ o \in alive /\ alive # {o} /\ ExportFault
  /\ alive' = alive \ {o}
  /\ creating' = {x \in creating : exportRow[x].owner # o}
  /\ waiting' = [waiting EXCEPT ![o] = <<>>]
  /\ ToJob(o, NoJob)
  /\ leaked' = leaked \cup ({zipJob[o].x} \cap zips)
  /\ UNCHANGED <<exportRow, zips, retention, stranded>>

------------------------------------------------------------------------------
(* DocumentExportRetentionService.run *)

(* expires_at passes. *)
PassExpiry(x) ==
  /\ exportRow[x].status = "ready" /\ Moved(x, "past")
  /\ UNCHANGED <<zips, alive, work, retention, history, exportFaults>>

ToPass(p, r) == retention' = [retention EXCEPT ![p] = r]

WhateverReady == {x \in Exports : exportRow[x].status \in {"ready", "past"}}
Expired == {x \in Exports : exportRow[x].status = "past"}

ListExpired(p) ==
  /\ retention[p].pc = "idle" /\ Expired # {}
  /\ ToPass(p, [NoRetention EXCEPT !.pc = "next", !.listed = Expired])
  /\ UNCHANGED <<exportRow, zips, alive, work, history, exportFaults>>

(* The object goes first, so that a failed delete is tried again tomorrow. *)
DropZip(p) ==
  /\ retention[p].pc = "next"
  /\ \/ /\ retention[p].listed = {} /\ ToPass(p, NoRetention)
        /\ UNCHANGED <<zips, exportFaults>>
     \/ \E x \in retention[p].listed :
          \/ /\ zips' = zips \ {x}
             /\ ToPass(p, [pc |-> "expire", listed |-> retention[p].listed \ {x}, x |-> x])
             /\ UNCHANGED exportFaults
          \/ /\ ExportFault /\ ToPass(p, [retention[p] EXCEPT !.listed = @ \ {x}])
             /\ zips' \in {zips, zips \ {x}}
  /\ UNCHANGED <<exportRow, alive, work, history>>

MarkExpired(p) ==
  /\ retention[p].pc = "expire"
  /\ LET x == retention[p].x IN
     \/ /\ IF exportRow[x].status \in {"ready", "past"} THEN Moved(x, "expired")
           ELSE UNCHANGED exportRow
        /\ UNCHANGED exportFaults
     \/ ExportFault /\ UNCHANGED exportRow
  /\ ToPass(p, [retention[p] EXCEPT !.pc = "next", !.x = "none"])
  /\ UNCHANGED <<zips, alive, work, history>>

------------------------------------------------------------------------------

Build(o) ==
  \/ Claim(o) \/ OpenCopy(o) \/ WriteCopy(o) \/ EndZip(o) \/ ZipFails(o) \/ MarkReady(o)
  \/ DeleteZip(o) \/ MarkFailed(o)

ExportsNext ==
  \/ \E o \in Owners, x \in Exports : Create(o, x)
  \/ \E x \in Exports : Enqueue(x) \/ TurnsStale(x) \/ PassExpiry(x)
  \/ \E o \in Owners : Build(o) \/ Hangs(o) \/ Heartbeat(o) \/ Die(o)
  \/ RecoverStale
  \/ \E p \in Passes : ListExpired(p) \/ DropZip(p) \/ MarkExpired(p)

ExportsSpec == ExportsInit /\ [][ExportsNext]_exportVars

(* Every row and job has its type, and at most two copies are read at a time. *)
ExportsTypeOK ==
  /\ \A x \in Exports : exportRow[x].status \in Statuses
  /\ zips \subseteq Exports /\ creating \subseteq Exports /\ alive \subseteq Owners
  /\ \A o \in Owners : waiting[o] \in Seq(Exports) /\ zipJob[o].reading \in 0 .. 2
  /\ stranded \subseteq Exports /\ leaked \subseteq Exports
  /\ exportFaults \in 0 .. MaxExportFaults

(* The bucket agrees with the table: an export that can be downloaded has its ZIP, *)
(* and no other ZIP is left behind, except by a call that failed.                 *)
InHand(x) == \E o \in Owners : zipJob[o].x = x
ZipsMatch ==
  /\ ExportsTypeOK
  /\ \A x \in Exports :
       /\ exportRow[x].status = "ready" => x \in zips
       /\ x \in zips => exportRow[x].status \in {"ready", "past"} \/ InHand(x) \/ x \in leaked

(* An export is not under way for good, whoever dies. What still waits has a process *)
(* that lives and sends heartbeats for it, and a failure behind it: a query did not   *)
(* move the row on, or a build that hangs is its own or is before it in the queue.    *)
Hung(x) ==
  LET o == exportRow[x].owner IN
  zipJob[o].pc = "hung" /\ (zipJob[o].x = x \/ x \in ToSet(waiting[o]))
AllEnded ==
  \A x \in Exports :
    exportRow[x].status \in Unfinished => exportRow[x].owner \in alive /\ (x \in stranded \/ Hung(x))

------------------------------------------------------------------------------
(* One export's ZIP, streamed from the signed copies into a multipart upload:     *)
(*   documents/document-export-zip.ts (writeSignedCopiesZip), multipart-upload.ts, *)
(*   private-storage.client.ts (getStream, byteCap, uploadStream),                 *)
(*   document-export-files.ts (names and manifest)                                 *)
(* Three things run at once: the build, which has one copy written and the next    *)
(* opened; the upload, which reads the ZIP and sends its parts; the parts and the  *)
(* copies under way. Bytes are units, told apart by the copy they belong to.       *)

CONSTANTS
  Rows,         \* the assignments: base name of each one's file, a sequence of words
  Sizes,        \* units a copy may hold
  MaxFileSize,  \* MAX_EXPORT_FILE_BYTES
  PartSize,     \* MULTIPART_PART_SIZE
  MaxInFlight,  \* MULTIPART_MAX_IN_FLIGHT
  HighWater     \* units the ZIP's output holds before it pauses what is written into it

VARIABLES
  copies,   \* copies[i]: the signed copy in the bucket
  build,    \* writeSignedCopiesZip
  opened,   \* opened[i]: the read of copy i
  output,   \* zip.outputStream: what is written and not read yet
  upload,   \* uploadInParts
  sent,     \* sent[n]: part n of this process
  bucket,   \* the multipart upload and the object, at the storage
  archiveFaults

archiveVars == <<copies, build, opened, output, upload, sent, bucket, archiveFaults>>

(* told: the answer has a ContentLength. *)
Missing == [size |-> 0, told |-> FALSE, there |-> FALSE]
CopiesOf == {Missing} \cup [size : Sizes, told : BOOLEAN, there : {TRUE}]
Manifest == 0                        \* the unit of the manifest and the directory
NoObject == <<99>>
PartNumbers == 1 .. (Len(Rows) * MaxFileSize + 1)
NoPart == [pc |-> "none", units |-> <<>>]
NotOpened == [pc |-> "no", left |-> 0, seen |-> 0]

ArchiveInit ==
  /\ copies \in [DOMAIN Rows -> CopiesOf]
  /\ build = [pc |-> "next", i |-> 1, names |-> {}, lines |-> <<>>, files |-> 0, skipped |-> 0]
  /\ opened = [i \in DOMAIN Rows |-> IF i = 1 THEN [NotOpened EXCEPT !.pc = "opening"] ELSE NotOpened]
  /\ output = [pc |-> "open", units |-> <<>>]
  /\ upload = [pc |-> "start", chunk |-> <<>>, part |-> <<>>, number |-> 0, total |-> 0,
               parts |-> <<>>, error |-> FALSE]
  /\ sent = [n \in PartNumbers |-> NoPart]
  /\ bucket = [multipart |-> "none", parts |-> [n \in PartNumbers |-> <<>>], object |-> NoObject,
               lost |-> FALSE]
  /\ archiveFaults = 0

ArchiveFault == archiveFaults < MaxExportFaults /\ archiveFaults' = archiveFaults + 1
Ended == {"done", "failed"}
UploadFailed == upload.pc = "failed"

------------------------------------------------------------------------------
(* The copies: openCopy, getStream, byteCap *)

TooLarge(c) == c.told /\ c.size > MaxFileSize

(* What the GET answers: nothing there or too large is skipped, an error is thrown. *)
AnswerOf(c) ==
  CASE ~c.there -> [NotOpened EXCEPT !.pc = "missing"]
    [] c.there /\ TooLarge(c) -> [NotOpened EXCEPT !.pc = "too large"]   \* the body is destroyed
    [] OTHER -> [pc |-> "stream", left |-> c.size, seen |-> 0]

OpenAnswered(i) ==
  /\ opened[i].pc = "opening"
  /\ \/ opened' = [opened EXCEPT ![i] = AnswerOf(copies[i])] /\ UNCHANGED archiveFaults
     \/ ArchiveFault /\ opened' = [opened EXCEPT ![i].pc = "error"]
  /\ UNCHANGED <<copies, build, output, upload, sent, bucket>>

(* The next unit of the copy that is written goes through byteCap into the ZIP,     *)
(* which takes it while its output is not full.                                     *)
PassesAnything(seen) == TRUE
PassesCap(seen) == seen <= MaxFileSize

Flow(i) ==
  /\ build.pc = "write" /\ build.i = i
  /\ opened[i].pc = "stream" /\ opened[i].left > 0
  /\ output.pc = "open" /\ Len(output.units) < HighWater
  /\ IF PassesCap(opened[i].seen + 1)
     THEN /\ opened' = [opened EXCEPT ![i].left = @ - 1, ![i].seen = @ + 1]
          /\ output' = [output EXCEPT !.units = Append(@, i)]
     ELSE opened' = [opened EXCEPT ![i].pc = "overflow"] /\ UNCHANGED output
  /\ UNCHANGED <<copies, build, upload, sent, bucket, archiveFaults>>

(* The connection is cut: pipe() ends the capped stream only with its source, and  *)
(* hands no error on.                                                              *)
BodyCut(i) ==
  /\ opened[i].pc = "stream" /\ opened[i].left > 0 /\ ArchiveFault
  /\ opened' = [opened EXCEPT ![i].pc = "cut"]
  /\ UNCHANGED <<copies, build, output, upload, sent, bucket>>

------------------------------------------------------------------------------
(* The build *)

(* signedCopyBaseName: last and first name with the date, safe as a file name. *)
BaseName(i) == Rows[i]

(* UniqueNames.take: " (2)", " (3)"... until the name is free. *)
Named(base, n) == IF n = 1 THEN base ELSE Append(base, n)
TakenName(base, taken) ==
  Named(base, CHOOSE n \in 1 .. (Cardinality(taken) + 1) :
                /\ Named(base, n) \notin taken
                /\ \A k \in 1 .. (n - 1) : Named(base, k) \in taken)
BaseNameOnly(base, taken) == base
FileName(base, taken) == TakenName(base, taken)

ManifestLine(i, name, skip) == [row |-> i, name |-> name, skip |-> skip]

OpenAfter(i) == [opened EXCEPT ![i + 1].pc = "opening"]

(* The awaited copy is there: the next is opened; a missing or too large one is     *)
(* listed as skipped, and any other is given its name.                             *)
TakeNext ==
  LET i == build.i IN
  /\ build.pc = "next" /\ i <= Len(Rows)
  /\ opened[i].pc \in {"stream", "cut", "missing", "too large"}
  /\ opened' = IF i < Len(Rows) THEN OpenAfter(i) ELSE opened
  /\ build' = IF opened[i].pc \in {"stream", "cut"}
              THEN [build EXCEPT !.pc = "write", !.names = @ \cup {FileName(BaseName(i), build.names)},
                      !.lines = Append(@, ManifestLine(i, FileName(BaseName(i), build.names), "no"))]
              ELSE [build EXCEPT !.i = @ + 1, !.skipped = @ + 1,
                      !.lines = Append(@, ManifestLine(i, <<>>, opened[i].pc))]
  /\ UNCHANGED <<copies, output, upload, sent, bucket, archiveFaults>>

(* finished(stream): the copy is written. *)
CopyWritten ==
  LET i == build.i IN
  /\ build.pc = "write" /\ opened[i].pc = "stream" /\ opened[i].left = 0
  /\ opened' = [opened EXCEPT ![i].pc = "read"]
  /\ build' = [build EXCEPT !.pc = "next", !.i = @ + 1, !.files = @ + 1]
  /\ UNCHANGED <<copies, output, upload, sent, bucket, archiveFaults>>

(* The manifest and zip.end(); then the upload is awaited. *)
EndArchive ==
  /\ build.pc = "next" /\ build.i > Len(Rows)
  /\ output.pc = "open" /\ Len(output.units) < HighWater
  /\ output' = [pc |-> "ended", units |-> Append(output.units, Manifest)]
  /\ build' = [build EXCEPT !.pc = "upload"]
  /\ UNCHANGED <<copies, opened, upload, sent, bucket, archiveFaults>>

BuildEnds ==
  /\ build.pc = "upload" /\ upload.pc = "done"
  /\ build' = [build EXCEPT !.pc = "done"]
  /\ UNCHANGED <<copies, opened, output, upload, sent, bucket, archiveFaults>>

(* What ends the try: the awaited copy failed, or the upload did while the build    *)
(* was waiting for it, for a copy or for its next.                                 *)
Awaited == IF build.i <= Len(Rows) THEN opened[build.i].pc ELSE "no"
CopyFailed == build.pc \in {"next", "write"} /\ Awaited \in {"error", "overflow"}
CopyOnly == CopyFailed
CopyOrUpload ==
  \/ CopyFailed
  \/ build.pc \in {"next", "write", "upload"} /\ UploadFailed
Thrown == CopyOrUpload

(* Destroying what getStream gave unpipes the body of the answer, and leaves it as it is: *)
(* open, and read no further, unless the connection has ended already. So does a copy     *)
(* that goes over the cap.                                                               *)
Dropped(read) ==
  CASE read.pc \in {"stream", "overflow"} -> [read EXCEPT !.pc = "unpiped"]
    [] read.pc = "cut" -> [read EXCEPT !.pc = "closed"]
    [] OTHER -> read

(* The catch: the copy that is written is destroyed. *)
Throw ==
  /\ Thrown
  /\ build' = [build EXCEPT !.pc = "catch"]
  /\ opened' = [i \in DOMAIN Rows |->
                  IF i = build.i /\ build.pc = "write" THEN Dropped(opened[i]) ELSE opened[i]]
  /\ UNCHANGED <<copies, output, upload, sent, bucket, archiveFaults>>

(* The one that is opened is awaited and destroyed, then the output is. *)
CatchPending ==
  /\ build.pc = "catch"
  /\ \A i \in DOMAIN Rows : opened[i].pc # "opening"
  /\ opened' = [i \in DOMAIN Rows |-> Dropped(opened[i])]
  /\ output' = [output EXCEPT !.pc = "destroyed"]
  /\ build' = [build EXCEPT !.pc = "settle"]
  /\ UNCHANGED <<copies, upload, sent, bucket, archiveFaults>>

(* The upload is awaited before the error is thrown on. *)
SettledWith(pcs) == build.pc = "settle" /\ upload.pc \in pcs
Rethrow ==
  /\ SettledWith(Ended)
  /\ build' = [build EXCEPT !.pc = "failed"]
  /\ UNCHANGED <<copies, opened, output, upload, sent, bucket, archiveFaults>>

------------------------------------------------------------------------------
(* uploadInParts *)

ToUpload(u) == upload' = u
InFlight == {n \in PartNumbers : sent[n].pc = "flying"}

(* start() is outside the try: its failure aborts nothing. *)
StartUpload ==
  /\ upload.pc = "start"
  /\ \/ /\ bucket' = [bucket EXCEPT !.multipart = "open"]
        /\ ToUpload([upload EXCEPT !.pc = "read"]) /\ UNCHANGED archiveFaults
     \/ /\ ArchiveFault
        /\ bucket' \in {bucket, [bucket EXCEPT !.multipart = "open", !.lost = TRUE]}
        /\ ToUpload([upload EXCEPT !.pc = "failed"])
  /\ UNCHANGED <<copies, build, opened, output, sent>>

(* for await: what is there; the end of the output; or its error. *)
ReadChunk ==
  /\ upload.pc = "read" /\ upload.chunk = <<>> /\ output.pc # "destroyed" /\ output.units # <<>>
  /\ ToUpload([upload EXCEPT !.chunk = output.units, !.total = @ + Len(output.units)])
  /\ output' = [output EXCEPT !.units = <<>>]
  /\ UNCHANGED <<copies, build, opened, sent, bucket, archiveFaults>>

Taken == Min({PartSize - Len(upload.part), Len(upload.chunk)})

Sent(units) == sent' = [sent EXCEPT ![upload.number + 1] = [pc |-> "flying", units |-> units]]

(* A chunk fills the part; a full part is sent, and waits for a place in flight. *)
FillPart ==
  LET filled == upload.part \o SubSeq(upload.chunk, 1, Taken)
      rest == SubSeq(upload.chunk, Taken + 1, Len(upload.chunk)) IN
  /\ upload.pc = "read" /\ upload.chunk # <<>>
  /\ IF Len(filled) = PartSize
     THEN /\ Sent(filled)
          /\ ToUpload([upload EXCEPT !.pc = "race", !.chunk = rest, !.part = <<>>, !.number = @ + 1])
     ELSE /\ ToUpload([upload EXCEPT !.chunk = rest, !.part = filled])
          /\ UNCHANGED sent
  /\ UNCHANGED <<copies, build, opened, output, bucket, archiveFaults>>

RoomInFlight == Cardinality(InFlight) < MaxInFlight
RoomForOneMore == Cardinality(InFlight) <= MaxInFlight
Room == RoomInFlight

RaceEnds ==
  /\ upload.pc = "race" /\ Room
  /\ ToUpload([upload EXCEPT !.pc = IF upload.error THEN "catch" ELSE "read"])
  /\ UNCHANGED <<copies, build, opened, output, sent, bucket, archiveFaults>>

(* The last part, which may be short; an empty body has one empty part. *)
LastPart ==
  /\ upload.pc = "read" /\ upload.chunk = <<>> /\ output.pc = "ended" /\ output.units = <<>>
  /\ IF upload.part # <<>> \/ upload.number = 0
     THEN Sent(upload.part) /\ ToUpload([upload EXCEPT !.pc = "drain", !.part = <<>>, !.number = @ + 1])
     ELSE UNCHANGED sent /\ ToUpload([upload EXCEPT !.pc = "drain"])
  /\ UNCHANGED <<copies, build, opened, output, bucket, archiveFaults>>

ReadThrows ==
  /\ upload.pc = "read" /\ upload.chunk = <<>> /\ output.pc = "destroyed"
  /\ ToUpload([upload EXCEPT !.pc = "catch"])
  /\ UNCHANGED <<copies, build, opened, output, sent, bucket, archiveFaults>>

(* A part is stored, and answered or not; an aborted upload stores no more. *)
PartAnswered(n) ==
  /\ sent[n].pc = "flying"
  /\ sent' = [sent EXCEPT ![n] = NoPart]
  /\ bucket' = [bucket EXCEPT !.parts[n] = IF bucket.multipart = "open" THEN sent[n].units ELSE @]
  /\ \/ ToUpload([upload EXCEPT !.parts = Append(@, n)]) /\ UNCHANGED archiveFaults
     \/ ArchiveFault /\ ToUpload([upload EXCEPT !.error = TRUE])
  /\ UNCHANGED <<copies, build, opened, output>>

(* Promise.all(inFlight), and the first error. *)
AllAnswered == InFlight = {}
DrainedAtOnce == TRUE
Drained == AllAnswered

DrainEnds ==
  /\ upload.pc = "drain" /\ Drained
  /\ ToUpload([upload EXCEPT !.pc = IF upload.error THEN "catch" ELSE "complete"])
  /\ UNCHANGED <<copies, build, opened, output, sent, bucket, archiveFaults>>

(* Completed with the parts in their order: the object appears. *)
AsAnswered(parts) == parts
ByNumber(parts) == SetToSortSeq(ToSet(parts), <)
Ordered(parts) == ByNumber(parts)

ObjectOf(parts) == FlattenSeq([k \in DOMAIN parts |-> bucket.parts[parts[k]]])

Complete ==
  LET made == [bucket EXCEPT !.multipart = "completed", !.object = ObjectOf(Ordered(upload.parts))] IN
  /\ upload.pc = "complete"
  /\ \/ bucket' = made /\ ToUpload([upload EXCEPT !.pc = "done"]) /\ UNCHANGED archiveFaults
     \/ ArchiveFault /\ bucket' \in {bucket, made} /\ ToUpload([upload EXCEPT !.pc = "catch"])
  /\ UNCHANGED <<copies, build, opened, output, sent>>

(* The catch: the body is destroyed, the parts in flight are awaited, and the upload *)
(* is aborted; whether that worked is not looked at.                                *)
AbortsOnly == upload.pc = "catch"
AbortsAfterParts == upload.pc = "catch" /\ InFlight = {}
MayAbort == AbortsAfterParts

AbortUpload ==
  /\ MayAbort
  /\ \/ /\ bucket' = [bucket EXCEPT !.multipart = IF @ = "open" THEN "aborted" ELSE @]
        /\ UNCHANGED archiveFaults
     \/ ArchiveFault /\ bucket' = [bucket EXCEPT !.lost = TRUE]
  /\ output' = [output EXCEPT !.pc = "destroyed"]
  /\ ToUpload([upload EXCEPT !.pc = "failed"])
  /\ UNCHANGED <<copies, build, opened, sent>>

------------------------------------------------------------------------------

ArchiveNext ==
  \/ \E i \in DOMAIN Rows : OpenAnswered(i) \/ Flow(i) \/ BodyCut(i)
  \/ TakeNext \/ CopyWritten \/ EndArchive \/ BuildEnds \/ Throw \/ CatchPending \/ Rethrow
  \/ StartUpload \/ ReadChunk \/ FillPart \/ RaceEnds \/ LastPart \/ ReadThrows \/ DrainEnds
  \/ Complete \/ AbortUpload
  \/ \E n \in PartNumbers : PartAnswered(n)

ArchiveSpec == ArchiveInit /\ [][ArchiveNext]_archiveVars

------------------------------------------------------------------------------
(* What the export should hold: every copy that is there and not too large, whole *)
(* and in the order of the rows, then the manifest.                               *)
Fits(i) == copies[i].there /\ copies[i].size <= MaxFileSize
Whole ==
  FlattenSeq([i \in DOMAIN Rows |-> IF Fits(i) THEN [u \in 1 .. copies[i].size |-> i] ELSE <<>>])
    \o <<Manifest>>

(* The object appears whole or not at all, whatever the order in which parts are   *)
(* answered; and an answered build counts and lists what is in it, each file under *)
(* a name of its own.                                                              *)
ArchiveIsWhole ==
  /\ bucket.object \in {NoObject, Whole}
  /\ build.pc = "done" =>
       /\ bucket.object = Whole /\ upload.total = Len(Whole)
       /\ [k \in DOMAIN build.lines |-> build.lines[k].row] = [i \in DOMAIN Rows |-> i]
       /\ build.files = Cardinality({i \in DOMAIN Rows : Fits(i)})
       /\ build.files + build.skipped = Len(Rows)
       /\ Cardinality(build.names) = build.files
       /\ \A i \in DOMAIN Rows : build.lines[i].skip = "no" <=> Fits(i)

(* No more than two bodies of copies are open, the ones that a failure left where they  *)
(* were included, and two parts in flight, beside the one that is filled.             *)
Open == {"opening", "stream", "overflow", "unpiped"}
MemoryIsBounded ==
  /\ Cardinality({i \in DOMAIN Rows : opened[i].pc \in Open}) <= 2
  /\ Cardinality(InFlight) <= MaxInFlight
  /\ Len(upload.part) < PartSize

(* A build fails only when a call failed, or a copy without a ContentLength turned out *)
(* too large; nothing is opened or read any more, no part is in flight and, unless a   *)
(* call of start or abort was lost, no multipart upload is left.                      *)
FailsCleanly ==
  build.pc = "failed" =>
    /\ archiveFaults > 0 \/ \E i \in DOMAIN Rows : copies[i].there /\ ~Fits(i) /\ ~copies[i].told
    /\ \A i \in DOMAIN Rows : opened[i].pc \notin {"opening", "stream", "cut", "overflow"}
    /\ InFlight = {}
    /\ bucket.multipart = "open" => bucket.lost

(* The build, the upload and its parts never all wait for one another: a build that has *)
(* not ended can go on, but for the one that waits for a copy whose connection was cut  *)
(* (CutFailsExport).                                                                   *)
NeverStuck ==
  \/ build.pc \in Ended
  \/ build.pc = "write" /\ opened[build.i].pc = "cut"
  \/ ENABLED ArchiveNext

(* document-exports.http.spec.ts:684, 'marks the export failed when a copy stream errors *)
(* mid-way', of a stream that is put in getStream's place: the build fails once the       *)
(* connection of a copy is cut. getStream itself hands no error on.                      *)
CutFailsExport == \A i \in DOMAIN Rows : opened[i].pc = "cut" ~> build.pc = "failed"

(* Archives: whole or absent, bounded, and never waiting for itself. *)
ArchiveHolds == ArchiveIsWhole /\ MemoryIsBounded /\ FailsCleanly /\ NeverStuck
====
