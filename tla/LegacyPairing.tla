---- MODULE LegacyPairing ----
(* Which entry of the old storefront roster is which instructor:                      *)
(*   shopify/legacy-pairing/pairing-csv.ts, legacy-pairing.commands.ts (apply)           *)
(*   shopify-sync/legacy-roster.ts, instructor-sync.service.ts                            *)
(* A reviewed CSV confirms pairs and dismisses others, in statements that are no          *)
(* transaction, while the sync worker reads the same rows: an instructor whose name is     *)
(* that of an undecided entry is held back, one without a handle claims its own.            *)
EXTENDS Naturals, FiniteSets

CONSTANTS
  Score,                \* Score[i][e]: how like the name of instructor i that of the entry e is, of 100
  MinScore, PerInstructor,  \* 30 and 3 in the code
  Runs,                 \* commands under way at once
  MaxRuns, MaxSyncs,    \* bounds: commands, syncs
  MaxFaults             \* bound: statements that fail

VARIABLES
  handle, dismissed,    \* instructor_shopify_state
  queue,                \* instructor_sync_queue
  shown,                \* shown[i]: none, the handle it is live under, or held for an entry
  job,                  \* the worker's sync: the state it read, and whether its row is as claimed
  run,                  \* run[r]
  paired, recorded,     \* history: the last pair written, the dismissals written
  raced,                \* history: instructors of whom a newer value was overwritten
  unqueued,             \* history: instructors dismissed by a command that then failed
  begun, syncs, faults

pairingVars == <<handle, dismissed, queue, shown, job, run, paired, recorded, raced, unqueued,
                 begun, syncs, faults>>
work == <<queue, shown, job, syncs>>
past == <<paired, recorded, raced, unqueued>>

Scored == DOMAIN Score
Legacy == UNION {DOMAIN Score[i] : i \in Scored}
StrongMatchScore == 100

None == "none"
Idle == [pc |-> "idle", file |-> {}, read |-> <<>>]
NoJob == [pc |-> "idle", i |-> None, handle |-> None, dismissed |-> {}, fresh |-> FALSE]
Held(e) == [held |-> e]
NotShown == [held |-> None]
Live(h) == [live |-> h]

PairingInit ==
  /\ handle = [i \in Scored |-> None] /\ dismissed = [i \in Scored |-> {}]
  /\ queue = {} /\ shown = [i \in Scored |-> NotShown] /\ job = NoJob
  /\ run = [r \in Runs |-> Idle]
  /\ paired = [i \in Scored |-> None] /\ recorded = [i \in Scored |-> {}]
  /\ raced = {} /\ unqueued = {} /\ begun = 0 /\ syncs = 0 /\ faults = 0

------------------------------------------------------------------------------
(* propose: the closest entries of each instructor; the reviewer fills in the last column. *)

Closer(i, d, e) == Score[i][d] > Score[i][e]
Proposed(i) ==
  LET close == {e \in Legacy : Score[i][e] >= MinScore}
  IN {e \in close : Cardinality({d \in close : Closer(i, d, e)}) < PerInstructor}
Rows == {<<i, e>> \in Scored \X Legacy : e \in Proposed(i)}
Reviewed ==
  {{[i |-> row[1], handle |-> row[2], confirm |-> verdict[row]] : row \in Rows} :
     verdict \in [Rows -> {"y", "n", ""}]}

(* parsePairingCsv *)

Confirmed(f) == {d \in f : d.confirm = "y"}
Dismissed(f) == {d \in f : d.confirm = "n"}
Valid(f) == \A c, d \in Confirmed(f) : d.handle = c.handle \/ d.i = c.i => c = d
Named(f) == {d.i : d \in Confirmed(f) \cup Dismissed(f)}

------------------------------------------------------------------------------
(* apply --write *)

Step(r, pc) == run' = [run EXCEPT ![r].pc = pc]
End(r) == run' = [run EXCEPT ![r] = Idle]
Fails(r) == faults < MaxFaults /\ faults' = faults + 1 /\ End(r)

Apply(r) ==
  /\ run[r].pc = "idle" /\ begun < MaxRuns /\ begun' = begun + 1
  /\ \E f \in Reviewed :
       /\ Valid(f) /\ Named(f) # {}
       /\ run' = [run EXCEPT ![r] = [pc |-> IF Confirmed(f) = {} THEN "current" ELSE "taken",
                                     file |-> f, read |-> <<>>]]
  /\ UNCHANGED <<handle, dismissed, work, past, faults>>

ReadTaken(r) ==
  /\ run[r].pc = "taken"
  /\ IF \E d \in Confirmed(run[r].file) : \E i \in Scored \ {d.i} : handle[i] = d.handle
     THEN End(r) ELSE Step(r, "current")
  /\ UNCHANGED <<handle, dismissed, work, past, begun, faults>>

DismissesPairing(f) ==
  \E d \in Dismissed(f) :
    handle[d.i] = d.handle /\ ~ \E p \in Confirmed(f) : p.i = d.i
ReadCurrent(r) ==
  /\ run[r].pc = "current"
  /\ LET f == run[r].file IN
     IF DismissesPairing(f) THEN End(r)
     ELSE run' = [run EXCEPT ![r].pc = IF Confirmed(f) = {} THEN "dismiss" ELSE "pairs",
                             ![r].read = dismissed]
  /\ UNCHANGED <<handle, dismissed, work, past, begun, faults>>

(* One upsert, which the unique index refuses as a whole. *)
PairedHandle(f, i) == (CHOOSE d \in Confirmed(f) : d.i = i).handle
WritePairs(r) ==
  /\ run[r].pc = "pairs"
  /\ LET f == run[r].file
         moved == {d.i : d \in Confirmed(f)}
         after == [i \in Scored |-> IF i \in moved THEN PairedHandle(f, i) ELSE handle[i]]
         clash == \E i, j \in Scored : i # j /\ after[i] # None /\ after[i] = after[j]
     IN IF clash THEN End(r) /\ UNCHANGED <<handle, paired>>
        ELSE /\ handle' = after
             /\ paired' = [i \in Scored |-> IF i \in moved THEN after[i] ELSE paired[i]]
             /\ IF Dismissed(f) = {} THEN End(r) ELSE Step(r, "dismiss")
  /\ UNCHANGED <<dismissed, work, recorded, raced, unqueued, begun, faults>>

(* The dismissals there were when they were read, and those of the file. *)
WriteDismissed(r) ==
  /\ run[r].pc = "dismiss"
  /\ LET f == run[r].file
         of(i) == {d.handle : d \in {e \in Dismissed(f) : e.i = i}}
         named == {d.i : d \in Dismissed(f)}
     IN /\ dismissed' = [i \in Scored |->
                           IF i \in named THEN run[r].read[i] \cup of(i) ELSE dismissed[i]]
        /\ recorded' = [i \in Scored |-> recorded[i] \cup of(i)]
        /\ raced' = raced \cup {i \in named : dismissed[i] # run[r].read[i]}
  /\ Step(r, "queue")
  /\ UNCHANGED <<handle, work, paired, unqueued, begun, faults>>

QueueSync(r) ==
  /\ run[r].pc = "queue"
  /\ LET named == {d.i : d \in Dismissed(run[r].file)}
     IN /\ queue' = queue \cup named
        /\ job' = IF job.i \in named THEN [job EXCEPT !.fresh = FALSE] ELSE job
        /\ unqueued' = unqueued \ named
  /\ End(r)
  /\ UNCHANGED <<handle, dismissed, shown, syncs, paired, recorded, raced, begun, faults>>

(* A statement fails, or the command is stopped between two. *)
Break(r) ==
  /\ run[r].pc # "idle" /\ Fails(r)
  /\ unqueued' = IF run[r].pc = "queue" THEN unqueued \cup {d.i : d \in Dismissed(run[r].file)}
                 ELSE unqueued
  /\ UNCHANGED <<handle, dismissed, work, paired, recorded, raced, begun>>

------------------------------------------------------------------------------
(* The sync worker *)

(* A trigger, the reconcile or an admin queues an instructor. *)
Enqueue(i) ==
  /\ syncs < MaxSyncs /\ syncs' = syncs + 1
  /\ queue' = queue \cup {i}
  /\ job' = IF job.i = i THEN [job EXCEPT !.fresh = FALSE] ELSE job
  /\ UNCHANGED <<handle, dismissed, shown, run, past, begun, faults>>

ReadState(i) ==
  /\ job.pc = "idle" /\ i \in queue
  /\ job' = [pc |-> "held", i |-> i, handle |-> handle[i], dismissed |-> dismissed[i], fresh |-> TRUE]
  /\ UNCHANGED <<handle, dismissed, queue, shown, run, past, begun, syncs, faults>>

(* completeQueueRow: only the row as it was claimed. Mutation: any. *)
CompletesAny == TRUE
Completes == job.fresh
Finish(outcome) ==
  /\ shown' = [shown EXCEPT ![job.i] = outcome]
  /\ queue' = IF Completes THEN queue \ {job.i} ELSE queue
  /\ job' = NoJob

Strong(i) == {e \in Legacy : Score[i][e] >= StrongMatchScore}

(* holdFor: with the handles as they are now and the dismissals as they were read. *)
Undecided(i) ==
  IF job.handle \in Legacy THEN {}
  ELSE {e \in Strong(i) \ job.dismissed : \A j \in Scored \ {i} : handle[j] # e}
Hold(e) ==
  /\ job.pc = "held" /\ e \in Undecided(job.i)
  /\ Finish(Held(e))
  /\ UNCHANGED <<handle, dismissed, run, past, begun, syncs, faults>>
Publish ==
  /\ job.pc = "held" /\ Undecided(job.i) = {}
  /\ job' = [job EXCEPT !.pc = IF job.handle = None THEN "claim" ELSE "upsert"]
  /\ UNCHANGED <<handle, dismissed, queue, shown, run, past, begun, syncs, faults>>

(* claimHandle: i stands for the handle of its own. *)
ClaimHandle ==
  /\ job.pc = "claim"
  /\ handle' = [handle EXCEPT ![job.i] = job.i]
  /\ raced' = IF handle[job.i] # job.handle THEN raced \cup {job.i} ELSE raced
  /\ job' = [job EXCEPT !.pc = "upsert", !.handle = job.i]
  /\ UNCHANGED <<dismissed, queue, shown, run, paired, recorded, unqueued, begun, syncs, faults>>

UpsertEntry ==
  /\ job.pc = "upsert" /\ Finish(Live(job.handle))
  /\ UNCHANGED <<handle, dismissed, run, past, begun, syncs, faults>>

PairingNext ==
  \/ \E r \in Runs :
       \/ Apply(r) \/ ReadTaken(r) \/ ReadCurrent(r) \/ WritePairs(r) \/ WriteDismissed(r) \/ QueueSync(r)
       \/ Break(r)
  \/ \E i \in Scored : Enqueue(i) \/ ReadState(i)
  \/ \E e \in Legacy : Hold(e)
  \/ Publish \/ ClaimHandle \/ UpsertEntry

PairingSpec == PairingInit /\ [][PairingNext]_pairingVars

------------------------------------------------------------------------------

(* Decisions take effect. A written pair stays, and so does a dismissal, unless a row that *)
(* had changed since it was read was overwritten; no entry is paired with two; and once no  *)
(* command is between a dismissal and its sync, and none has failed there, nobody stays     *)
(* held back for an entry that was dismissed, whatever the worker had read at the time.      *)
DecisionsTakeEffect ==
  /\ \A i \in Scored \ raced :
       /\ paired[i] \in {None, handle[i]}
       /\ recorded[i] \subseteq dismissed[i]
  /\ \A i, j \in Scored : handle[i] = handle[j] /\ handle[i] # None => i = j
  /\ (\A r \in Runs : run[r].pc # "queue") =>
       \A i \in Scored \ (raced \cup unqueued \cup queue) : \A e \in dismissed[i] : shown[i] # Held(e)
====
