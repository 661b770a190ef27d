---------------------------- MODULE RetentionPurge ----------------------------
(***************************************************************************)
(* The retention purge: a bounded cleanup of content reports, of audit     *)
(* entries whose report is gone, and of the generations of adoption        *)
(* sessions that were given up, while operators change reports, sessions   *)
(* promote, and Firestore's TTL removes documents one by one.              *)
(*                                                                         *)
(* One account.  The pages of a scan only batch its reads: every document  *)
(* is looked at, in the order of ids.  A purge of purchases is PurgeExpire *)
(* of PurchaseAttempts.                                                    *)
(***************************************************************************)
EXTENDS Naturals, FiniteSets

CONSTANTS Cleaners,       \* runs of the job
          LastFiled,      \* reports are 1 .. LastFiled
          LastSession,    \* sessions are 1 .. LastSession, each with the generation of its number
          Rows,           \* records a session stages
          FiledUntil,     \* expiresAt of each report there is at first
          Keep,           \* REPORT_RETENTION_DAYS
          SessionUntil,   \* expiresAt of every session: ADOPTION_TRANSFER_TTL_MS after its start
          Lease,          \* ADOPTION_PROMOTION_LEASE_MS
          MaxDeletes,     \* maxDeletes
          MaxTransitions, MaxTime, MaxRuns   \* bounds

Filed    == 1 .. LastFiled
Adopters == 1 .. LastSession

ASSUME PurgeAssumption ==
  /\ LastFiled \in Nat /\ LastSession \in Nat /\ Rows \in Nat /\ SessionUntil \in Nat
  /\ FiledUntil \in [Filed -> Nat]
  /\ {Lease, MaxDeletes, Keep} \subseteq Nat \ {0} /\ {MaxTransitions, MaxTime, MaxRuns} \subseteq Nat

VARIABLES
  time,
  filed,     \* contentReports: is it there, until when, its audit entries, changes so far
  adopter,   \* adoptionTransfers: state and applyCursor
  space,     \* progressGenerations: state, and the records under it
  pin,       \* progressMetadata: the active generation and the promotion's lease
  run,       \* each run of the job; history: the sessions that were gone when it started
  runs       \* runs so far

purgeVars == <<time, filed, adopter, space, pin, run, runs>>

NotRunning == [pc |-> "idle", at |-> 0, cutoff |-> 0, deletes |-> 0, eligible |-> 0,
               listed |-> {}, lost |-> {}, due |-> FALSE, unresolved |-> FALSE, complete |-> FALSE]
Free == [owner |-> 0, until |-> 0]

PurgeInit ==
  /\ time = 0
  /\ filed = [r \in Filed |-> [there |-> TRUE, until |-> FiledUntil[r], audit |-> {}, changes |-> 0]]
  /\ adopter = [s \in Adopters |-> [state |-> "preview_ready", cursor |-> 0]]
  /\ space = [s \in Adopters |-> [state |-> "none", rows |-> 0]]
  /\ pin = [active |-> 0, owner |-> 0, until |-> 0]
  /\ run = [c \in Cleaners |-> NotRunning]
  /\ runs = 0

TimePasses ==
  /\ time < MaxTime
  /\ time' = time + 1
  /\ UNCHANGED <<filed, adopter, space, pin, run, runs>>

-----------------------------------------------------------------------------
(* Reports *)

\* An operator changes a report: an audit entry with the expiry of its report.
ChangeReport(r) ==
  /\ filed[r].there /\ filed[r].until > time /\ filed[r].changes < MaxTransitions
  /\ filed' = [filed EXCEPT ![r].changes = @ + 1,
                            ![r].audit = @ \cup {<<filed[r].changes + 1, filed[r].until>>}]
  /\ UNCHANGED <<time, adopter, space, pin, run, runs>>

\* The document is named by the client's submission: sent again when it is gone,
\* a report is filed anew.  (Bound: once.)
FileAgain(r) ==
  /\ ~filed[r].there /\ filed[r].until = FiledUntil[r]
  /\ filed' = [filed EXCEPT ![r].there = TRUE, ![r].until = time + Keep]
  /\ UNCHANGED <<time, adopter, space, pin, run, runs>>

\* Firestore's TTL, document by document.
ExpireReport(r) ==
  /\ filed[r].there /\ filed[r].until <= time
  /\ filed' = [filed EXCEPT ![r].there = FALSE]
  /\ UNCHANGED <<time, adopter, space, pin, run, runs>>

-----------------------------------------------------------------------------
(* Sessions: what AdoptionPromotion says of them, here with one request each. *)

LeaseIsLive == pin.owner # 0 /\ pin.until > time

\* confirmAdoptionTransfer begins.  The expiry of the session is not compared.
BeginApply(s) ==
  /\ adopter[s].state = "preview_ready"
  /\ pin.active = 0                     \* the generation that was previewed
  /\ ~(LeaseIsLive /\ pin.owner # s)
  /\ adopter' = [adopter EXCEPT ![s].state = "applying"]
  /\ space' = [space EXCEPT ![s].state = "building"]
  /\ pin' = [pin EXCEPT !.owner = s, !.until = time + Lease]
  /\ UNCHANGED <<time, filed, run, runs>>

\* The generation is there and being built.  A slip: its state is not read.
StillBuilding_There(s) == space[s].state # "none"
StillBuilding(s)       == space[s].state = "building"

\* It is confirmed again, after a crash or when the lease ran out.
RenewApply(s) ==
  /\ adopter[s].state = "applying"
  /\ pin.active = 0 /\ pin.owner = s /\ StillBuilding(s)
  /\ pin' = [pin EXCEPT !.until = time + Lease]
  /\ UNCHANGED <<time, filed, adopter, space, run, runs>>

StageRow(s) ==
  /\ adopter[s].state = "applying" /\ adopter[s].cursor < Rows
  /\ pin.active = 0 /\ LeaseIsLive /\ pin.owner = s /\ StillBuilding(s)
  /\ space' = [space EXCEPT ![s].rows = @ + 1]
  /\ adopter' = [adopter EXCEPT ![s].cursor = @ + 1]
  /\ pin' = [pin EXCEPT !.until = time + Lease]
  /\ UNCHANGED <<time, filed, run, runs>>

CompleteApply(s) ==
  /\ adopter[s].state = "applying" /\ adopter[s].cursor = Rows
  /\ pin.active = 0 /\ LeaseIsLive /\ pin.owner = s /\ StillBuilding(s)
  /\ adopter' = [adopter EXCEPT ![s].state = "complete"]
  /\ space' = [space EXCEPT ![s].state = "active"]
  /\ pin' = [active |-> s, owner |-> 0, until |-> 0]
  /\ UNCHANGED <<time, filed, run, runs>>

\* TTL takes the session; its generation is left to the purge.
ExpireSession(s) ==
  /\ adopter[s].state # "gone" /\ SessionUntil <= time
  /\ adopter' = [adopter EXCEPT ![s] = [state |-> "gone", cursor |-> 0]]
  /\ UNCHANGED <<time, filed, space, pin, run, runs>>

-----------------------------------------------------------------------------
(* RetentionPurgeService.run *)

Put(c, r)   == run' = [run EXCEPT ![c] = r]
OnlyRun     == UNCHANGED <<time, filed, adopter, space, pin, runs>>
Budget(c)   == MaxDeletes - run[c].deletes
Due(c, at)  == at <= run[c].cutoff
\* The next document of this scan, or the first of the next one.
Advance(r, last, next) == IF r.at < last THEN [r EXCEPT !.at = @ + 1]
                          ELSE [r EXCEPT !.pc = next, !.at = 1]

StartRun(c) ==
  /\ run[c].pc = "idle" /\ runs < MaxRuns
  /\ Put(c, [NotRunning EXCEPT !.pc = "reports", !.at = 1, !.cutoff = time,
                            !.lost = {s \in Adopters : adopter[s].state = "gone"}])
  /\ runs' = runs + 1
  /\ UNCHANGED <<time, filed, adopter, space, pin>>

AbandonRun(c) ==
  /\ run[c].pc # "idle"
  /\ Put(c, NotRunning)
  /\ OnlyRun

\* recursiveDelete lists what is under the report before it deletes.
LookAtReport(c) ==
  LET r   == run[c].at
      due == filed[r].there /\ Due(c, filed[r].until)
      me  == IF due THEN [run[c] EXCEPT !.eligible = @ + 1] ELSE run[c]
  IN  /\ run[c].pc = "reports"
      /\ IF due /\ Budget(c) > 0
         THEN Put(c, [me EXCEPT !.pc = "listed", !.listed = filed[r].audit, !.deletes = @ + 1])
         ELSE Put(c, Advance(me, LastFiled, "audits"))
      /\ OnlyRun

\* The deletes are separate writes; a crash leaves some of them out.
DeleteReport(c, gone, failed) ==
  LET r == run[c].at
  IN  /\ run[c].pc = "listed"
      /\ gone \subseteq run[c].listed /\ (~failed => gone = run[c].listed)
      /\ filed' = [filed EXCEPT ![r].there = @ /\ failed, ![r].audit = @ \ gone]
      /\ Put(c, IF failed THEN NotRunning
                ELSE Advance([run[c] EXCEPT !.pc = "reports", !.listed = {}], LastFiled, "audits"))
      /\ UNCHANGED <<time, adopter, space, pin, runs>>

\* Entries whose report is gone.
Orphans(c, r) == IF filed[r].there THEN {} ELSE {e \in filed[r].audit : Due(c, e[2])}

LookAtOrphan(c) ==
  /\ run[c].pc = "audits" /\ Budget(c) > 0 /\ Orphans(c, run[c].at) # {}
  /\ Put(c, [run[c] EXCEPT !.pc = "orphan", !.eligible = @ + 1])
  /\ OnlyRun

\* One transaction each, which reads the entry and its report again.
DeleteOrphan(c) ==
  LET r == run[c].at
  IN  /\ run[c].pc = "orphan"
      /\ \/ /\ \E e \in Orphans(c, r) : filed' = [filed EXCEPT ![r].audit = @ \ {e}]
            /\ Put(c, [run[c] EXCEPT !.pc = "audits", !.deletes = @ + 1])
         \/ /\ Orphans(c, r) = {}
            /\ Put(c, [run[c] EXCEPT !.pc = "audits"]) /\ UNCHANGED filed
      /\ UNCHANGED <<time, adopter, space, pin, runs>>

PassAudits(c) ==
  LET orphans == Orphans(c, run[c].at)
  IN  /\ run[c].pc = "audits" /\ (orphans # {} => Budget(c) = 0)
      /\ Put(c, [Advance(run[c], LastFiled, "gens") EXCEPT !.eligible = @ + Cardinality(orphans)])
      /\ OnlyRun

\* inspectGeneration.  A lease on it that outlives the cutoff holds it.
Inspect(c, s) ==
  IF pin.active = s \/ space[s].state \in {"none", "active"} \/ ~Due(c, SessionUntil) THEN "skip"
  ELSE IF pin.owner = s /\ ~Due(c, pin.until) THEN "held" ELSE "due"

LookAtGeneration(c) ==
  /\ run[c].pc = "gens"
  /\ Put(c, IF Inspect(c, run[c].at) = "due" /\ Budget(c) > 0 THEN [run[c] EXCEPT !.pc = "page"]
            ELSE Advance(run[c], LastSession, "postreports"))
  /\ OnlyRun

\* purgeGenerationPage: the claim, some of the records, or at last the parent.
PurgePage(c, k) ==
  LET s    == run[c].at
      on   == [run[c] EXCEPT !.deletes = @ + k]
      stop == Advance([on EXCEPT !.pc = "gens"], LastSession, "postreports")
      more == IF on.deletes < MaxDeletes THEN on ELSE stop
      due  == Inspect(c, s) = "due"
  IN  /\ run[c].pc = "page"
      /\ \/ /\ ~due /\ k = 0
            /\ Put(c, stop) /\ UNCHANGED space
         \/ /\ due /\ space[s].state = "building" /\ k = 1
            /\ space' = [space EXCEPT ![s].state = "purging"]
            /\ Put(c, more)
         \/ /\ due /\ space[s].state = "purging" /\ k \in 1 .. space[s].rows /\ k <= Budget(c)
            /\ space' = [space EXCEPT ![s].rows = @ - k]
            /\ Put(c, more)
         \/ /\ due /\ space[s].state = "purging" /\ space[s].rows = 0 /\ k = 1
            /\ space' = [space EXCEPT ![s].state = "none"]
            /\ Put(c, stop)
      /\ UNCHANGED <<time, filed, adopter, pin, runs>>

\* The postcheck looks once more at everything: observeDueAtCutoff, observeAdoptionDue.
RecheckReport(c) ==
  LET r == run[c].at
  IN  /\ run[c].pc = "postreports"
      /\ Put(c, Advance([run[c] EXCEPT !.due = @ \/ (filed[r].there /\ Due(c, filed[r].until))],
                        LastFiled, "postaudits"))
      /\ OnlyRun

RecheckAudits(c) ==
  LET r == run[c].at
  IN  /\ run[c].pc = "postaudits"
      /\ Put(c, Advance([run[c] EXCEPT !.due = @ \/ Orphans(c, r) # {}], LastFiled, "postgens"))
      /\ OnlyRun

\* A slip: only what is due counts, not what a lease holds.
Remains_Due(c, s) == Inspect(c, s) = "due"
Remains(c, s)     == Inspect(c, s) \in {"due", "held"}

RecheckGeneration(c) ==
  LET s   == run[c].at
      due == run[c].due \/ Remains(c, s)
  IN  /\ run[c].pc = "postgens"
      /\ Put(c, IF run[c].at < LastSession THEN [run[c] EXCEPT !.at = @ + 1, !.due = due]
                ELSE [run[c] EXCEPT !.pc = "done", !.due = due,
                        !.complete = ~due /\ run[c].deletes >= run[c].eligible /\ ~run[c].unresolved])
      /\ OnlyRun

PurgeNext ==
  \/ TimePasses
  \/ \E r \in Filed : ChangeReport(r) \/ FileAgain(r) \/ ExpireReport(r)
  \/ \E s \in Adopters : \/ BeginApply(s) \/ RenewApply(s) \/ StageRow(s) \/ CompleteApply(s)
                         \/ ExpireSession(s)
  \/ \E c \in Cleaners :
       \/ StartRun(c) \/ AbandonRun(c)
       \/ LookAtReport(c) \/ \E gone \in SUBSET run[c].listed, failed \in BOOLEAN :
                               DeleteReport(c, gone, failed)
       \/ LookAtOrphan(c) \/ DeleteOrphan(c) \/ PassAudits(c)
       \/ LookAtGeneration(c) \/ \E k \in 0 .. MaxDeletes : PurgePage(c, k)
       \/ RecheckReport(c) \/ RecheckAudits(c) \/ RecheckGeneration(c)

PurgeSpec == PurgeInit /\ [][PurgeNext]_purgeVars

-----------------------------------------------------------------------------
(* Correctness *)

\* Every part is well formed.
PurgeTypeOK ==
  /\ time \in 0 .. MaxTime /\ runs \in 0 .. MaxRuns
  /\ \A r \in Filed : filed[r] \in [there : BOOLEAN, until : Nat, audit : SUBSET ((1 .. MaxTransitions) \X Nat),
                          changes : 0 .. MaxTransitions]
  /\ adopter \in [Adopters -> [state : {"preview_ready", "applying", "complete", "gone"}, cursor : 0 .. Rows]]
  /\ space \in [Adopters -> [state : {"none", "building", "purging", "active"}, rows : 0 .. Rows]]
  /\ pin.active \in {0} \cup Adopters /\ pin.owner \in {0} \cup Adopters
  /\ \A c \in Cleaners : run[c].deletes \in 0 .. MaxDeletes

\* The purge never takes a record from an account: a generation that becomes
\* active has every record its session staged, however claims, deletes, crashes
\* and confirmations that are resumed after their lease interleave.
ActiveIsWhole == pin.active # 0 => space[pin.active] = [state |-> "active", rows |-> Rows]

\* A run that reports itself complete has left nothing behind that was due when it
\* started: no report, no entry of a report that is gone, no generation of a
\* session that was gone.  (A session that outlives its expiry may begin again
\* behind the last look at its generation.)
CompleteMeansClean ==
  \A c \in Cleaners : run[c].complete =>
    /\ \A r \in Filed : Due(c, filed[r].until) => ~filed[r].there /\ filed[r].audit = {}
    /\ \A s \in run[c].lost : space[s].state \in {"none", "active"}

\* The purge takes neither too much nor too little: the active generation is
\* whole, and a run that reports completion has left nothing that was due.
PurgeIsExact == PurgeTypeOK /\ ActiveIsWhole /\ CompleteMeansClean
=============================================================================
