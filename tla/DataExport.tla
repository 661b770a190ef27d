------------------------------ MODULE DataExport ------------------------------
(***************************************************************************)
(* Exports of an account's data: by its holder, each under an id of its    *)
(* own, and by an operator who answers a privacy request, under one id     *)
(* made of the request; and the holder's reading of that answer.           *)
(*                                                                         *)
(* One account and one request.  An export is a claim, the reading, for a  *)
(* request the hand-over of the answer, and the closing of the audit, each *)
(* a transaction of its own; the account's deletion may begin between them *)
(* (a new sign-in or a revocation changes nothing they look at), operators *)
(* decide, and a handler may die.  The audit's own TTL, the account's data *)
(* and the mail are left out.                                              *)
(***************************************************************************)
EXTENDS Naturals, FiniteSets

CONSTANTS Jobs,         \* exports being served
          Parts,        \* chunks of an answer
          Window,       \* rateLimitWindowSeconds
          RateMax,      \* rateLimitMax
          ResponseTtl,  \* RESPONSE_TTL_MS
          MaxExports, MaxExportTime, MaxRevision   \* bounds

ASSUME ExportAssumption ==
  /\ {Parts, Window, RateMax} \subseteq Nat \ {0}
  /\ {ResponseTtl, MaxExports, MaxExportTime, MaxRevision} \subseteq Nat

Stable  == 0                       \* stableExportId
Exports == Stable .. MaxExports    \* the others: createExportId, new each time

VARIABLES
  exportTime,
  holder,   \* users/{uid}: open, authorizationGeneration
  filing,   \* privacyRequests/{id}, its artifact and chunks; of: who wrote the answer
  audits,   \* accountDataExportAudits: status, createdAt
  quota,    \* accountDataExportRateLimits
  used,     \* ids made so far
  job,      \* the exports; history: turned, the deletion began since the export did
  peek      \* the holder's reading; history: turned likewise

exportVars == <<exportTime, holder, filing, audits, quota, used, job, peek>>

NoJob  == [pc |-> "idle", id |-> 0, gen |-> 0, revision |-> 0, at |-> 0, error |-> "failed", turned |-> FALSE]
NoPeek == [pc |-> "idle", gen |-> 0, got |-> {}, logged |-> FALSE, turned |-> FALSE]

ExportInit ==
  /\ exportTime = 0
  /\ holder = [open |-> TRUE, gen |-> 0]
  /\ filing = [status |-> "in_review", revision |-> 0, of |-> "none", parts |-> 0, chunks |-> {}, until |-> 0]
  /\ audits = [e \in Exports |-> [status |-> "none", at |-> 0]]
  /\ quota = [start |-> 0, count |-> 0]
  /\ used = 0
  /\ job = [j \in Jobs |-> NoJob]
  /\ peek = NoPeek

ExportClock ==
  /\ exportTime < MaxExportTime
  /\ exportTime' = exportTime + 1
  /\ UNCHANGED <<holder, filing, audits, quota, used, job, peek>>

-----------------------------------------------------------------------------
(* The account and the request *)

ForOperator(x) == x.id = Stable

\* The account's deletion begins, which alone advances the authorization generation.
HolderCloses ==
  /\ holder.open
  /\ holder' = [open |-> FALSE, gen |-> holder.gen + 1]
  /\ job' = [j \in Jobs |-> IF job[j].pc \in {"idle", "answered"} THEN job[j] ELSE [job[j] EXCEPT !.turned = TRUE]]
  /\ peek' = IF peek.pc \in {"idle", "answered"} THEN peek ELSE [peek EXCEPT !.turned = TRUE]
  /\ UNCHANGED <<exportTime, filing, audits, quota, used>>

\* writeResponseArtifact: the count and every chunk, in the transaction of its caller.
WriteArtifact(f, by) == [f EXCEPT !.of = by, !.parts = Parts, !.chunks = 1 .. Parts, !.revision = @ + 1,
                                  !.status = "response_ready"]

\* An operator extends the request, or answers it by hand.
Decide(answer) ==
  /\ filing.status = "in_review" /\ filing.revision < MaxRevision
  /\ filing' = IF answer THEN WriteArtifact(filing, "operator") ELSE [filing EXCEPT !.revision = @ + 1]
  /\ UNCHANGED <<exportTime, holder, audits, quota, used, job, peek>>

\* The answer is made available: every chunk gets its expiry.
DeliverInApp ==
  /\ filing.status = "response_ready"
  /\ filing' = [filing EXCEPT !.status = "delivered", !.until = exportTime + ResponseTtl, !.revision = @ + 1]
  /\ UNCHANGED <<exportTime, holder, audits, quota, used, job, peek>>

\* TTL, in no order.
CollectChunk(i) ==
  /\ filing.status = "delivered" /\ filing.until <= exportTime /\ i \in filing.chunks
  /\ filing' = [filing EXCEPT !.chunks = @ \ {i}]
  /\ UNCHANGED <<exportTime, holder, audits, quota, used, job, peek>>

-----------------------------------------------------------------------------
(* An export *)

Step(j, new) == job' = [job EXCEPT ![j] = new]
AtJob(j, pc)    == job[j].pc = pc
Move(j, pc)  == Step(j, [job[j] EXCEPT !.pc = pc])

StartAccountExport(j) ==
  /\ AtJob(j, "idle") /\ holder.open /\ used < MaxExports
  /\ used' = used + 1
  /\ Step(j, [NoJob EXCEPT !.pc = "claim", !.id = used + 1, !.gen = holder.gen, !.at = exportTime])
  /\ UNCHANGED <<exportTime, holder, filing, audits, quota, peek>>

\* executePrivacyRequestExport: the revision the operator saw is still the request's.
StartPrivacyExport(j) ==
  /\ AtJob(j, "idle")
  /\ Step(j, [NoJob EXCEPT !.pc = "claim", !.id = Stable, !.revision = filing.revision, !.at = exportTime])
  /\ UNCHANGED <<exportTime, holder, filing, audits, quota, used, peek>>

\* assertAuthorization
Authorized_Holder(x) == ForOperator(x) \/ (holder.open /\ holder.gen = x.gen)   \* slip: of the holder's exports alone
Authorized(x)        == holder.open /\ (ForOperator(x) \/ holder.gen = x.gen)

MayRetry_Started(x) == ForOperator(x) /\ audits[x.id].status \in {"failed", "started"}   \* slip
MayRetry(x)         == ForOperator(x) /\ audits[x.id].status = "failed"

Begin(j)    == Step(j, [job[j] EXCEPT !.pc = "build", !.at = 0])
InWindow(x) == x.at < quota.start + Window

Refuse(j) ==
  /\ \/ ~Authorized(job[j])
     \/ audits[job[j].id].status # "none" /\ ~MayRetry(job[j])
  /\ Step(j, NoJob)
  /\ UNCHANGED <<audits, quota>>

Retry(j) ==
  /\ Authorized(job[j]) /\ MayRetry(job[j])
  /\ audits' = [audits EXCEPT ![job[j].id] = [status |-> "started", at |-> job[j].at]]
  /\ Begin(j)
  /\ UNCHANGED quota

Limit(j) ==
  /\ Authorized(job[j]) /\ audits[job[j].id].status = "none"
  /\ InWindow(job[j]) /\ quota.count >= RateMax
  /\ audits' = [audits EXCEPT ![job[j].id] = [status |-> "rate_limited", at |-> job[j].at]]
  /\ Step(j, NoJob)
  /\ UNCHANGED quota

AdmitExport(j) ==
  /\ Authorized(job[j]) /\ audits[job[j].id].status = "none"
  /\ ~(InWindow(job[j]) /\ quota.count >= RateMax)
  /\ quota' = IF InWindow(job[j]) THEN [quota EXCEPT !.count = @ + 1] ELSE [start |-> job[j].at, count |-> 1]
  /\ audits' = [audits EXCEPT ![job[j].id] = [status |-> "started", at |-> job[j].at]]
  /\ Begin(j)

\* claimRateLimitAndCreateAudit
ClaimExport(j) ==
  /\ AtJob(j, "claim")
  /\ Refuse(j) \/ Retry(j) \/ Limit(j) \/ AdmitExport(j)
  /\ UNCHANGED <<exportTime, holder, filing, used, peek>>

\* readSnapshot: fifteen reads at fifteen moments, of an account that is still open.
Readable == holder.open

\* buildResult: the document may be too large.
Build(j, large) ==
  /\ AtJob(j, "build")
  /\ Step(j, [job[j] EXCEPT !.pc = IF ~Readable \/ large THEN "fail"
                                    ELSE IF ForOperator(job[j]) THEN "hand" ELSE "complete",
                            !.error = IF Readable /\ large THEN "too_large" ELSE @])
  /\ UNCHANGED <<exportTime, holder, filing, audits, quota, used, peek>>

\* prepareExecutedResponse
HandOverExport(j) ==
  /\ AtJob(j, "hand")
  /\ IF filing.revision = job[j].revision /\ filing.status = "in_review"
       THEN filing' = WriteArtifact(filing, "export") /\ Move(j, "complete")
       ELSE UNCHANGED filing /\ Move(j, "fail")
  /\ UNCHANGED <<exportTime, holder, audits, quota, used, peek>>

CompleteExport(j) ==
  /\ AtJob(j, "complete")
  /\ IF Authorized(job[j])
       THEN audits' = [audits EXCEPT ![job[j].id].status = "completed"] /\ Move(j, "check")
       ELSE UNCHANGED audits /\ Move(j, "fail")
  /\ UNCHANGED <<exportTime, holder, filing, quota, used, peek>>

\* assertAuthorizationCurrent: the last look before the document leaves.
CheckExport(j) ==
  /\ AtJob(j, "check")
  /\ Move(j, IF Authorized(job[j]) THEN "answered" ELSE "fail")
  /\ UNCHANGED <<exportTime, holder, filing, audits, quota, used, peek>>

\* A call fails, or its outcome is not known.
ExportTrouble(j) ==
  /\ job[j].pc \in {"build", "hand", "complete", "check"}
  /\ Move(j, "fail")
  /\ UNCHANGED <<exportTime, holder, filing, audits, quota, used, peek>>

FailExport(j) ==
  /\ AtJob(j, "fail")
  /\ audits' = IF Authorized(job[j]) THEN [audits EXCEPT ![job[j].id].status = job[j].error] ELSE audits
  /\ Step(j, NoJob)
  /\ UNCHANGED <<exportTime, holder, filing, quota, used, peek>>

\* The handler dies, or has answered.
EndExport(j) ==
  /\ ~AtJob(j, "idle")
  /\ Step(j, NoJob)
  /\ UNCHANGED <<exportTime, holder, filing, audits, quota, used, peek>>

-----------------------------------------------------------------------------
(* The holder reads the answer *)

PeekRequest ==
  /\ peek.pc = "idle" /\ holder.open /\ filing.status = "delivered"
  /\ peek' = [NoPeek EXCEPT !.pc = IF filing.until > exportTime THEN "read" ELSE "audit", !.gen = holder.gen]
  /\ UNCHANGED <<exportTime, holder, filing, audits, quota, used, job>>

\* One chunk; all are read at once, in any order.  A chunk that is gone makes the response none.
PeekChunk(i) ==
  /\ peek.pc = "read" /\ i \in 1 .. filing.parts \ peek.got
  /\ peek' = IF i \notin filing.chunks THEN [peek EXCEPT !.pc = "audit", !.got = {}]
             ELSE [peek EXCEPT !.got = @ \cup {i}, !.pc = IF @ = "read" /\ peek.got \cup {i} = 1 .. filing.parts THEN "audit" ELSE @]
  /\ UNCHANGED <<exportTime, holder, filing, audits, quota, used, job>>

\* recordReadAudit, or with no response a look at the generation alone.
PeekAudit ==
  /\ peek.pc = "audit"
  /\ peek' = IF holder.open /\ holder.gen = peek.gen
               THEN [peek EXCEPT !.pc = "answered", !.logged = peek.got # {}] ELSE NoPeek
  /\ UNCHANGED <<exportTime, holder, filing, audits, quota, used, job>>

EndPeek ==
  /\ peek.pc # "idle"
  /\ peek' = NoPeek
  /\ UNCHANGED <<exportTime, holder, filing, audits, quota, used, job>>

ExportNext ==
  \/ ExportClock \/ HolderCloses \/ DeliverInApp
  \/ \E b \in BOOLEAN : Decide(b)
  \/ \E i \in 1 .. Parts : CollectChunk(i)
  \/ \E j \in Jobs : \/ StartAccountExport(j) \/ StartPrivacyExport(j) \/ ClaimExport(j)
                     \/ HandOverExport(j) \/ CompleteExport(j) \/ CheckExport(j)
                     \/ ExportTrouble(j) \/ FailExport(j) \/ EndExport(j)
  \/ \E j \in Jobs, b \in BOOLEAN : Build(j, b)
  \/ PeekRequest \/ PeekAudit \/ EndPeek
  \/ \E i \in 1 .. Parts : PeekChunk(i)

ExportSpec == ExportInit /\ [][ExportNext]_exportVars

-----------------------------------------------------------------------------
Underway(j) == job[j].pc \in {"build", "hand", "complete", "check", "fail", "answered"}

(* Every document that leaves is accounted for.  No two handlers build the *)
(* same export; a request's export says "completed" only when its answer   *)
(* is the request's answer; a window admits no more than rateLimitMax new  *)
(* exports, whatever the clock of each claim; and what is answered was     *)
(* logged, is whole, and is not of an account whose deletion has begun     *)
(* since it was asked for, be it by its holder or by an operator.  The     *)
(* steps between are many, and each may be the last.                       *)
ExportsAreAccounted ==
  /\ \A i, j \in Jobs : Underway(i) /\ Underway(j) /\ job[i].id = job[j].id => i = j
  /\ audits[Stable].status = "completed" => filing.of = "export"
  /\ Cardinality({e \in 1 .. MaxExports : /\ audits[e].status \notin {"none", "rate_limited"}
                                          /\ audits[e].at \in quota.start .. quota.start + Window - 1}) <= RateMax
  /\ \A j \in Jobs : AtJob(j, "answered") => ~job[j].turned /\ audits[job[j].id].status = "completed"
  /\ peek.pc = "answered" => ~peek.turned /\ (peek.logged => peek.got = 1 .. Parts)
=============================================================================
