----------------------------- MODULE MCAccount ------------------------------
(***************************************************************************)
(* Requests to the API and what runs beside them: a session's revocation,  *)
(* an export, the operators' audit trail, the content packages, and the    *)
(* erasing of deleted accounts from a restored database.  Each part keeps  *)
(* documents that no other of them writes, so a behaviour of them all      *)
(* interleaves behaviours of each, and a property of one part depends on   *)
(* that part's steps alone: `part' says whose behaviour is explored, and   *)
(* the others stand still in one of their initial states.                  *)
(***************************************************************************)
EXTENDS SessionRevocation, AccountApi, DataExport, DeletionRestore, ContentPackages,
        DeskAudit, TLC

CONSTANTS w1, w2, a1, a2, o1, o2

VARIABLE part   \* the part this behaviour is of

accountVars ==
  <<revocationVars, apiVars, exportVars, restoreVars, packageVars, auditVars, part>>

MCSymmetry == Permutations({w1, w2}) \cup Permutations({a1, a2})

\* A reading of an answer, and the expiry of its chunks, do not meet an export:
\* they touch no document of it but the answer, which an export only creates.
NoExport == \A j \in Jobs : job[j] = NoJob
ReadersApart ==
  /\ NoExport' \/ peek' = NoPeek
  /\ filing.status = "delivered" /\ filing' # filing => NoExport

MCIssued == [o \in Operations \ Legacy |-> 0]

MCSha == [m \in Manifests |-> IF m = "m3" THEN "k2" ELSE "k1"]

-----------------------------------------------------------------------------
\* The state a part stands still in, where it may start in several.
RevocationRests == slot = NoSlot /\ live = {}
RestoreRests    == /\ ledger = [i \in Identities |-> 0]
                   /\ target.map = [i \in Identities |-> NoAccount]
PackagesRest    == backend = "bucket" /\ stored = [k \in Packages |-> NoObject]
AuditRests      == kind = "privacy"

AccountInit ==
  /\ part \in {"sessions", "api", "export", "restore", "packages", "audit"}
  /\ RevocationInit /\ (part # "sessions" => RevocationRests)
  /\ ApiInit /\ ExportInit
  /\ RestoreInit  /\ (part # "restore"  => RestoreRests)
  /\ PackagesInit /\ (part # "packages" => PackagesRest)
  /\ AuditInit    /\ (part # "audit"    => AuditRests)

Explore(x) ==
  /\ part = x
  /\ UNCHANGED part
  /\ x # "sessions" => UNCHANGED revocationVars
  /\ x # "api"      => UNCHANGED apiVars
  /\ x # "export"   => UNCHANGED exportVars
  /\ x # "restore"  => UNCHANGED restoreVars
  /\ x # "packages" => UNCHANGED packageVars
  /\ x # "audit"    => UNCHANGED auditVars

AccountNext ==
  \/ Explore("sessions") /\ RevocationNext
  \/ Explore("api")      /\ ApiNext
  \/ Explore("export")   /\ ExportNext /\ ReadersApart
  \/ Explore("restore")  /\ RestoreNext
  \/ Explore("packages") /\ PackagesNext
  \/ Explore("audit")    /\ AuditNext

AccountSpec == AccountInit /\ [][AccountNext]_accountVars
=============================================================================
