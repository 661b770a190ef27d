# A verification project for patternly-backend

TLA+ models, TLC checks and TLAPS proofs of the parts of this backend where the
order of things matters: a guest's learning history adopted into an account, devices
that synchronize it, the deletion of an account across four systems, purchases whose
results arrive late or twice and what their events set off, the operators' desks, the
jobs and tools beside them, and the routes through which all of it is asked for. The backend is a set of stateless HTTP handlers over Firestore.
Nothing is held in memory between requests, so everything hard about it is a
matter of which Firestore transactions commit in which order, what a handler has
read outside them, and what a provider did although its answer was lost.

Paths below are relative to `src/src/` of the repository tree, as in `PROJECT.json`.

## How to run it

    tlc -workers 2 -config MCPromotionOneSession.cfg MCAdoptionPromotion   # any run
    tlapm AdoptionPromotionSafety.tla                                      # any proof

`PROJECT.json` lists the components, every run with its configuration, for every
definition the source lines it stands for, for every property a *mutant* (a slip
in one definition that makes the property fail), the hazards and the theorems.

## Inventory

**Progress** (`modules/progress/store.ts`, `modules/users/merge.ts`,
`modules/users/adoptionTransfer.ts`). State: per account a metadata document
(generation, revision, generation counter, promotion lease), a record collection
per generation, a document per generation (building, active, purging), a document
per transfer session with its chunks, results and decision rows, receipts of
mutations and batches. Operations: `applyBatch`, `readSnapshot`, `readPage`,
`confirmAdoption` (in one transaction), and the staged transfer: start, upload,
seal, preview, confirm, apply, status. Hard: previews and merges are computed from
reads made before the transactions that use them; staging takes many transactions
under a lease that can run out; requests are retried and run side by side.
Correct when the account only ever changes by whole batches and whole merges of
what was current, and a client that holds a (generation, revision) pair can trust it.

**Account lifecycle** (`modules/account-lifecycle/store.ts`,
`firestoreAccountErasure.ts`, `infrastructure/revenuecat/customerDeletion.ts`).
State: a deletion operation with phase, fence and lease, a security slot on the
user, tombstones of identities, a proof. Operations: delete (prepare, then run),
resume from the status request, session revocation in the same slot. Hard: each
phase calls Firebase Auth, RevenueCat or dozens of Firestore transactions; the
process may die and leases may run out between any two of them. Correct when the
proof is true, nothing is forgotten, nobody can sign in half-way, a new account of
the same identity is left alone, and a deletion can always be taken up.

**Billing** (`modules/billing/*`, `infrastructure/revenuecat/client.ts`). State:
purchase attempts, confirmations, one lock per product, facts about transactions,
cases for operators, receipts with delivery attempts, the entitlement with its
refresh fence. Operations: record, claim, candidate, pending, cancelled, status,
the webhook, the resolver, operator decisions, receipt claim, mark, reconcile. Hard:
the store's sheet sells whenever it likes, events and client reports come in any
order and repeatedly. Correct when a transaction pays for the consent it was sold
under, once, and a receipt is mailed once.

**Operator requests** (`modules/privacy-requests`, `legal-requests`,
`security-incidents`, `content-reports`, `retention`). State: revisioned documents with
staged e-mails whose outcome is recorded afterwards, an audit with every case, and
expiries that Firestore's TTL acts on one document at a time. Hard: the recipient or
another operator acts between the mail and the record of it; holds, reviews and
disputes come in any order; queues change while they are read page by page. Correct
when nobody unverified is served, nobody is told twice or left out, and what a hold
keeps stays.

**Retention purge** (`modules/retention-purge/service.ts`). A scheduled job with a
budget that competes with promotions, resolvers and erasures, each deletion in a
transaction that looks again. Correct when it takes nothing that lives and says that it
is complete only when it is.

**Data export** (`modules/data-export/store.ts`). A claim under a rate limit, a long
reading, for a privacy request an answer in chunks, and an audit of it, each in a
transaction of its own. Correct when nothing is handed out that was not logged, nor
once the account's deletion has begun.

**Providers** (`infrastructure/revenuecat`, `infrastructure/operator`,
`infrastructure/email`). Reads with many pages of a thing that changes, a deletion of
what others still write, a cache of keys that rotate, mails of unknown fate.

**Content packages** (`modules/content/packages.ts`) and **the offline restore**
(`modules/account-lifecycle/offlineDeletionRestore.ts`). Tools that write in several
steps, each of which may be the last, what others read or sign for.

**HTTP API** (`api/app.ts`). Stateless; but a route is several steps, and what its
guard has found may be over before the last.

**Users, devices, entitlements, tracks, administration** (`modules/users/store.ts`, …).
Single transactions or reads. They enter the models as writers that check, or do not
check, the account's authorization.

How they interact: every writer reads the user's `authorizationState` and
generation inside its transaction (`modules/auth/authorizationGeneration.ts`), which
is how a deletion stops everybody else; the deletion and the session revocation
share the user's security slot; the purge and the promotion share the generation
documents; the webhook, the client and the operator meet in the resolver.

The full list of components, with what is left out and why, is in `PROJECT.json`
under `components`; the hazards are listed there line by line.

## Modules

| module | what it is |
|---|---|
| `AdoptionMerge` | the merge of a guest snapshot, as pure operators |
| `AdoptionMergeCheck`, `MCAdoptionMerge` | the merge against a reference definition, over every small input |
| `AccountSnapshot` | what the progress store promises: an abstract specification |
| `AdoptionPromotion` | the staged transfer with its handlers, lease and competitors; implements `AccountSnapshot` |
| `MCAdoptionPromotion` | its instances |
| `AdoptionPromotionProofs` | lemmas about the merge; type correctness, the frozen account, one writer per generation |
| `AdoptionPromotionSafety` | the inductive invariant, what it gives, and that `AdoptionPromotion` implements `AccountSnapshot` |
| `AccountDeletion`, `MCAccountDeletion` | the deletion operation and everybody who can meet it |
| `AccountDeletionProofs` | all of its safety properties |
| `SessionRevocation` | the revocation of sessions, in the security slot it shares with the deletion |
| `AdoptionUpload` | a transfer before its promotion: start, chunks, seal |
| `ProgressSync` | batches with receipts, pages, and who else changes an account's progress |
| `RetentionPurge` | the purge job against reports, sessions and the TTL |
| `MCAdoption` | the merge, `ProgressSync`, `AdoptionUpload` and `RetentionPurge`, for the run `adoption` |
| `ProgressProofs` | all properties of that run |
| `PurchaseAttempts`, `MCPurchaseAttempts` | attempts, lock, facts, resolver, operator |
| `PurchaseAttemptsProofs` | all of its properties |
| `RevenueCatWebhook`, `MCRevenueCatWebhook` | an event's refresh of the entitlement, and the receipt's delivery |
| `EntitlementReader` | one read of an account's premium at the provider |
| `ProviderCustomer` | the deletion of an account's customer at the provider |
| `OperatorKeys` | the cache of the keys operators' tokens are verified with |
| `MCProvider` | these with the webhook, for the run `provider` |
| `ProviderProofs` | all properties of that run |
| `PrivacyRequest` | a data subject's request, its codes, decisions and mailings |
| `LegalRequest`, `SecurityIncident`, `ContentReports` | the other desks of the operators |
| `MCOperatorDesk` | the four desks, for the run `operator_desk` |
| `OperatorDeskProofs` | all properties of that run |
| `AccountApi` | the routes: the guard and the steps after it |
| `DataExport`, `DeletionRestore`, `ContentPackages`, `DeskAudit` | exports, the replay of deletions, packages, the expiry of audits |
| `MCAccount` | these with `SessionRevocation` and `AccountApi`, for the run `account` |
| `AccountProofs` | all properties of that run |

Conventions: a Firestore transaction is one action, atomic and serializable, with
every write it makes. What a handler reads outside a transaction, or asks of a
provider, is an action of its own, and the handler's copy lives in `h`. A handler
that throws and a process that dies are the same: `Stop`. A request that is refused
changes nothing and has no action. An operator named for a slip
(`AtCursor_Any`, `Tombstones_Again`, …) stands before the definition it would
replace; the mutants use it, the specifications never do.

### AdoptionMerge

Records are keyed by type and identifier; a record's fingerprint is its state, so
equal fingerprints are equal values. A snapshot maps keys to a record or `None`. A
record may be a tombstone. `Conflicts`, `GroupTracks`, `Uploads` are the lists that
`buildGuestMergePreview` computes, `Confirmations` the answers that
`validateGuestMergeConfirmation` accepts, `Materialize` the records that
`buildAdoptionMaterialization` (and `confirmAdoption`) write. A goal and a learning
plan of one track are a bundle that must fit (`BundlesOK`).

### AdoptionPromotion

`meta` is `syncMetadata/account`, `progress` the record collections, `genDoc` the
generation documents, `op` the session documents, `active` whether the account's
authorization generation is still the one requests were admitted with. Hashes are
compared as what they are hashes of: `previewFingerprint` as (revision, records),
which does not cover the generation, `decisionFingerprint` as the choices. Each
`h[w]` is one handler with what it read. `ReadMeta` and `ReadRecords` are the two
halves of `readSnapshot`, so a torn read is possible and happens.

Things in the code that are easy to miss, and are in the model: the one-step
adoption does not look at the lease; an apply request recomputes the merge from
reads of its own and goes on from the stored cursor; `ApplyResume` may re-take a
lease that ran out as long as nobody else owns the promotion; the completion leaves
the superseded generation's document "active"; the preview's rows are stored before
the preview itself. The retries inside the handlers' `DecisionBatch` and
`StageBatch` loops are one transaction per step.

Left out: chunk digests and sizes, the per-record check that a staged row has the
expected fingerprint (it cannot differ while the source pair is checked), receipts
(`ProgressSync`), and the upload protocol before the seal (`AdoptionUpload`). A transfer can be stuck without harm: a
seal that came before the last chunk, a guest with half a bundle, or a preview
from a torn read leave a session that refuses everything until its documents expire.

### AccountDeletion

`op` is the durable operation, `user` the user document with its security slot,
`data` the classes of documents the account owns (linked through queries, the
`accounts` subtree and its root, two parts of the user subtree that different
writers fill), `provider` what Auth and RevenueCat did. Fences are random UUIDs: a
fresh one is one nobody holds, and four of them are enough because an operation, a
user and two handlers hold at most four. The erasure is followed query by query;
each deletion asserts the ownership in its transaction, the listing does not. The
final verification is three reads outside a transaction, and is modelled once
although the erasure and the completion run it in turn.

Other writers are `AuthorizedWrite` (any store that checks the authorization inside
its transaction), `Touch` (the device heartbeat, which only checks `deletedAt`) and
`Register`. An entitlement refresh only updates a document that exists, and is no
writer here. The removal of expired tombstones is Firestore's TTL policy, external.
The slot's own lease is abstracted: no code reads it for a deletion.

### SessionRevocation

`slot` is the user's security operation; a deletion takes it away (`TakeOver`), and so
does another revocation once the lease has run out. A random fence is the handler that
made it. `Revoke` and `RevokeFails` are Firebase's answer, which may come long after the
slot is somebody else's; `Finalize` records it only for the fence that still holds the
slot. Client-made operation ids of version 7 carry their time, and are refused when that
is further back than 29 days (`FirstUse`): this is what lets the record of an operation
be collected after 30 days (`Retention`) without its id ever being new again, and why
`RevokesOnce` excepts the ids of version 4. The clock counts days.

### AdoptionUpload, ProgressSync, RetentionPurge

`AdoptionUpload` is the transfer up to its seal: `StartTransfer` under an idempotency
key, `Upload` in one transaction, and a seal in four steps (`SealBegin`, `SealReads`,
`SealCheck`, `SealCommit`) between which uploads go on. A chunk's fingerprint is the chunk;
what two devices might send under one id or index is in `Chunks`. `Promote` is what
`AdoptionPromotion` does with a sealed session, whichever generation is active by then (see
`generation_swap`), so the pointer may go back between two starts. Once the deletion of the
account has begun (`DeletionBegins`) every transaction is refused.

`ProgressSync` has one account and devices. A request once sent may arrive at any time
and repeatedly (`sent`); a device that gave up waiting may send another. `ApplyBatch` is
the whole transaction with what it skips (a receipt, or a record whose last mutation is
this one); `RefuseBatch` every refusal that is recorded. Receipts of mutations and of
batches are collected by the TTL at any moment. `mirror` is what a device holds: the
invariant and the action property compare it with the account. A promotion is seen from
outside, as `AccountSnapshot` describes it.

`RetentionPurge` has one account with its adoption sessions and generations, and the
reports with their audit entries. A run looks at each document and deletes in another
step; sessions resume, renew and complete in between, and documents disappear by TTL.
The budget, the transitions and the final recheck decide what the run reports.

### PurchaseAttempts

`attempt`, `lock`, `fact` and `case` are documents; `sold` is the truth about the
store, which no code reads except through the purchase time in an event, and
operators by asking the provider. Time is a counter of units: the window in which a
sheet may be opened is 2, the resolution window is 3. `record` and `command` read the
clock before their transaction (`purchaseCorrelation.ts:103`, `:124`), `resolve` before its
first read (`:227`): the time they go by is any of the last `MaxWait` units (`Sampled`).
`Resolve` runs after an event or a candidate; since both are repeated and may be lost it
is an action by itself.
`OperatorBind` demands that the operator's evidence is true (the code demands the
evidence, the operator supplies the truth). A client reports only transactions that
exist, though maybe under the wrong attempt; `BindsWhatTheSheetSold` needs that it
does not report one transaction twice (`ReportedOnce`), and that no attempt which has gone
to the store bears a later time of acceptance than the one that is bound (`LastAccepted`).
The code does not see to the second. A consent whose request reads the clock and waits
until another one has been recorded, claimed and cancelled is stored with the earlier time;
`Unknown` (`:251`) then looks past the cancelled attempt, and a late sale of its sheet, reported
under the stalled consent, is bound to that. Without the premise the run finds this behaviour
in eleven steps. Nothing in the repository promises otherwise, so it is a premise here and not a
finding.

`LockAndBindingsAgree`, `ConsentsStand` and `NothingAppearsAfterDeletion` need no such
premise.

Left out: the migration of one legacy document, the compaction of payloads after 90
days, the receipt document (created in the very transaction of `Bind`), the
expected revision of an operator's request (an out-of-date one changes nothing),
and that the purge marks open cases as expired, which nothing looks at. Seen while
modelling, and not promised otherwise by the code: an attempt that was accepted and
never claimed keeps the product's lock until an operator releases it; closing with
`releaseLock` false keeps it as well; and since no code verifies a contact after the
registration, `ContactVerified` is an outsider's step.

### RevenueCatWebhook

One account and one receipt. A handler is a webhook request, or a client's or
operator's request that ends in a delivery; `h[w].pc` is the next transaction, read
or mail. `truth` counts the changes of the subscription at the provider, an event
announces one of them, and the entitlement's `seen` is the truth that was read for
it: so "newer" is a number, while the code stores what it is given and compares
nothing but `refreshFence`. `Receive` is the event's transaction, `Read` the
provider's answer, `CompleteRefresh` and `CompleteConflict` the two fenced
transactions. `RefreshFails` is every way in which the refresh stays pending: no
reader, an unavailable state, an exception.

`receipt` is the receipt document, `delivery` its `deliveryAttempts` by claim,
`accepted` the truth about the mail server, which nobody reads except an operator by
asking the mail provider. A claim is a random UUID: fresh means never used, and not
merely not stored. A lease is a flag that `LeaseRunsOut` takes back at any moment, so
a handler may send long after it. `Send` has the sender's outcomes: taken, refused for
certain, and unknown, which may be either. Between `Claim` and `Send` nothing is
checked, as in the code; a handler that was slow there sends after the claim ran out
and after the account was deleted, and still only once.

`Reconcile` demands that the operator's attestation is true (the code demands the
attestation). Left out: its preview, which changes nothing and whose fingerprint only
refuses; the marking of a transaction whose receipt has another scope (both are
written in one transaction, from one binding); what is in the mail. `ContactChanges`
is an outsider's step, like `ContactVerified`; `Bind` and the erasure are what
`PurchaseAttempts` and `AccountDeletion` model in full.

### EntitlementReader, ProviderCustomer, OperatorKeys

The provider's half is external and does what it likes between two answers: it renews,
pauses, merges, logs in, rotates. `EntitlementReader` follows the four requests of a
read, pages included, and ends in the verdict over all rows; its history variables hold
which subscriptions gave access at some moment of the read and which at every moment.
`ProviderCustomer` follows search, aliases, the caller's check, the DELETE and the
second search after a 404. `OperatorKeys` has a request's code between two awaits as one
step; several requests wait for one fetch and go on in one step when it ends.

### PrivacyRequest

One request, of an account or of a guest (`channel`, fixed at the intake). `req` is
its document, `secret` whether the document with the address is still there, `linked`
whether the account it names is not erased. A mailing `m` stands for the token and
the attempt identifier a handler makes up for it: `req.code = m` is the hash of its
token, `taken` the truth about the mail server, and only who got the mail can redeem
it. An operator's request is one transaction under the revision he has seen; since
any other revision is refused, `Decide` takes the present one, and only what
outlives a transaction keeps a revision of its own: a handler between `Stage` and
`FinishResponse`, `Extend` and `Notify`, `ReadContext` and `PrepareExecuted`. `Send`
succeeds, or throws with the mail taken or not.

Left out: rate limits, which only refuse; the audit trail (`DeskAudit`); the chunks of an
answer (`DataExport`); deadlines and review
dates (an extension is asked for in time or refused); `deliveryFailure`, which
reports alone read; the session a redeemed code opens, which serves reads alone, and
how long a response can be read. Seen while modelling, and not
promised otherwise by the code: a guest who redeems the code of a response before
the transaction that records its delivery raises the revision, and the delivery is
refused as a conflict although it arrived (store.ts:514), to be delivered again; a
failed mail's record (:506) and a notice's (:552, :556) are written whatever
has happened since; a code for a request that is closed, even as unverified, can be
asked for and redeemed until the secret expires, so such a request may show a
verified address afterwards; a notice replaces the code of a response that is out (:547), whose
recipient then needs the notice's or a new one.

### LegalRequest, SecurityIncident, ContentReports, DeskAudit

`LegalRequest` follows one request from the intake to the end of its retention. Evidence
is three fields, as `legalEvidenceFields` has it with what the person wrote as one; dates
are whether they are set. Aligning the audit's expiry is a transaction after the one it
follows (`Align`), so a handler may die before it.

`SecurityIncident` follows the decisions, a prepared notification and its notices. A notice
is the request that sends it: `StageNotice` takes the key of recipient and version,
`SendNotice` is the mail, `FinishDelivery` the record of it, `FinishAgain` a repetition of
the record. Each document has a `life` of its own, which the TTL ends in any order; `lapsed`
keeps the keys that were collected, since without its key a person may be told again.

`ContentReports` has the intake with its rate limit, the transitions, and the walk through
the operators' queue (`readOperatorPage`): a request scans at most `ScanPages` pages and
hands a cursor back. That an incident's containment, remediation and post-mortem are written
down before it is closed is left out.

`DeskAudit` is when the entries of a case's audit expire, for the two desks that do it
differently: the writers that date their entry by the case, those that never do (`LogUndated`),
and the closings and holds that date what is there. `TrailExpiresWithCase` names what the
code leaves out of step: what a closing has yet to date or died before it dated; the entry of
an operator who had read the case before it was closed (`privacy-requests/store.ts:320`); that
of a guest's code redeemed after (`:232`), of an extension's mail that was out when the case
was closed (`:557`), and of a notice superseded after (`security-incidents/store.ts:384`); and
the entry of a review of a closed case that is held, which is dated all the same (`:323`) until
the next hold or release. Nothing in the repository promises otherwise of these.

### AccountApi, DataExport, DeletionRestore, ContentPackages

`AccountApi` has a set of routes, each a guard and the names of its handler's steps, in order;
each step is one transaction, read or call and may refuse. It models what is known
between the steps: the generation the guard found, the sign-in the token is of,
whether a purchase is available. `upset` remembers that what a request was admitted on
had changed before it came to look for a package. What the stores do in a step is in their
own modules.

The account's generation is advanced by the deletion alone (`account-lifecycle/store.ts:750`),
and its rotation second is written once, as 0 (`users/store.ts:164`). A revocation of sessions
changes neither: `RevokeTokens` is Firebase's call, which moves `person.valid`, and the token
minted afterwards claims the generation there was. So a request that was admitted before a
revocation goes on to write after it; it is only the routes that verify the token again (that
of a package) which notice. `NothingLate` says this much and no more: no write outlives the
deletion that began before it, and no package the revocation, the deletion or the conflict.

`DataExport` is claim, build, hand-over, completion, and the holder's reading of an
answer, while the account's deletion may begin (`HolderCloses`). A new sign-in or a revocation
changes nothing an export looks at, and stops none. `DeletionRestore` is one run of the replay, with two databases that may drift
although they are frozen (`MaxDrift` times), and restarts. `ContentPackages` has the bucket's
conditional write and the directory's temporary file, link and unlink, so that a file
with two names exists, and two manifests of one package.

## Runs

| run | instance | states | shows |
|---|---|---|---|
| `promotion_one_session` | 1 session, 2 handlers, 2 records staged singly, sync and one-step writers | 67 thousand | what is promoted is what was confirmed, deletion freezes, refinement |
| `promotion_two_sessions` | 2 sessions, 2 handlers, one-step adoption, 2 generations | 249 thousand | one writer per generation, pairs name records |
| `promotion_track` | a goal and a plan, 1 session, 2 handlers, fairness | 47 thousand | a begun promotion completes |
| `generation_swap` | 2 sessions, 1 handler | violation | a promotion may replace a generation other than the one its session was started for |
| `adoption` | the merge over every pair of valid snapshots of one item and one track; 1 device, 2 batches, 2 mutations; 2 transfers, 4 chunks, 2 seals; 1 purge run, 2 sessions | 793 thousand | the merge takes each unit from one side and keeps bundles whole; no mutation counts twice and a device holds what there is; a sealed session is whole; the purge is exact |
| `deletion` | 2 identities, 2 handlers, 4 fences | 472 thousand | the safety properties of the deletion |
| `deletion_liveness` | 1 identity, 2 handlers | 494 thousand | an accepted deletion is completed and proved |
| `purchases` | 2 attempts, 2 transactions, times 0 to 3, waits of 1 | 2.7 million | the safety properties of purchases |
| `provider` | 2 handlers, 3 claims, 2 changes of the subscription; 2 subscriptions of 10 forms; 4 identifiers; 2 keys, 2 askers | 1.4 million | the receipt is mailed once, the entitlement is current; a verdict is earned; the right customer is deleted; keys are recent |
| `entitlement_unreadable` | 1 handler, 1 claim | violation | an identity conflict settles an entitlement that the export cannot read |
| `operator_desk` | 2 handlers and 3 mails; 2 legal handlers, 2 answers; 2 people, 2 notices; 5 reports, pages of 2 | 1.3 million | who is served was verified, records and held evidence stand, nobody is told twice, closed means notified, the walk shows everything |
| `account` | 2 revocations, 2 handlers; 2 requests on every route; 2 exports; 2 identities restored; 2 publishers, 4 manifests; 2 clerks | 777 thousand | revocations are true and end with the account; nothing late is done or shown; exports, receipts and packages are what they say; audits expire with their case |

`adoption`, `provider`, `operator_desk` and `account` explore several parts in one run. The
modules of a run share no variable (what one needs of another's documents is a step of its
own environment), a property of one depends on its steps alone, and so a behaviour of all of
them is an interleaving that no property can tell from its parts: a variable (`part`,
`queue`) says whose behaviour is explored, and the rest stands still in an initial state. Where components do share state, one module has them both:
`AccountDeletion` has the writers that meet it, `SessionRevocation` the deletion that takes
its slot, `PurchaseAttempts` the purge and the events, `RetentionPurge` the promotion's lease.

Why these bounds are enough to be interesting. Two handlers are what it takes for
one to outlive its lease while another goes on; the code never counts handlers. Two
records staged one per transaction leave a state in which some but not all is
staged; `StageBatch` and `DecisionBatch` are 1 so that every loop really loops. Two
sessions and two generations let the pointer move backwards, which is the finding.
Revisions are bounded by `MaxRev`; since a batch adds to the revision, a bound of 2
leaves room for a write before and a write after each read. With two sessions sync
batches are left to the other run, and the one-step adoption is the interfering
writer, the one that ignores the lease. Two identities let a provider's call
succeed for one and fail for the other. Two attempts and two transactions are what
a mix-up needs; four clock values pass both windows, and a wait of one unit is enough for a consent
to be stored with an earlier time than the one before it. Consents are given and the e-mail is
verified at the first two moments, and one attempt has a case, before any conflict or deletion
(the constraints `Early`, `OneCase` of `MCPurchaseAttempts`). One device is enough for `ProgressSync`
because the batches it has given up come from nowhere, like another device's; revision 2 leaves
room for a batch, and an adoption or another batch around it. A reading of an answer and the
expiry of its chunks are explored without an export (`NoExport` in `MCAccount`), of which they
touch no document but the answer it creates once. One drift of a restored database
(`MaxDrift`) is what the checks after it must notice. Five reports in pages of two take two
requests with `ScanPages` 2. The incident is explored from its creation for two revisions and
from a prepared notification on (the constraint `EarlyOrPrepared`): the decisions between
are single transactions under the revision, and all of them together are too many. Revision 10
(`MaxIncidentRev`) leaves the prepared one five, as many as it takes to stage the notices of
two people, to record their outcomes and to close, which `ClosedMeansNotified` is about; the
proofs have every bound. Three claims are a refused mail, its
repetition and one more that must not come; two changes and four fences let each of
two refreshes be overtaken and begun again. Six revisions are what a guest's request takes until its
answer is delivered (its closing is one more, and is explored of an account's request; the
proofs have both for every bound), three mails a code, a response and one more of any kind.
Symmetry is used for handlers, sessions,
identities, attempts, transactions, claims and mails in runs without liveness
properties; no definition orders them.

`CHECK_DEADLOCK FALSE` everywhere: an account whose transfer is complete and whose
bounds are reached, a deletion that is proved, a deleted buyer, a closed case may stop.

### The findings

`generation_swap` checks the contract that `modules/users/adoptionTransfer.ts:338`
spells out (`compareAndSwapAdoptionGeneration`, called by nothing): a promotion
replaces the generation its session was started for. The store compares with what
the session was *previewed* against, so of two sessions started together the one
with the lower target may be promoted last, and the account's pointer moves from 2
back to 1. No record is lost by it, which is what the refinement says; numbers stay
unique because `FreshGeneration` also looks at the counter.

`entitlement_unreadable` checks what the account's export demands of an entitlement
(`modules/data-export/store.ts:337`, `:343`): a status, and the time of its
observation. The first event of an account creates the document without either
(`revenuecatWebhookStore.ts:172`); if the refresh then ends in an identity conflict,
`completeIdentityConflict` (`:96`) adds a status, ends the refresh and leaves
`updatedAt` unset. The account's export then throws, until a later event's refresh
succeeds.

## Fairness

*Promotion.* `BegunPromotionCompletes` assumes that clients repeat an apply request
(the API is built for that: the operation is resumable by session id), that a
request that can go no further ends, and, by strong fairness of the apply steps,
that not every attempt is cut off at the same place for ever. The conclusion exempts
a promotion whose source has moved, that another session took over, or whose account
is deleted: the code refuses those for good.

*Deletion.* `DeletionCompletes` assumes that the client keeps asking for the status
(that request is what resumes a deletion, nothing else does), that a running handler
takes its next step or ends, that leases of ended handlers run out, and that from
some time on attempts meet no trouble (a failing provider, a death, a lease
outlived). Without the last one no retry loop ends. The safety properties assume no
fairness.

*Everything else.* No liveness is claimed: nothing in the code promises
that an attempt is ever resolved, that a pending refresh is tried again (that takes
another event), that a receipt is sent (that takes another request), that a purge or a
restore is run again, or that an operator acts.

## Proofs

For all sets of sessions, handlers, items, tracks and values, all batch sizes and
bounds, from the assumptions the modules name (`…Assumption`; finiteness of the
items and tracks, an injective ranking of keys, batch sizes that are not zero):

- `TypeCorrect`, `DeletionFreezes`, `OneWriter` (`AdoptionPromotionProofs`). The
  last two are action properties that follow from `TypeOK` and the guards, one step
  per action.
- `Invariance`, `StagingIsExact`, `PromotionIsWhatWasConfirmed`
  (`AdoptionPromotionSafety`). `StagedPrefix` is not inductive: a stage writes what
  *this* handler's reads give, and only because the reads, the checkpoint and the
  stored preview agree is that the merge of the *operation*. `IInv` adds what makes
  it so. `Numbering`: every session has a target nobody else has, unopened until
  its first apply; so nobody else's records are in it. `Current`: a pair that was
  read is never ahead of the account, and while the account still has that pair the
  records read with it are the account's, *even when the read was torn*, because a
  torn read pairs an old revision with newer records, and that revision is past.
  This is the heart of why an unsynchronized `readSnapshot` is harmless here:
  every transaction that uses it compares the pair. `SessionInv` and `HandlerInv`
  tie preview, decision, checkpoint and the handler's copies to one merge. `IInv`
  is proved for `Init` and for every action (one lemma per action, one step per
  conjunct it can disturb).
- `PairsNameRecords`: the same invariant gives that a step moves the revision up with
  every record it changes (a merge that writes no record is no change), or enters a
  generation that never was the account's.
- `Refinement` (`AdoptionPromotionSafety`): under the mapping that reads the
  active generation, a promotion is `Adopt`, the one-step adoption is `Adopt`, a
  batch is `Write`, and everything else stutters.

- `ReceiptInvariance`, `MailsOnce`, `DeliveriesAgree`, `SentStays` (`ProviderProofs`).
  `MailedOnce` says nothing about who may still send. The invariant does: whoever is
  about to send is alone in that, holds the receipt's own claim, and nothing has been
  taken before (`SenderIsAlone`); only the receipt's last claim can have been taken,
  and not if it failed (`LastClaim`), which is why a receipt may be claimed again
  after "failed" and after nothing else; and handlers report what they saw (`Truthful`).
- `RefreshInvariance`, `StoredIsCurrent`, `StoredNeverGoesBack`. No handler's fence is
  ahead of the stored one (`FencesFollow`), so the one handler whose fence fits was
  admitted last, read after every recorded event, and read nothing older than what is
  stored (`HolderIsCurrent`).
  `ObservationAlwaysHolds` joins the last two, as the run checks them.
- `TypeCorrect`, `Invariance`, `UnverifiedStaysUnserved`, `DeliveredIsMailed`,
  `RequestIsServedAsVerified`, `RevisionTells` (`OperatorDeskProofs`). `NobodyUnverified` is about what a request
  has become; `Orderly` adds what it may not have behind it yet: what was delivered has
  an outcome, what was given up is closed for good. That the revision tells of every
  change needs that a request that does not exist has revision 0.

- `RevocationsAreTrue`, `DeletionEnds` (`AccountProofs`). That a revocation is
  recorded once needs times: a record that is there was made late enough for its id
  (`RecordsAreTimely`), and the id of a record that was collected is too old to be used
  for the first time (`CollectedIsTooOld`), by `FirstUse + Skew < Retention`. That it is
  true needs that the sessions its claim has found are gone once the holder of the slot
  was answered (`AnswersAreGood`).
- `LockAgrees`, `BindsTheSold`, `ConsentsAlwaysStand`, `NothingIsAddedAfterDeletion`
  (`PurchaseAttemptsProofs`). `BindsWhatTheSheetSold` is the hard one: the resolver knows
  neither which sheet sold a transaction nor whether a report names the right attempt. The
  invariant says what the lock gives, and nothing of times. A sheet sells once (`Sales`); what is
  bound without a report an operator bound (`OperatorsKnow`); a report of a transaction under an
  attempt that did not sell it is a stray, and leaves behind an attempt that was started, is closed and
  has no candidate (`Lost`, in `StrayReportsShow`), since the attempt that sold it was not open at the
  same time. A lost attempt stays lost while each transaction is reported once, and the resolver, which
  looks at the history, binds nothing automatically to an attempt accepted no earlier than a lost one: so
  the first stray report stops the automatic binding for good, and what it stops is left to operators,
  whose evidence is true.

- `ErasureProved`, `IdentityBlocked`, `DeletionResumable`, `NewAccountStands`
  (`AccountDeletionProofs`). The three invariants do not carry themselves: a handler that
  lost its lease long ago still acts. `DInv` says what it can know. A handler is never
  ahead of the operation (`InPhase`), what it has worked off in a phase the operation is
  still in stays worked off (`WorkedOffBy`), what its verification has seen gone cannot come
  back (`VerifiedBy`, by `Forward`: nobody writes for a user who is gone), and no documents of
  the account go before the phase of their erasure (`ErasureComesLast`).
- `SealedSessionIsWhole` (`ProgressProofs`). While a session is being sealed nobody can add
  to it (`SealsAreTrue`): so what the four steps of the seal have read one after the other is
  what there is, though uploads overtake every one of them before the first.
- `MutationsCountOnce`, `SnapshotsAreGiven`. A mutation that took effect has its receipt, or
  its receipt was collected (`RequestsOK`). What a device holds is told by the revision it
  names (`MirrorOK`), and what the pages so far have given by the revision their read began
  at (`ReaderOK`), as long as the account is at that revision; and the answer of a read is
  used only then.
- `PurgeExact`. What the final recheck has passed by without finding it due stays so
  (`PassedBy`), because times only run on and a lease is only ever renewed to a later one.
- `MergeKeepsBundles`, `MergeDoesWhatWasShown`. No induction: a written key belongs to a
  unit, a track's goal and plan to one and the same (`TrackSide`), so both come from the
  side the preview names.
- `KeysStayRecent` (`ProviderProofs`): a fetch brings keys of no earlier than its beginning
  and ends within `FetchLimit` (`Fetching`), so a fresh cache tells how old a key can be.
- `CustomerDeletionExact`: what a call knows of its target outlives what the provider does
  meanwhile (`Target`): the target is the account's still, or has lost every alias and left
  the account without a customer for a moment, which is what its answer says.
- `AnswersAreEarned`. The read is pages of a thing that changes. The rows of the pages so
  far hold one of each subscription, none that gave access unnoticed, and one that gives it of
  each that did all along (`RowsOK`). The last row of a subscription is the one that counts;
  that a finite set of rows has a last one is `LatestExists`.
- `LegalRecordStands`, `WalkIsWhole`, `IncidentNoticesHold`, `ClosedWhenNotified`
  (`OperatorDeskProofs`). For the walk: what is behind the cursor and was due all the while
  has been shown once, what is ahead of it not at all. For the closing the code counts: it
  compares the number of sent notices with the number of subjects. That nobody is left out
  follows because two sent notices of one version cannot name one person while keys last
  (`NoticeSentOnce`), and an injection between finite sets of one size misses nobody
  (`EveryoneIsNotified`).
- `TheDeskHolds`, `DeskHasItsQueues`, `DeskClosesNotified`: the same at the desk of the run, whose
  incident may begin prepared; `DInv` is the conjunction of the queues' invariants.
- `TrailsExpire` (`AccountProofs`): what a closing has listed it will date, and whatever came
  between its list and its dates was dated by its writer, or is one of those the property names
  (`ListedOrDated`).
- `PointersServe`: no step takes a readable object away, changes its bytes, or changes a manifest
  (`Lasting`); so a publisher that has read an object back may name it however late.
- `ReceiptsAreTrue`: a run erases those the markers match in the restored database, each once
  (`OwnersAreRestored`); who is still to be erased keeps his identities, who was erased has none
  (`StillMapped`, `IdentitiesGone`); so what is fingerprinted at the end is erased
  (`HashIsErased`), although an earlier run died half way.
- `ExportsAccounted`: of an export under way the audit says so and nobody else builds it
  (`OneHandlerEach`), the count of a window covers what was admitted in it (`WindowCounts`), and
  an export whose account began to close meanwhile finds it closed at its next look
  (`TurnedIsSeen`).
- `NothingIsLate`. A request carries its guard's generation through steps at none of which the
  account is locked; since only the closing advances the generation, the account is in the
  state that a write finds expected (`PersonOK`). What upset a request for a package is still
  there after the package is found (`Held`, by `Ended`): a sign-in that was revoked stays so, a
  closing is final, nobody resolves a conflict. So an upset request does not pass the second look at
  the identity and the second verification of its token (`PackageRoute`, `OnPath`).
- `PartsAreApart` (in `ProgressProofs`, `ProviderProofs` and `AccountProofs`): a behaviour of
  the run's specification is one of each of its parts. So what is proved of the parts' own
  specifications is what the runs `adoption`, `provider` and `account` check.

Every property that a passing run checks, liveness excepted, is thus proved for every value
of the constants the assumptions allow. The assumptions say no more than the code does: numbers
are numbers, limits and pages are not zero, what stands for nothing is none of the things, an
operation id's record outlives the time in which the id may be used (`RevocationAssumption`).

Only model-checked: `BegunPromotionCompletes` and `DeletionCompletes`, since fairness and
`ENABLED` are out of the prover's reach; and the two violations. That `AdoptionMerge` computes
what the reference definition does needed no induction, and is proved as well.

## Plan

Done: the models, the runs, and the proofs of every safety property the runs check. What is
left: to find what else the code promises between components. A refinement for the deletion (an
abstract account that is, is going and is gone) and one for the receipt would say in one
formula what their invariants say in several.

## Not modelled

- `api/openapi.ts`, its validator and the probes (a document and checks of it), the scripts
  (clients of the API and of the stores), configuration, logging: data without behaviour over time.
- Token verification by Firebase, canonical forms, hashes and formats of unbounded text: pure
  functions; the models compare the values themselves, and take a verified token as verified.
- Views of one collection (entitlements, tracks, content versions) and the administration's
  overview: reads that decide nothing.
- What an export reads at fifteen moments: the code says of the document neither that it is a
  snapshot nor anything weaker, so there is nothing to check it against.
- Stuck but harmless states, which the code leaves to operators or to expiry: a product's lock
  whose attempt was never claimed, or was closed with `releaseLock` false
  (`purchaseCorrelation.ts:115`); a session sealed too early. No promise of progress is made there.
- The parts each component's note in `PROJECT.json` names as left out.
