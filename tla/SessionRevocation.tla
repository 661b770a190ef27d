--------------------------- MODULE SessionRevocation ---------------------------
(***************************************************************************)
(* revokeSessions of the account lifecycle store: signs every session of a *)
(* user out and hands the caller a fresh token.  It claims the user's      *)
(* security slot, asks Firebase outside any transaction, records what      *)
(* happened, and mints; the deletion of the account takes the slot away    *)
(* from it at any time, and so does another revocation once the two-minute *)
(* lease has run out.                                                      *)
(*                                                                         *)
(* The clock counts days; the lease is a flag.  The random fence of a      *)
(* claim is the handler that made it.                                      *)
(***************************************************************************)
EXTENDS Naturals

CONSTANTS Workers,      \* request handlers
          Operations,   \* operation ids, chosen by clients
          Legacy,       \* the ids without a time in them (UUID v4)
          Issued,       \* the time in every other id (UUID v7)
          Sessions,     \* sessions of the user at Firebase
          Retention, FirstUse, Skew,   \* 30 days, 29 days, five minutes
          MaxClock,     \* bound of the clock
          None

ASSUME RevocationAssumption ==
  /\ Legacy \subseteq Operations
  /\ Retention \in Nat /\ FirstUse \in Nat /\ Skew \in Nat /\ MaxClock \in Nat
  /\ Issued \in [Operations \ Legacy -> Nat]
  /\ FirstUse + Skew < Retention
  /\ None \notin Operations /\ None \notin Workers

VARIABLES
  user,        \* authorizationState: "deleting" once the generation has moved on
  slot,        \* securityOperation of the user document
  recovery,    \* the legacy recovery operation, which may hold the slot
  revocation,  \* sessionRevocationOperations; `before` is history: the sessions
               \* that the latest claim has found
  live,        \* the sessions Firebase accepts
  clock,
  handed,      \* history: whether a token has been returned
  finished,    \* history: operations recorded as revoked
  call         \* the handlers

revocationVars == <<user, slot, recovery, revocation, live, clock, handed, finished, call>>

Absent   == [status |-> "none", at |-> 0, legacy |-> FALSE, before |-> {}]
NoSlot   == [kind |-> "none", op |-> None, fence |-> None, leased |-> FALSE]
Resting  == [pc |-> "idle", op |-> None]

RevocationInit ==
  /\ user = "active"
  /\ \/ slot = NoSlot /\ recovery = "none"
     \/ slot = [NoSlot EXCEPT !.kind = "recovery", !.leased = TRUE] /\ recovery = "pending"
  /\ revocation = [o \in Operations |->
                     IF o \in Legacy THEN [Absent EXCEPT !.status = "revoked", !.legacy = TRUE]
                     ELSE Absent]
  /\ live \in SUBSET Sessions
  /\ clock = 0
  /\ handed = FALSE
  /\ finished = Legacy
  /\ call = [w \in Workers |-> Resting]

To(w, pc) == call' = [call EXCEPT ![w].pc = pc]
End(w)    == call' = [call EXCEPT ![w] = Resting]

Expired(o) == revocation[o].at + Retention <= clock

-----------------------------------------------------------------------------
(* The claim *)

\* assertSessionRevocationFirstUse.  A slip: a record that is gone never was.
FirstUseAllowed_Always(o) == TRUE
FirstUseAllowed(o) ==
  o \notin Legacy /\ Issued[o] + FirstUse >= clock /\ Issued[o] <= clock + Skew

SlotFree == slot.kind = "none" \/ (~slot.leased /\ slot.kind \in {"session_revoke", "recovery"})

\* A recovery that loses the slot is retired for good.
Superseded == IF slot.kind = "recovery" THEN "superseded" ELSE recovery

RevocationClaim(w, o) ==
  /\ call[w].pc = "idle" /\ user = "active"
  /\ revocation[o].status # "revoked"
  /\ revocation[o].status = "none" => FirstUseAllowed(o)
  /\ SlotFree
  /\ slot' = [kind |-> "session_revoke", op |-> o, fence |-> w, leased |-> TRUE]
  /\ recovery' = Superseded
  /\ revocation' = [revocation EXCEPT ![o].status = "pending", ![o].at = clock, ![o].before = live]
  /\ call' = [call EXCEPT ![w] = [pc |-> "revoke", op |-> o]]
  /\ UNCHANGED <<user, live, clock, handed, finished>>

\* A retry of what was done already: the deadline of a legacy record is written
\* down, and unless it has passed a token is minted again.
RevocationAgain(w, o) ==
  /\ call[w].pc = "idle" /\ user = "active"
  /\ revocation[o].status = "revoked"
  /\ revocation' = [revocation EXCEPT ![o].legacy = FALSE]
  /\ call' = IF Expired(o) THEN call ELSE [call EXCEPT ![w] = [pc |-> "check", op |-> o]]
  /\ UNCHANGED <<user, slot, recovery, live, clock, handed, finished>>

-----------------------------------------------------------------------------
(* Firebase, and the record of its answer *)

\* revokeRefreshTokens ends every session there is.
Revoke(w) ==
  /\ call[w].pc = "revoke"
  /\ live' = {}
  /\ To(w, "revoked")
  /\ UNCHANGED <<user, slot, recovery, revocation, clock, handed, finished>>

\* It fails, or its answer is lost.
RevokeFails(w) ==
  /\ call[w].pc = "revoke"
  /\ live' \in {live, {}}
  /\ To(w, "failed")
  /\ UNCHANGED <<user, slot, recovery, revocation, clock, handed, finished>>

\* The claim is still this handler's.  A slip: its operation's, whoever claimed.
Claimed_ByOperation(w) == slot.kind = "session_revoke" /\ slot.op = call[w].op
Claimed(w) == slot.kind = "session_revoke" /\ slot.op = call[w].op /\ slot.fence = w

Finalize(w) ==
  LET o == call[w].op
  IN  /\ call[w].pc \in {"revoked", "failed"}
      /\ user = "active" /\ Claimed(w) /\ revocation[o].status = "pending"
      /\ revocation' = [revocation EXCEPT ![o].status = call[w].pc, ![o].at = clock]
      /\ slot' = NoSlot
      /\ IF call[w].pc = "revoked"
           THEN finished' = finished \cup {o} /\ To(w, "check")
           ELSE UNCHANGED finished /\ End(w)
      /\ UNCHANGED <<user, recovery, live, clock, handed>>

-----------------------------------------------------------------------------
(* mintReplacementSession: assertMintAllowed, createCustomToken, and          *)
(* assertMintAllowed again before the token is returned.                      *)

MintAllowed(o) ==
  user = "active" /\ revocation[o].status = "revoked" /\ ~revocation[o].legacy /\ ~Expired(o)

Check(w) ==
  /\ call[w].pc = "check" /\ MintAllowed(call[w].op)
  /\ To(w, "mint")
  /\ UNCHANGED <<user, slot, recovery, revocation, live, clock, handed, finished>>

Mint(w) ==
  /\ call[w].pc = "mint"
  /\ To(w, "recheck")
  /\ UNCHANGED <<user, slot, recovery, revocation, live, clock, handed, finished>>

\* A slip: the token is returned as soon as Firebase has signed it.
HandOverAllowed_Unchecked(o) == TRUE
HandOverAllowed(o)           == MintAllowed(o)

HandOver(w) ==
  /\ call[w].pc = "recheck" /\ HandOverAllowed(call[w].op)
  /\ handed' = TRUE
  /\ End(w)
  /\ UNCHANGED <<user, slot, recovery, revocation, live, clock, finished>>

\* Whatever is refused or thrown ends the request, and so does a crash.
Abandon(w) ==
  /\ call[w].pc # "idle"
  /\ End(w)
  /\ UNCHANGED <<user, slot, recovery, revocation, live, clock, handed, finished>>

-----------------------------------------------------------------------------
(* Everybody else *)

\* prepareDeletionOperation advances the generation and replaces whoever holds
\* the slot, leased or not.
TakeOver ==
  /\ user = "active"
  /\ user' = "deleting"
  /\ slot' = [NoSlot EXCEPT !.kind = "account_delete", !.leased = TRUE]
  /\ recovery' = Superseded
  /\ UNCHANGED <<revocation, live, clock, handed, finished, call>>

SlotLeaseEnds ==
  /\ slot.leased
  /\ slot' = [slot EXCEPT !.leased = FALSE]
  /\ UNCHANGED <<user, recovery, revocation, live, clock, handed, finished, call>>

\* A session that begins now was not there when any claim was made.
SignIn(s) ==
  /\ s \notin live
  /\ live' = live \cup {s}
  /\ revocation' = [o \in Operations |-> [revocation[o] EXCEPT !.before = @ \ {s}]]
  /\ UNCHANGED <<user, slot, recovery, clock, handed, finished, call>>

\* Firestore's TTL removes a record some time after its expiresAt.
CollectRevocation(o) ==
  /\ revocation[o].status = "revoked" /\ ~revocation[o].legacy /\ Expired(o)
  /\ revocation' = [revocation EXCEPT ![o] = Absent]
  /\ UNCHANGED <<user, slot, recovery, live, clock, handed, finished, call>>

Day ==
  /\ clock < MaxClock
  /\ clock' = clock + 1
  /\ UNCHANGED <<user, slot, recovery, revocation, live, handed, finished, call>>

RevocationNext ==
  \/ \E w \in Workers, o \in Operations : RevocationClaim(w, o) \/ RevocationAgain(w, o)
  \/ \E w \in Workers : \/ Revoke(w) \/ RevokeFails(w) \/ Finalize(w) \/ Check(w) \/ Mint(w)
                        \/ HandOver(w) \/ Abandon(w)
  \/ TakeOver \/ SlotLeaseEnds \/ Day
  \/ \E s \in Sessions : SignIn(s)
  \/ \E o \in Operations : CollectRevocation(o)

RevocationSpec == RevocationInit /\ [][RevocationNext]_revocationVars

-----------------------------------------------------------------------------
(* Correctness *)

Slots == [kind: {"none", "session_revoke", "recovery", "account_delete"},
          op: Operations \cup {None}, fence: Workers \cup {None}, leased: BOOLEAN]

\* Every document and every handler is well formed.
RevocationTypeOK ==
  /\ user \in {"active", "deleting"}
  /\ slot \in Slots
  /\ recovery \in {"none", "pending", "superseded"}
  /\ revocation \in [Operations -> [status: {"none", "pending", "failed", "revoked"},
                                    at: Nat, legacy: BOOLEAN, before: SUBSET Sessions]]
  /\ live \in SUBSET Sessions
  /\ clock \in Nat
  /\ handed \in BOOLEAN
  /\ finished \in SUBSET Operations
  /\ call \in [Workers -> [pc: {"idle", "revoke", "revoked", "failed", "check", "mint", "recheck"},
                           op: Operations \cup {None}]]
  /\ \A w \in Workers : call[w].pc # "idle" => call[w].op \in Operations

\* What an operation's record calls revoked is revoked: no session that its
\* claim has found is accepted any more, although the lease may have run out
\* while Firebase was asked and the operation been claimed again since.
RevokedIsRevoked ==
  \A o \in Operations : revocation[o].status = "revoked" => revocation[o].before \cap live = {}

\* An operation id revokes once: after it has, no retry of the request, however
\* late, signs the user's new sessions out, the record being collected or not.
RevokesOnce ==
  \A o \in finished : revocation[o].status \in {"none", "revoked"}

\* Once the account is being deleted, no revocation is recorded and no token
\* is returned, whatever a handler was in the middle of.
DeletionEndsRevocations ==
  [][user = "deleting" => handed' = handed /\ finished' = finished]_revocationVars

\* A revocation on record is one that happened, and happened once.
RevocationsHold == RevocationTypeOK /\ RevokedIsRevoked /\ RevokesOnce
=============================================================================
