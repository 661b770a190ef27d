--------------------------- MODULE EntitlementReader ---------------------------
(***************************************************************************)
(* One read of an account's premium at RevenueCat: the V1 subscriber first *)
(* (who owns it, a promotional grant, the ends of grace), then three V2    *)
(* lists at once, the subscriptions page by page, and one verdict over all *)
(* rows.  Meanwhile the store renews, pauses and transfers subscriptions.  *)
(*                                                                         *)
(* Each subscription has a product of its own.  A malformed, refused, late *)
(* or foreign answer is a fault: the read throws.                          *)
(***************************************************************************)
EXTENDS Naturals, FiniteSets

CONSTANTS LastSub,       \* the account's subscriptions are 1 .. LastSub, listed in this order
          Forms,         \* what a subscription may look like at the provider
          PageRows,      \* rows of a page
          PolicyUntil,   \* sandboxPromotionalAccess.expiresAt; 0: no policy for this account
          MaxInstant, MaxChanges   \* bounds

Subs == 1 .. LastSub

ASSUME ReaderAssumption ==
  /\ {LastSub, PolicyUntil, MaxInstant, MaxChanges} \subseteq Nat /\ PageRows \in Nat \ {0}
  /\ \A f \in Forms : /\ {"kind", "mine", "status", "gives", "ends", "tx", "grace"} \subseteq DOMAIN f
                      /\ f.kind \in {"premium", "gift", "stray", "other"} /\ {f.mine, f.gives} \subseteq BOOLEAN
                      /\ {f.ends, f.grace} \subseteq Nat

VARIABLES
  instant,
  shelf,     \* what the provider lists for the account: the form of each subscription there is
  owner,     \* subscriber.original_app_user_id: this account or another
  promo,     \* the V1 entitlement is promotional: its expires_date, 0 when it is not
  changes,   \* of the provider so far
  look       \* the read; history: ever, held: subscriptions that gave access at some moment, at every moment of it

readerVars == <<instant, shelf, owner, promo, changes, look>>

NoSub == [kind |-> "none", gives |-> FALSE]
Unread == [pc |-> "idle", asked |-> 0, v1 |-> <<>>, rows |-> {}, cursor |-> 0, catalog |-> FALSE,
           answer |-> "none", ends |-> 0, gift |-> FALSE, ever |-> {}, held |-> {}]

ReaderInit ==
  /\ instant = 0 /\ changes = 0
  /\ shelf \in [Subs -> Forms \cup {NoSub}]
  /\ owner = "me" /\ promo = 0
  /\ look = Unread

Giving(sh) == {s \in Subs : sh[s].kind = "premium" /\ sh[s].gives /\ sh[s].mine}
Reading    == look.pc \in {"owner", "lists"}

-----------------------------------------------------------------------------
(* The provider *)

Turn(sh) ==
  /\ changes < MaxChanges
  /\ changes' = changes + 1
  /\ shelf' = sh
  /\ look' = IF Reading THEN [look EXCEPT !.ever = @ \cup Giving(sh), !.held = @ \cap Giving(sh)] ELSE look

\* A purchase, renewal, cancellation, pause, billing issue, expiry or transfer.
SubChanges(s, f) ==
  /\ Turn([shelf EXCEPT ![s] = f])
  /\ UNCHANGED <<instant, owner, promo>>

OwnerChanges ==
  /\ Turn(shelf)
  /\ owner' = IF owner = "me" THEN "other" ELSE "me"
  /\ UNCHANGED <<instant, promo>>

PromoChanges(e) ==
  /\ Turn(shelf)
  /\ promo' = e
  /\ UNCHANGED <<instant, owner>>

InstantPasses ==
  /\ instant < MaxInstant
  /\ instant' = instant + 1
  /\ UNCHANGED <<shelf, owner, promo, changes, look>>

-----------------------------------------------------------------------------
(* The read *)

Settle(l, a, e) == [l EXCEPT !.pc = "done", !.answer = a, !.ends = e, !.rows = {}, !.v1 = <<>>]

StartRead ==
  /\ ~Reading
  /\ look' = [Unread EXCEPT !.pc = "owner", !.ever = Giving(shelf), !.held = Giving(shelf)]
  /\ UNCHANGED <<instant, shelf, owner, promo, changes>>

\* fetchJson fails: a status, a body that is no JSON, the network or the timer.
Fault ==
  /\ Reading
  /\ look' = Settle(look, "thrown", 0)
  /\ UNCHANGED <<instant, shelf, owner, promo, changes>>

\* The promotional grant, cut at the policy's end; proper: the grant is whole and the policy names this account.
Gift(l, proper) ==
  LET until == IF promo < PolicyUntil THEN promo ELSE PolicyUntil
  IN IF ~proper \/ instant >= PolicyUntil THEN Settle(l, "unavailable", 0)
     ELSE Settle(l, IF until <= l.asked THEN "expired" ELSE "active", until)

\* The V1 answer dates the read and fixes the ends of grace it will use.
OwnerAnswer(proper) ==
  /\ look.pc = "owner"
  /\ LET l == [look EXCEPT !.asked = instant]
     IN look' = IF owner # "me" THEN Settle(l, "conflict", 0)
                ELSE IF promo # 0 THEN Gift([l EXCEPT !.gift = TRUE], proper)
                ELSE [l EXCEPT !.pc = "lists",
                               !.v1 = [s \in Subs |-> IF shelf[s] = NoSub THEN <<0, 0>> ELSE <<shelf[s].tx, shelf[s].grace>>]]
  /\ UNCHANGED <<instant, shelf, owner, promo, changes>>

\* Products and entitlements: exactly one of each that the map binds, or the read throws.
CatalogAnswer ==
  /\ look.pc = "lists" /\ ~look.catalog
  /\ look' = [look EXCEPT !.catalog = TRUE]
  /\ UNCHANGED <<instant, shelf, owner, promo, changes>>

Listed(c)  == {s \in Subs : s > c /\ shelf[s] # NoSub}
Page(c)    == {s \in Listed(c) : Cardinality({t \in Listed(c) : t <= s}) <= PageRows}
Further_None(c) == LastSub + 1   \* slip: the list ends with its first page
Further(c) == IF Listed(c) = Page(c) THEN LastSub + 1 ELSE CHOOSE s \in Page(c) : \A t \in Page(c) : t <= s

\* One page of subscriptions; its next_page names the last row.
PageAnswer ==
  /\ look.pc = "lists" /\ look.cursor <= LastSub
  /\ look' = [look EXCEPT !.rows = @ \cup {[sub |-> s, form |-> shelf[s]] : s \in Page(look.cursor)},
                          !.cursor = Further(@)]
  /\ UNCHANGED <<instant, shelf, owner, promo, changes>>

\* v1GraceEnd: only of the very transaction the V2 row names.
GraceEnd(l, row) == IF l.v1[row.sub][1] = row.form.tx THEN l.v1[row.sub][2] ELSE 0

\* What one premium row says; "unreadable": whatever the provider means by it, it is no verdict.
SourceState(l, row) ==
  LET f == row.form
  IN CASE f.gives /\ f.status = "active" /\ f.ends > l.asked -> "active"
       [] f.gives /\ f.status = "in_grace_period" /\ GraceEnd(l, row) > l.asked -> "grace"
       [] ~f.gives /\ f.status \in {"paused", "expired"} -> f.status
       [] ~f.gives /\ f.status = "in_billing_retry" -> "hold"
       [] OTHER -> "unreadable"

\* Skipped: promotional rows, and products outside the map that give no premium.
Skipped(f) == \/ f.kind \in {"gift", "other"}
              \/ f.kind = "stray" /\ ~f.gives

Source(l, row) == CASE ~row.form.mine -> "conflict"
                    [] row.form.mine /\ Skipped(row.form) -> "skipped"
                    [] row.form.mine /\ row.form.kind = "stray" /\ row.form.gives -> "unreadable"
                    [] row.form.mine /\ row.form.kind = "premium" -> SourceState(l, row)

AccessEnd(l, row) == IF Source(l, row) = "grace" THEN GraceEnd(l, row) ELSE row.form.ends

RowsOf(l, states) == {row \in l.rows : Source(l, row) \in states}
FirstOf(rows)     == CHOOSE row \in rows : \A q \in rows : row.sub <= q.sub

\* winningSource: the row of the latest end of access, the first of several.
LatestOf(l, rows) ==
  CHOOSE row \in rows :
    \A q \in rows : \/ AccessEnd(l, q) < AccessEnd(l, row)
                    \/ AccessEnd(l, q) = AccessEnd(l, row) /\ row.sub <= q.sub

\* parseV2Result: the first row that is no verdict decides; else the latest end of access; else hold, else expired.
Verdict(l) ==
  LET bad    == RowsOf(l, {"conflict", "unreadable"})
      access == RowsOf(l, {"active", "grace"})
      win    == LatestOf(l, access)
  IN IF bad # {} THEN Settle(l, IF Source(l, FirstOf(bad)) = "conflict" THEN "conflict" ELSE "unavailable", 0)
     ELSE IF access = {} THEN Settle(l, IF RowsOf(l, {"paused", "hold"}) # {} THEN "hold" ELSE "expired", 0)
     ELSE IF win.form.ends = 0 THEN Settle(l, "unavailable", 0)
     ELSE Settle(l, Source(l, win), AccessEnd(l, win))

Finish ==
  /\ look.pc = "lists" /\ look.catalog /\ look.cursor > LastSub
  /\ look' = Verdict(look)
  /\ UNCHANGED <<instant, shelf, owner, promo, changes>>

ReaderNext ==
  \/ \E s \in Subs, f \in Forms : SubChanges(s, f)
  \/ \E e \in 0 .. MaxInstant : PromoChanges(e)
  \/ OwnerChanges \/ InstantPasses
  \/ StartRead \/ Fault
  \/ \E proper \in BOOLEAN : OwnerAnswer(proper)
  \/ CatalogAnswer \/ PageAnswer \/ Finish

ReaderSpec == ReaderInit /\ [][ReaderNext]_readerVars

-----------------------------------------------------------------------------
(* What the answer may say.  It is no snapshot of the provider: its rows   *)
(* are of different moments.  So access is only told of a subscription     *)
(* that gave it while the read went on, with an end after the read's date; *)
(* and loss of premium only when no subscription gave access throughout.   *)
(* It holds because every page is followed and an odd row is no verdict.   *)
AnswerIsEarned ==
  look.pc = "done" =>
    /\ look.answer \in {"active", "grace"} => look.ends > look.asked /\ (look.gift \/ look.ever # {})
    /\ look.gift => look.ends <= PolicyUntil
    /\ look.answer \in {"hold", "expired"} /\ ~look.gift => look.held = {}
=============================================================================
