---------------------------- MODULE ProviderCustomer ----------------------------
(***************************************************************************)
(* Deleting an account's customer at RevenueCat: search, read its aliases  *)
(* page by page, run the caller's check, delete, and search again when it  *)
(* was gone.  Meanwhile devices log identifiers in, and the calls repeat.  *)
(*                                                                         *)
(* The provider's half is external: an identifier belongs to one customer, *)
(* a deleted customer takes its identifiers along, and a search lists the  *)
(* customer of the identifier and may list others.  An answer that is late *)
(* or malformed makes the call fail; the provider may have acted on it.    *)
(***************************************************************************)
EXTENDS Naturals, FiniteSets, FiniteSetsExt

CONSTANTS Me,                 \* the app user id of the account
          Anonymous,          \* $RCAnonymousID:...
          Strangers,          \* other accounts' ids
          AliasRows,          \* rows of a page of aliases (100)
          MaxPages,           \* pages a call reads at most (500)
          MaxAttached, MaxCalls \* bounds

AppUserIds == {Me} \cup Anonymous \cup Strangers

ASSUME CustomerAssumption ==
  /\ {AliasRows, MaxPages} \subseteq Nat \ {0} /\ {MaxAttached, MaxCalls} \subseteq Nat
  /\ Me \notin Anonymous \cup Strangers /\ Anonymous \cap Strangers = {}

VARIABLES
  customer,   \* of each identifier at the provider: the id of its customer
  logins, calls,
  erasure,    \* the call; history: free: the account had no customer at some moment of it,
              \* late: identifiers attached since its search
  erased      \* history: of each DELETE, the identifiers it took along that were not late,
              \* and whether the account's was among all of them

customerVars == <<customer, logins, calls, erasure, erased>>

NoCustomer == "nobody"
NoCall == [pc |-> "none", target |-> NoCustomer, read |-> {}, found |-> FALSE, pages |-> 0,
           free |-> FALSE, late |-> {}]

CustomerInit ==
  /\ customer \in {c \in [AppUserIds -> AppUserIds \cup {NoCustomer}] :
                     \A i \in AppUserIds : c[i] # NoCustomer => c[c[i]] = c[i]}
  /\ logins = 0 /\ calls = 0
  /\ erasure = NoCall /\ erased = {}

AliasesOf(c)    == {i \in AppUserIds : customer[i] = c}
AllCustomers    == {customer[i] : i \in AppUserIds} \ {NoCustomer}
Without(c)      == [i \in AppUserIds |-> IF customer[i] = c THEN NoCustomer ELSE customer[i]]
FreeAfter       == erasure.free \/ customer'[Me] = NoCustomer
InCall(pc)      == erasure.pc = pc
CallTo(pc)      == erasure' = [erasure EXCEPT !.pc = pc]
SameProvider    == UNCHANGED <<customer, logins, calls, erased>>

-----------------------------------------------------------------------------
(* The provider *)

\* An identifier without a customer becomes one, or an alias of another.
LogIn(i, c) ==
  /\ logins < MaxAttached /\ logins' = logins + 1
  /\ customer[i] = NoCustomer /\ c \in AllCustomers \cup {i}
  /\ customer' = [customer EXCEPT ![i] = c]
  /\ erasure' = [erasure EXCEPT !.late = @ \cup {i}]
  /\ UNCHANGED <<calls, erased>>

\* Deleted elsewhere, or by a DELETE of an earlier call that arrived late.
CustomerRemoved(c) ==
  /\ logins < MaxAttached /\ logins' = logins + 1
  /\ c \in AllCustomers /\ customer' = Without(c)
  /\ erasure' = [erasure EXCEPT !.free = FreeAfter]
  /\ UNCHANGED <<calls, erased>>

\* What a search for the account's id may list.
MayList(hits) == hits \subseteq AllCustomers /\ (customer[Me] # NoCustomer => customer[Me] \in hits)

-----------------------------------------------------------------------------
(* deleteCustomer *)

\* The deletion of the account repeats a call that failed.
BeginCall ==
  /\ InCall("none") \/ InCall("failed")
  /\ calls < MaxCalls /\ calls' = calls + 1
  /\ erasure' = [NoCall EXCEPT !.pc = "search"]
  /\ UNCHANGED <<customer, logins, erased>>

\* Every answer that is not what was asked for: refused, late, redirected, no JSON.
CallFails ==
  /\ erasure.pc \in {"search", "aliases", "ready", "delete", "verify"} /\ CallTo("failed")
  /\ SameProvider

Canonical(c) == c = Me \/ c \in Anonymous

Search(hits) ==
  /\ InCall("search") /\ MayList(hits)
  /\ erasure' = CASE hits = {} -> [erasure EXCEPT !.pc = "absent", !.free = customer[Me] = NoCustomer]
               [] \E c \in hits : hits = {c} /\ Canonical(c) ->
                    [erasure EXCEPT !.pc = "aliases", !.target = CHOOSE c \in hits : TRUE,
                                 !.found = Me \in hits, !.free = customer[Me] = NoCustomer, !.late = {}]
               [] OTHER -> [erasure EXCEPT !.pc = "failed"]
  /\ SameProvider

\* What the aliases must be: the account's id, the customer's own and anonymous ones.
\* A slip: whatever the customer has.
Own_Any(ids) == ids \subseteq AppUserIds
Own(ids)     == ids \subseteq {Me, erasure.target} \cup Anonymous

\* One page of the aliases that were not listed yet; those attached meanwhile may be
\* behind the cursor.  The customer is the account's if some page names the account.
\* A slip: the search found it.
IsTheirs_Listed(named) == named \in BOOLEAN
IsTheirs(named) == named

AliasPage(rows, more) ==
  LET left  == AliasesOf(erasure.target) \ erasure.read
      named == erasure.found \/ Me \in rows
  IN  /\ InCall("aliases") /\ customer[erasure.target] = erasure.target
      /\ rows \subseteq left /\ Cardinality(rows) <= AliasRows
      /\ IF more THEN left # rows /\ Cardinality(rows) = AliasRows ELSE left \ rows \subseteq erasure.late
      /\ erasure' = CASE ~Own(rows) \/ (more /\ erasure.pages + 1 = MaxPages) \/ (~more /\ ~IsTheirs(named)) ->
                        [erasure EXCEPT !.pc = "failed"]
                   [] OTHER -> [erasure EXCEPT !.pc = IF more THEN "aliases" ELSE "ready", !.found = named,
                                            !.read = @ \cup rows, !.pages = @ + 1]
      /\ SameProvider

\* The caller's check: the deletion still holds its lease.
BeforeDelete(holds) ==
  /\ InCall("ready") /\ CallTo(IF holds THEN "delete" ELSE "failed")
  /\ SameProvider

\* The answer may be lost after the provider acted.
Delete(lost) ==
  /\ InCall("delete") /\ customer[erasure.target] = erasure.target
  /\ customer' = Without(erasure.target)
  /\ erased' = erased \cup {[ids |-> AliasesOf(erasure.target) \ erasure.late, mine |-> customer[Me] = erasure.target]}
  /\ erasure' = [erasure EXCEPT !.pc = IF lost THEN "failed" ELSE "accepted", !.free = FreeAfter]
  /\ UNCHANGED <<logins, calls>>

\* 404: somebody deleted it first.
DeleteGone ==
  /\ InCall("delete") /\ customer[erasure.target] # erasure.target
  /\ CallTo("verify")
  /\ SameProvider

VerifyAbsence(hits) ==
  /\ InCall("verify") /\ MayList(hits)
  /\ erasure' = [erasure EXCEPT !.pc = IF hits = {} THEN "absent" ELSE "failed", !.free = @ \/ customer[Me] = NoCustomer]
  /\ SameProvider

CustomerNext ==
  \/ \E i, c \in AppUserIds : LogIn(i, c)
  \/ \E c \in AppUserIds : CustomerRemoved(c)
  \/ BeginCall \/ CallFails
  \/ \E hits \in SUBSET AppUserIds : Search(hits) \/ VerifyAbsence(hits)
  \/ \E rows \in SUBSET AppUserIds, more \in BOOLEAN : AliasPage(rows, more)
  \/ \E b \in BOOLEAN : BeforeDelete(b) \/ Delete(b)
  \/ DeleteGone

CustomerSpec == CustomerInit /\ [][CustomerNext]_customerVars

-----------------------------------------------------------------------------
\* Whatever else the provider lists, merges or deletes meanwhile: a call deletes the
\* customer of the account, with no other account's identifier that it had before, and
\* one that answers "accepted" or "absent" does so of an account that was without a
\* customer during it.
DeletionIsExact ==
  /\ \A e \in erased : e.ids \subseteq {Me} \cup Anonymous /\ (e.ids # {} => e.mine)
  /\ erasure.pc \in {"accepted", "absent"} => erasure.free

=============================================================================
