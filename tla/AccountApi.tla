------------------------------ MODULE AccountApi ------------------------------
(***************************************************************************)
(* The HTTP routes of the app: what admits a request (routeGuard), and     *)
(* what its handler does after that, step by step, while other requests of *)
(* the same person revoke her sessions, delete her account, or find her    *)
(* identity in conflict at the billing provider.                           *)
(*                                                                         *)
(* A route is its guard and the steps of its handler; each step is one     *)
(* transaction, one read or one call, and may refuse.  What the stores do  *)
(* inside a step is in the modules of the stores.  The routes of operators *)
(* and administrators name no account and are not here.                    *)
(***************************************************************************)
EXTENDS Naturals, Sequences, Functions

CONSTANTS Callers,       \* requests under way
          RecentAuth,    \* RECENT_AUTH_SECONDS
          MaxSecond      \* a bound

ASSUME ApiAssumption == RecentAuth \in Nat /\ MaxSecond \in Nat \ {0}

VARIABLES
  second,    \* Date.now()
  person,    \* one identity: her account's state, generation and billing conflict, and the
             \* second since which Firebase takes a sign-in of hers for good (valid)
  custom,    \* when she was first handed a custom token, which claims generation 1 (0: never)
  asks,      \* each request: where it is, steps left, what the guard found
  upset      \* history: what it was admitted on had ended before it looked for a package

apiVars == <<second, person, custom, asks, upset>>

-----------------------------------------------------------------------------
(* Routes *)

On(guard, steps) == [guard |-> guard, steps |-> steps]
Bearer(steps)    == On("app_check_bearer", steps)

RegistrationRoutes ==
  {On("app_check_verify_only_bearer", <<"register">>),       \* account/registration
   On("app_check_verify_only_bearer", <<"pin", "mint">>),    \* account/session/exchange
   Bearer(<<"serve">>),                                      \* me
   Bearer(<<"write">>)}                                      \* legal-acceptances

\* assertPurchaseAvailable: only a fresh, account-wide negative read lets a sheet follow.
Available == <<"identity", "provider", "identity">>

\* A confirmation or a claim that is repeated needs no new read.  Reading an attempt
\* writes down what time has made of it.
PurchaseRoutes ==
  {Bearer(<<"current">> \o Available \o <<"write">>),   \* confirm
   Bearer(<<"write", "write">>),                        \* confirm, again
   Bearer(<<"write">>),                                 \* an attempt, read; a command
   Bearer(<<"current", "serve">>),                      \* the cases
   Bearer(<<"write">> \o Available \o <<"write">>)}     \* claim

EntitlementRoutes == {Bearer(<<"identity", "provider", "identity", "serve">>)}

\* readPage reads the user before and after the records.
ReadRoutes   == {Bearer(<<"current", "current", "serve">>)}
SyncRoutes   == {Bearer(<<"write">>)}
ExportRoutes == {Bearer(<<"recent", "write", "current", "serve">>)}

PrivacyRoutes ==
  {Bearer(<<"write">>),                        \* create
   Bearer(<<"recent", "write">>),              \* create, for access
   Bearer(<<"serve">>),                        \* list
   Bearer(<<"recent", "current", "serve">>),   \* read
   On("app_check_only", <<"write">>),          \* create as a guest
   On("app_check_only", <<"serve">>)}          \* read as a guest

LegalRoutes ==
  {Bearer(<<"write">>), Bearer(<<"serve">>),
   On("app_check_optional_bearer", <<"write">>)}   \* the public form

\* Preview and confirm.
AdoptionRoutes == {Bearer(<<"serve">>), Bearer(<<"write">>)}

\* The confirmation of a transfer is many transactions, each with the check.
TransferRoutes ==
  {On("bearer", <<"write">>), On("bearer", <<"write", "write">>), On("bearer", <<"serve">>)}

\* revokeSessions, whose claim and whose outcome are writes, and which looks twice before
\* it hands over a token of the same generation; asked again, it only does that.
\* SessionRevocation has its steps.
LifecycleRoutes ==
  {Bearer(<<"write", "revoke", "write", "current", "current", "mint">>),
   Bearer(<<"current", "current", "current", "mint">>),
   Bearer(<<"recent", "close">>),       \* delete the account
   On("app_check_only", <<"serve">>)}   \* the status of a deletion

\* A package; a slip: what was checked before the package was looked up is trusted.
PackageRoute_Once == Bearer(<<"identity", "provider", "identity", "package", "serve">>)
PackageRoute ==
  Bearer(<<"identity", "provider", "identity", "package", "identity", "protect", "identity", "serve">>)

ContentRoutes ==
  {Bearer(<<"serve">>), PackageRoute,              \* the tracks, a package
   On("app_check_optional_bearer", <<"write">>)}   \* a report

Routes == UNION {RegistrationRoutes, PurchaseRoutes, EntitlementRoutes, ReadRoutes, SyncRoutes,
                 ExportRoutes, PrivacyRoutes, LegalRoutes, AdoptionRoutes, TransferRoutes,
                 LifecycleRoutes, ContentRoutes}

-----------------------------------------------------------------------------
(* State *)

Still == [pc |-> "none", left |-> <<>>, gen |-> 0, auth |-> 0, sheet |-> FALSE, package |-> FALSE]

ApiInit ==
  /\ second = 1
  /\ person = [state |-> "none", gen |-> 0, valid |-> 0, conflict |-> FALSE]
  /\ custom = 0
  /\ asks = [c \in Callers |-> Still]
  /\ upset = [c \in Callers |-> FALSE]

Active == person.state = "active"

SecondPasses ==
  /\ second < MaxSecond
  /\ second' = second + 1
  /\ UNCHANGED <<person, custom, asks, upset>>

\* The identity tokens she can hold: she signed in at some second, with her password
\* or, from when she was handed it, with a custom token, whose generation it then claims.
Tokens == {t \in [auth : 1 .. second, gen : 0 .. 1] : t.gen # 0 => custom \in 1 .. t.auth}

-----------------------------------------------------------------------------
(* Guards *)

\* verifyIdToken(idToken, true): no sign-in from before the last revocation.
Verifies(t) == t.auth >= person.valid

\* resolveExistingUser: the claimed generation is the account's.
Resolves(t) == Verifies(t) /\ Active /\ t.gen = person.gen

\* What a guard or a step refuses ends the request.
Refused == Still

\* verifyMobileAppCheck and protect, protectIdentity or neither.
Admitted(route, t, checked) ==
  LET in == [Still EXCEPT !.pc = "handling", !.left = route.steps,
                          !.sheet = {"provider", "write"} \subseteq Range(route.steps),
                          !.package = "package" \in Range(route.steps)]
      account == [in EXCEPT !.auth = t.auth, !.gen = t.gen]
  IN  CASE route.guard # "bearer" /\ ~checked -> Refused
        [] route.guard \in {"bearer", "app_check_bearer"} ->
             IF Resolves(t) THEN account ELSE Refused
        [] route.guard = "app_check_verify_only_bearer" ->
             IF Verifies(t) THEN [in EXCEPT !.auth = t.auth] ELSE Refused
        [] route.guard = "app_check_only" -> in
        [] OTHER -> IF Resolves(t) THEN account ELSE Refused

Idle(c) == asks[c].pc \notin {"handling", "writing"}

Arrive(c, route, t, checked) ==
  /\ Idle(c) /\ t \in Tokens
  /\ asks' = [asks EXCEPT ![c] = Admitted(route, t, checked)]
  /\ upset' = [upset EXCEPT ![c] = FALSE]
  /\ UNCHANGED <<second, person, custom>>

\* app_check_only and app_check_optional_bearer without a token.
ArriveAsGuest(c, route, checked) ==
  /\ Idle(c) /\ route.guard \in {"app_check_only", "app_check_optional_bearer"}
  /\ asks' = [asks EXCEPT ![c] =
                IF checked THEN [Still EXCEPT !.pc = "handling", !.left = route.steps]
                ELSE Refused]
  /\ upset' = [upset EXCEPT ![c] = FALSE]
  /\ UNCHANGED <<second, person, custom>>

-----------------------------------------------------------------------------
(* The steps of the handlers *)

At(c, step) == asks[c].pc = "handling" /\ Head(asks[c].left) = step

\* The step is done; the last one answers.
Done(c, how) ==
  LET rest == Tail(asks[c].left)
  IN  IF rest = <<>> THEN [Still EXCEPT !.pc = how, !.package = asks[c].package]
      ELSE [asks[c] EXCEPT !.left = rest]

Go(c, r) == asks' = [asks EXCEPT ![c] = r]
Pass(c, ok) == Go(c, IF ok THEN Done(c, "none") ELSE Refused)
StepOnly == UNCHANGED <<second, person, custom, upset>>

\* What the request r was admitted on does not hold of p.
Ended(p, r) == p.conflict \/ p.state = "closing" \/ r.auth < p.valid

\* A change to the person: it may upset who has yet to look for the package.
Change(c, p) ==
  /\ person' = p
  /\ upset' = [d \in Callers |-> \/ upset[d]
                                 \/ d # c /\ "package" \in Range(asks[d].left) /\ Ended(p, asks[d])]
  /\ UNCHANGED second

\* assertExpectedAuthorizationGeneration.  A slip: the guard is trusted.
Expected_Guard(c) == TRUE
Expected(c)       == Active /\ asks[c].gen = person.gen

\* requireRecentReauthentication; no sign-in here is ahead of the clock.
Recent(c) ==
  /\ At(c, "recent")
  /\ Pass(c, second - asks[c].auth <= RecentAuth)
  /\ StepOnly

Current(c) ==
  /\ At(c, "current")
  /\ Pass(c, Expected(c))
  /\ StepOnly

\* A report or a request of someone who is not signed in is nobody's.
Write(c) ==
  /\ At(c, "write")
  /\ Go(c, IF asks[c].gen = 0 THEN Done(c, "none")
           ELSE IF Expected(c) THEN [Done(c, "none") EXCEPT !.pc =
                                       IF @ = "none" THEN "wrote" ELSE "writing"]
           ELSE Refused)
  /\ StepOnly

\* After a write that is not the last.
WriteOn(c) ==
  /\ asks[c].pc = "writing"
  /\ Go(c, [asks[c] EXCEPT !.pc = "handling"])
  /\ StepOnly

\* identityAvailable.
Identity(c) ==
  /\ At(c, "identity")
  /\ Pass(c, Active /\ ~person.conflict)
  /\ StepOnly

\* The provider's answer.  One that names another owner is marked before the
\* request is refused; a sheet needs a clear answer, a package a subscription.
Provider(c, answer) ==
  /\ At(c, "provider")
  /\ CASE answer = "conflict"    -> Go(c, [asks[c] EXCEPT !.left = <<"mark">>])
       [] answer = "unavailable" -> Go(c, Refused)
       [] OTHER                  -> Pass(c, /\ asks[c].sheet   => answer = "clear"
                                            /\ asks[c].package => answer = "subscribed")
  /\ StepOnly

Mark(c) ==
  /\ At(c, "mark")
  /\ Go(c, Refused)
  /\ IF Active THEN Change(c, [person EXCEPT !.conflict = TRUE])
     ELSE UNCHANGED <<second, person, upset>>
  /\ UNCHANGED custom

Package(c) ==
  /\ At(c, "package")
  /\ Pass(c, TRUE)
  /\ StepOnly

\* protect, again: by the same token.
Protect(c) ==
  /\ At(c, "protect")
  /\ Pass(c, Resolves([auth |-> asks[c].auth, gen |-> asks[c].gen]))
  /\ StepOnly

Serve(c) ==
  /\ At(c, "serve")
  /\ Go(c, Done(c, "served"))
  /\ StepOnly

\* registerUser: the account of this identity, new or not.  What she is told of one she
\* has, or has closed, changes nothing.
Register(c) ==
  /\ At(c, "register")
  /\ Pass(c, TRUE)
  /\ IF person.state = "none"
     THEN Change(c, [person EXCEPT !.state = "active", !.gen = 1])
     ELSE UNCHANGED <<second, person, upset>>
  /\ UNCHANGED custom

\* pinSessionAuthorization.  No sign-in is as old as the account's rotation second,
\* which registration sets to 0 and nothing sets again.
PinSession(c) ==
  /\ At(c, "pin")
  /\ Go(c, IF Active THEN [Done(c, "none") EXCEPT !.gen = person.gen] ELSE Refused)
  /\ StepOnly

\* createCustomToken, for the generation pinned or expected; it leaves with the answer.
MintToken(c) ==
  /\ At(c, "mint")
  /\ Pass(c, TRUE)
  /\ custom' = IF custom = 0 THEN second ELSE custom
  /\ UNCHANGED <<second, person, upset>>

\* revokeRefreshTokens, which leaves the account as it is: its generation stays.  When
\* Firebase fails, the outcome that is written is the last step.
RevokeTokens(c, fails) ==
  /\ At(c, "revoke")
  /\ Go(c, IF fails THEN [asks[c] EXCEPT !.left = <<"write">>] ELSE Done(c, "none"))
  /\ IF fails THEN UNCHANGED <<second, person, upset>> ELSE Change(c, [person EXCEPT !.valid = second])
  /\ UNCHANGED custom

\* deleteAccount up to the point where the account is closed; AccountDeletion goes on.
\* Nothing else advances the generation.
Close(c) ==
  /\ At(c, "close")
  /\ IF Expected(c)
     THEN /\ Pass(c, TRUE)
          /\ Change(c, [person EXCEPT !.state = "closing", !.gen = @ + 1])
     ELSE Go(c, Refused) /\ UNCHANGED <<second, person, upset>>
  /\ UNCHANGED custom

ApiNext ==
  \/ SecondPasses
  \/ \E c \in Callers, r \in Routes, t \in Tokens, b \in BOOLEAN : Arrive(c, r, t, b)
  \/ \E c \in Callers, r \in Routes, b \in BOOLEAN : ArriveAsGuest(c, r, b)
  \/ \E c \in Callers : \/ Recent(c) \/ Current(c) \/ Write(c) \/ WriteOn(c) \/ Identity(c) \/ Mark(c)
                        \/ Package(c) \/ Protect(c) \/ Serve(c) \/ Register(c) \/ PinSession(c)
                        \/ MintToken(c) \/ Close(c)
  \/ \E c \in Callers, b \in BOOLEAN : RevokeTokens(c, b)
  \/ \E c \in Callers, a \in {"clear", "subscribed", "conflict", "unavailable"} : Provider(c, a)

ApiSpec == ApiInit /\ [][ApiNext]_apiVars

-----------------------------------------------------------------------------
(* Correctness *)

\* Every part is well formed.
ApiTypeOK ==
  /\ second \in 1 .. MaxSecond
  /\ person \in [state : {"none", "active", "closing"}, gen : 0 .. 2, valid : 0 .. second,
                 conflict : BOOLEAN]
  /\ custom \in 0 .. second
  /\ \A c \in Callers : asks[c].pc \in {"none", "handling", "writing", "wrote", "served"}

\* Nothing is written to an account for a request that was admitted before its
\* deletion began, whichever route it came by and however many steps its handler had
\* taken.  (A revocation of sessions stops no request that was admitted before it: it
\* leaves the generation, and a transaction does not ask Firebase.)
NoLateWrite ==
  \A c \in Callers :
    asks[c].pc = "handling" /\ asks'[c].pc \in {"writing", "wrote"} => Active /\ asks[c].gen = person.gen

\* No package is served to a caller whose sign-in was revoked, whose account was
\* closed or whose identity was found in conflict before the package was looked up.
PackageIsCurrent ==
  \A c \in Callers : asks[c].package /\ asks[c].pc = "served" => ~upset[c]

\* Nothing is done on an authorization that no longer holds: no write outlives the
\* deletion before it, and no package the revocation, the deletion or the conflict.
NothingLate == [][NoLateWrite /\ (ApiTypeOK /\ PackageIsCurrent)']_apiVars
=============================================================================
