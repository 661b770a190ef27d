---------------------------- MODULE MCProvider ------------------------------
(***************************************************************************)
(* What the service and its providers tell each other: RevenueCat's        *)
(* webhook with its reconciliation (MCRevenueCatWebhook), the read of an   *)
(* account's subscriptions, the erasing of the customer, and the identity  *)
(* provider's keys for operators.  Each part takes a provider's answers as *)
(* they may come and keeps what no other of them writes, so each goes by   *)
(* itself: `part' says whose behaviour it is, and the others stand still   *)
(* in an initial state.                                                    *)
(***************************************************************************)
EXTENDS MCRevenueCatWebhook, EntitlementReader, ProviderCustomer, OperatorKeys

VARIABLE part   \* the part this behaviour is of

providerVars ==
  <<vars, readerVars, customerVars, keyVars, part>>

Form(k, st, g, e, t, gr) ==
  [kind |-> k, mine |-> TRUE, status |-> st, gives |-> g, ends |-> e, tx |-> t, grace |-> gr]

MCForms ==
  {Form("premium", "active", TRUE, 1, 1, 0), Form("premium", "active", TRUE, 3, 2, 0),
   Form("premium", "in_grace_period", TRUE, 0, 1, 2), Form("premium", "in_grace_period", TRUE, 1, 1, 2),
   Form("premium", "in_billing_retry", FALSE, 1, 1, 0), Form("premium", "paused", FALSE, 1, 1, 0),
   Form("premium", "expired", FALSE, 1, 1, 0), Form("stray", "active", TRUE, 3, 1, 0),
   Form("gift", "active", TRUE, 3, 1, 0),
   [Form("premium", "active", TRUE, 3, 1, 0) EXCEPT !.mine = FALSE]}

-----------------------------------------------------------------------------
ProviderInit ==
  /\ part \in {"webhook", "reader", "customer", "keys"}
  /\ Init
  /\ ReaderInit   /\ (part # "reader"   => shelf = [s \in Subs |-> NoSub])
  /\ CustomerInit /\ (part # "customer" => customer = [i \in AppUserIds |-> NoCustomer])
  /\ KeysInit     /\ (part # "keys"     => jwks.now = {CHOOSE k \in Kids : TRUE})

Explore(x) ==
  /\ part = x
  /\ UNCHANGED part
  /\ x # "webhook"  => UNCHANGED vars
  /\ x # "reader"   => UNCHANGED readerVars
  /\ x # "customer" => UNCHANGED customerVars
  /\ x # "keys"     => UNCHANGED keyVars

ProviderNext ==
  \/ Explore("webhook")  /\ Next
  \/ Explore("reader")   /\ ReaderNext
  \/ Explore("customer") /\ CustomerNext
  \/ Explore("keys")     /\ KeysNext

ProviderSpec == ProviderInit /\ [][ProviderNext]_providerVars
=============================================================================
