------------------------------ MODULE OperatorKeys ------------------------------
(***************************************************************************)
(* The keys that operators' tokens are verified with: a cache with the age *)
(* the provider allows, one fetch at a time that every request of its time *)
(* waits for, and a fetch of its own for a key the cache does not have,    *)
(* which may be asked for once per cooldown.  The provider rotates its     *)
(* keys meanwhile.                                                         *)
(*                                                                         *)
(* The tokens are well formed, of a known operator, unexpired and signed;  *)
(* what a request does between two awaits is one step, and the requests    *)
(* that wait for one fetch go on in one step when it ends.  Emptying the   *)
(* table of unknown kids at a thousand is left out.                        *)
(***************************************************************************)
EXTENDS Naturals

CONSTANTS Askers,       \* requests of operators
          Kids,         \* the keys there may be
          MaxAge,       \* max-age of the key set
          Cooldown,     \* UNKNOWN_KID_COOLDOWN_MS
          FetchLimit,   \* JWKS_TIMEOUT_MS
          MaxTick, MaxTurns   \* bounds

ASSUME KeysAssumption ==
  {MaxAge, Cooldown, FetchLimit, MaxTick, MaxTurns} \subseteq Nat

VARIABLES
  tick,
  jwks,      \* what the provider publishes; history: until when each key was published
  turns,     \* rotations so far
  cache,     \* keys and expiresAt
  refresh,   \* the fetch in flight: since when, what it was answered; refreshGeneration
  unknown,   \* unknownKids: of each kid, until when it is not asked for again (0: not there)
  nextForced,\* nextUnknownKidRefreshAt
  asker,     \* each request
  spaced     \* history: when the last fetch for an unknown kid began, and whether all were a cooldown apart

keyVars == <<tick, jwks, turns, cache, refresh, unknown, nextForced, asker, spaced>>

NoFetch == [pc |-> "none", since |-> 0, keys |-> {}]
Silent  == [pc |-> "none"]

KeysInit ==
  /\ tick = 0 /\ turns = 0
  /\ \E k \in Kids : jwks = [now |-> {k}, last |-> [i \in Kids |-> 0]]
  /\ cache = [keys |-> {}, until |-> 0]
  /\ refresh = NoFetch
  /\ unknown = [k \in Kids |-> 0]
  /\ nextForced = 0
  /\ asker = [a \in Askers |-> Silent]
  /\ spaced = [at |-> 0, ever |-> FALSE, ok |-> TRUE]

\* A fetch takes FetchLimit at most.
Tick ==
  /\ tick < MaxTick /\ (refresh.pc # "none" => tick < refresh.since + FetchLimit)
  /\ tick' = tick + 1
  /\ jwks' = [jwks EXCEPT !.last = [k \in Kids |-> IF k \in jwks.now THEN tick' ELSE @[k]]]
  /\ UNCHANGED <<turns, cache, refresh, unknown, nextForced, asker, spaced>>

RotateKeys(keys) ==
  /\ turns < MaxTurns /\ turns' = turns + 1
  /\ keys # jwks.now
  /\ jwks' = [now |-> keys, last |-> [k \in Kids |-> IF k \in keys THEN tick ELSE jwks.last[k]]]
  /\ UNCHANGED <<tick, cache, refresh, unknown, nextForced, asker, spaced>>

-----------------------------------------------------------------------------
(* verifyAndAuthorize *)

Reply(how, k)  == [pc |-> how, kid |-> k, at |-> tick]
WaitFor(stage, k) == [pc |-> stage, kid |-> k]

\* loadKeys joins the fetch in flight, or begins one.
Join == refresh' = IF refresh.pc = "none" THEN [NoFetch EXCEPT !.pc = "asked", !.since = tick] ELSE refresh

\* loadKeys uses the cache while it is fresh; a slip: whenever it has something.
CacheFresh_Filled(c) == c.until > 0
CacheFresh(c)        == c.until > tick

\* The cache is used while it is fresh, or the fetch is waited for.
AskWithoutKeys(a, k) ==
  /\ asker[a].pc = "none" /\ ~CacheFresh(cache)
  /\ Join
  /\ asker' = [asker EXCEPT ![a] = WaitFor("first", k)]
  /\ UNCHANGED <<tick, jwks, turns, cache, unknown, nextForced, spaced>>

AskKnown(a, k) ==
  /\ asker[a].pc = "none" /\ CacheFresh(cache) /\ k \in cache.keys
  /\ asker' = [asker EXCEPT ![a] = Reply("accepted", k)]
  /\ unknown' = [unknown EXCEPT ![k] = 0]
  /\ UNCHANGED <<tick, jwks, turns, cache, refresh, nextForced, spaced>>

AskTooSoon(a, k) ==
  /\ asker[a].pc = "none" /\ CacheFresh(cache) /\ k \notin cache.keys
  /\ unknown[k] > tick \/ nextForced > tick
  /\ asker' = [asker EXCEPT ![a] = Reply("refused", k)]
  /\ UNCHANGED <<tick, jwks, turns, cache, refresh, unknown, nextForced, spaced>>

\* A fetch for the unknown kid; a slip: the cooldown is set when the kid turns out unknown.
NextForced_Kept == nextForced
NextForced      == tick + Cooldown

AskUnknown(a, k) ==
  /\ asker[a].pc = "none" /\ CacheFresh(cache) /\ k \notin cache.keys
  /\ unknown[k] <= tick /\ nextForced <= tick
  /\ nextForced' = NextForced
  /\ Join
  /\ spaced' = IF refresh.pc # "none" THEN spaced
               ELSE [at |-> tick, ever |-> TRUE, ok |-> spaced.ok /\ (spaced.ever => tick >= spaced.at + Cooldown)]
  /\ asker' = [asker EXCEPT ![a] = WaitFor("forced", k)]
  /\ UNCHANGED <<tick, jwks, turns, cache, unknown>>

FetchAnswered ==
  /\ refresh.pc = "asked"
  /\ refresh' = [refresh EXCEPT !.pc = "answered", !.keys = jwks.now]
  /\ UNCHANGED <<tick, jwks, turns, cache, unknown, nextForced, asker, spaced>>

InWait(a) == asker[a].pc \in {"first", "forced"}

\* The keys are kept, and every request that waits looks its kid up in them: the set is
\* newer than the request, so none asks again.
FetchEnds ==
  /\ refresh.pc = "answered"
  /\ refresh' = NoFetch
  /\ cache' = [keys |-> refresh.keys, until |-> tick + MaxAge]
  /\ asker' = [a \in Askers |->
                 IF ~InWait(a) THEN asker[a]
                 ELSE Reply(IF asker[a].kid \in refresh.keys THEN "accepted" ELSE "refused", asker[a].kid)]
  /\ LET looked == {asker[a].kid : a \in {b \in Askers : InWait(b)}} IN
     unknown' = [k \in Kids |-> IF k \notin looked THEN unknown[k]
                                ELSE IF k \in refresh.keys THEN 0 ELSE tick + Cooldown]
  /\ UNCHANGED <<tick, jwks, turns, nextForced, spaced>>

\* Refused, late, too long, not a key set, a kid twice: all who wait are refused.
FetchFails ==
  /\ refresh.pc # "none" /\ refresh' = NoFetch
  /\ asker' = [a \in Askers |-> IF InWait(a) THEN Reply("refused", asker[a].kid) ELSE asker[a]]
  /\ UNCHANGED <<tick, jwks, turns, cache, unknown, nextForced, spaced>>

AskerLeaves(a) ==
  /\ asker[a].pc \in {"accepted", "refused"}
  /\ asker' = [asker EXCEPT ![a] = Silent]
  /\ UNCHANGED <<tick, jwks, turns, cache, refresh, unknown, nextForced, spaced>>

KeysNext ==
  \/ Tick
  \/ \E ks \in (SUBSET Kids) \ {{}} : RotateKeys(ks)
  \/ \E a \in Askers : \/ AskerLeaves(a)
                       \/ \E k \in Kids : AskWithoutKeys(a, k) \/ AskKnown(a, k)
                                         \/ AskTooSoon(a, k) \/ AskUnknown(a, k)
  \/ FetchAnswered \/ FetchEnds \/ FetchFails

KeysSpec == KeysInit /\ [][KeysNext]_keyVars

-----------------------------------------------------------------------------
\* However requests share fetches and the provider rotates: a token is accepted no later
\* than the age of the key set and one fetch after its key was last published, and the
\* provider is asked for unknown kids no more than once per cooldown.
KeysAreRecent ==
  /\ \A a \in Askers : asker[a].pc = "accepted" =>
       jwks.last[asker[a].kid] + MaxAge + FetchLimit >= asker[a].at
  /\ spaced.ok

=============================================================================
