CONSTANTS
  w1 = w1
  w2 = w2
  c1 = c1
  c2 = c2
  c3 = c3
  Handlers = {w1, w2}
  Claims = {c1, c2, c3}
  None = None
  MaxTruth = 2
  MaxFence = 4
  \* reader
  LastSub = 2
  Forms <- MCForms
  PageRows = 1
  PolicyUntil = 2
  MaxInstant = 2
  MaxChanges = 1
  \* customer
  Me = "me"
  Anonymous = {"anon1", "anon2"}
  Strangers = {"other"}
  AliasRows = 1
  MaxPages = 3
  MaxAttached = 2
  MaxCalls = 2
  \* keys
  Askers = {w1, w2}
  Kids = {"k1", "k2"}
  MaxAge = 1
  Cooldown = 2
  FetchLimit = 1
  MaxTick = 4
  MaxTurns = 2
SYMMETRY MCSymmetry
SPECIFICATION ProviderSpec
CHECK_DEADLOCK FALSE
INVARIANT MailedOnce
INVARIANT DeliveriesTellTheStory
INVARIANT AnswerIsEarned
INVARIANT DeletionIsExact
INVARIANT KeysAreRecent
PROPERTY ObservationHolds
