CONSTANTS
  w1 = w1
  w2 = w2
  m1 = m1
  m2 = m2
  m3 = m3
  a1 = a1
  a2 = a2
  Handlers = {w1, w2}
  Mails = {m1, m2, m3}
  None = None
  MaxRev = 6
  Desks = {w1, w2}
  Answers = {a1, a2}
  NoAnswer = NoAnswer
  MaxLegalRev = 5
  Subjects = {a1, a2}
  Notices = {w1, w2}
  Nobody = Nobody
  MaxVersion = 1
  MaxIncidentRev = 10
  LastReport = 5
  PageSize = 2
  ScanPages = 2
  ReportLimit = 1
  MaxChanges = 2
SYMMETRY MCSymmetry
CONSTRAINT EarlyOrPrepared
SPECIFICATION DeskSpec
CHECK_DEADLOCK FALSE
INVARIANT DeskHolds
INVARIANT ServedAsVerified
INVARIANT WalkShowsEverything
PROPERTY RevisionNamesRequest
PROPERTY RecordStands
PROPERTY ClosedMeansNotified
