SPECIFICATION MCSpec
CONSTANTS
  None = None  e1 = e1  e2 = e2  i1 = i1
  Reports = {e1, e2}
  Kinds <- SomeKinds
  MaxRows = 2
  MaxReportTries = 2
  Clerks = {c1}
  Admins = {a1}
  MaxReportFaults = 1
  Pushed = {n1}
  Tokens = {d1, d2}
  Workers = {w1, w2}
  MaxAttempts = 3
  MaxRuns = 2
  MaxFaults = 3
  SessionIds = {s1}
  Callers = {q1, q2}
  CacheTtl = 2
  AccessLife = 3
  RefreshLife = 4
  MaxDelay = 1
  MaxClock = 4
  RiderUsers = {"rider"}
  Chats = {"ORDER_CHAT", "CUSTOMER_MERCHANT"}
  Desks = {k1, k2}
  Keep = 1
  PageSize = 1
  MaxMessages = 2
  Instances = {i1, i2}
  Calls = {k1, k2}
  Day = 2
  MaxHour = 3
  MaxRestarts = 1
  MaxAddresses = 4
  Tabs = {k1, k2}
  Requests = {q1, q2}
  MaxEntries = 4
  MaxReplies = 3
  MaxLostDesks = 1
  MaxJobs = 3
  JobAttempts = 3
  MaxStalls = 1
  DeskAdmins = {k1, k2}
  MaxQueueFaults = 3
INVARIANTS  PaymentsAgree SessionsAgree MessagesAgree  DefaultIsOne TicketAgrees LetterAgrees
PROPERTIES OutcomeIsFinal HistoryIsKept PushSettles
CHECK_DEADLOCK FALSE
