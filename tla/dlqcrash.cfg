SPECIFICATION Spec
CONSTANTS
  c1 = c1 c2 = c2 s1 = s1 q1 = q1 dlq1 = dlq1 dlq2 = dlq2
  DlqOf <- MCDlqOf
  Main = Main TimeoutLoop = TimeoutLoop ExpiryLoop = ExpiryLoop
  NoTask = NoTask NoQueue = NoQueue NoConsumer = NoConsumer
  Conns = {c1, c2}
  Subs = {s1}
  Queues = {q1, dlq1}
  MaxDeliveries <- OneDelivery
  Configured = {q1}
  Publishers = {c1}
  Consumers = {c1, c2}
  Nackers = {c1, c2}
  Lossy = {}
  Slow = {}
  Targets = {q1}
  Priorities = {0}
  QueueTypes = {"FIFO"}
  Ttls = {FALSE}
  MaxMessages = 2
  MaxSends = 1
  MaxCount = 0
  MaxCrashes = 1
  MaxDbFailures = 0
INVARIANTS Held
CHECK_DEADLOCK FALSE
