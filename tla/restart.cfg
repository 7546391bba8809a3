SPECIFICATION Spec
CONSTANTS
  c1 = c1 c2 = c2 s1 = s1 q1 = q1 dlq1 = dlq1 dlq2 = dlq2
  DlqOf <- MCDlqOf
  Main = Main TimeoutLoop = TimeoutLoop ExpiryLoop = ExpiryLoop
  NoTask = NoTask NoQueue = NoQueue NoConsumer = NoConsumer
  Conns = {c1, c2}
  Subs = {s1}
  Queues = {q1}
  MaxDeliveries <- AllDefault
  Configured = {}
  Publishers = {c1}
  Consumers = {c2}
  Nackers = {}
  Lossy = {}
  Slow = {}
  Targets = {q1}
  Priorities = {0, 1}
  QueueTypes = {"FIFO", "LIFO"}
  Ttls = {FALSE}
  MaxMessages = 2
  MaxSends = 2
  MaxCount = 0
  MaxCrashes = 1
  MaxDbFailures = 1
INVARIANTS Durable QueueRowFirst OneQueueType
PROPERTIES ServedInOrder
CHECK_DEADLOCK FALSE
