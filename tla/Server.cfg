SPECIFICATION Spec
CONSTANTS
  c1 = c1
  c2 = c2
  Clients <- MCClients
  MaxRequests <- MCMaxRequests
INVARIANTS AnswersInOrder InstanceOutlivesWorkers
  
CHECK_DEADLOCK FALSE
