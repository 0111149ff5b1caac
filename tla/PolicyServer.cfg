CONSTANTS
  Clients = {c1, c2}
  Prompts = {p1}
  Unset = Unset
  Unknown = Unknown
  ViewerQueue = 1
SPECIFICATION ViewedSpec
CHECK_DEADLOCK FALSE
INVARIANTS ServedUnderItsPrompt WaiterHearsWhy NothingLeftAtStop
PROPERTIES FinishedBeforeOpening EveryRequestIsSettled StopIsHonoured DrainIsNotWaitedFor
