SPECIFICATION FairSpec
CONSTANTS
  Pages = {p1}
  MaxPrompts = 2
  MaxFaults = 3
INVARIANTS OutboxMatchesQueue DispatchedOnceInOrder NothingLost
PROPERTY WaitingPromptGoes
CHECK_DEADLOCK FALSE
