\* Three sessions, two requests of the page, one restart of the bridge; three of the
\* bounded events in a behaviour, a second button counting for two.
SPECIFICATION SessionsFairSpec
CONSTANTS
  MaxRuns = 3
  NumRequests = 2
  MaxSamples = 1
  MaxChoices = 1
  MaxRestarts = 1
  MaxEvents = 3
INVARIANTS ActiveIsOpen
PROPERTIES PageFollows
CHECK_DEADLOCK FALSE
