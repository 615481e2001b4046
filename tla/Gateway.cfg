\* A ring of three events and up to seven events, so that it overflows and wraps.
SPECIFICATION FairSpec
CONSTANTS
  Cap = 3
  MaxEvents = 7
INVARIANTS
  RingIsNewest
  EventsInOrder
  FreedLast
PROPERTIES
  ShutdownEnds
