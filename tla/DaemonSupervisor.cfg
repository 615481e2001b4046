\* One page, three buttons pressed, one configuration stored in between, one fault.
SPECIFICATION DaemonFairSpec
CONSTANTS
  Views = {page}
  page = page
  NumCalls = 3
  MaxSaves = 1
  MaxFaults = 1
INVARIANT
  SupervisedIfSerial
PROPERTIES
  RestartApplies
  PagesConverge
CHECK_DEADLOCK FALSE
