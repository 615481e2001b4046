\* Two buttons of one page, each pressed while the other's request is under way.
SPECIFICATION DaemonSpec
CONSTANTS
  Views = {page}
  page = page
  NumCalls = 3
  MaxSaves = 0
  MaxFaults = 0
INVARIANT SingleGateway
CHECK_DEADLOCK FALSE
