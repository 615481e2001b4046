\* Three addresses for two slots, a TTL of one second, the clock jumping between 0 and 2.
SPECIFICATION ArpSpec
CONSTANTS
  Ips = {ip1, ip2, ip3}
  Macs = {m1, m2}
  MaxEntries = 2
  TTL = 1
  DumpMax = 2
  None = None
  MaxClock = 2
SYMMETRY Symmetry
PROPERTIES
  AnswersCurrent
