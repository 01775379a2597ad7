SPECIFICATION Spec
CONSTANTS
  p1 = p1
  p2 = p2
  p3 = p3
  edge = edge
  chrome = chrome
  None = None
  Pass = {p1, p2, p3}
  Channels <- MCChannels
  MaxCalls = 2
  MaxClients = 3
  MaxOrphans = 1
SYMMETRY Symmetry
INVARIANTS TypeOK CleanStart OwnBrowser NoBrowserLeft
PROPERTIES StaysInItsBrowser
