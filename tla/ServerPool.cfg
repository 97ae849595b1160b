SPECIFICATION Spec
CONSTANTS
  f = f
  s1 = s1
  s2 = s2
  Servers = {f}
  Sidecars = {s1}
  Scaling = {f}
  MaxCalls = 1
  MaxHandlers = 2
  MaxFaults = 2
INVARIANTS
  ListedIsWatched
PROPERTIES
  OpenIsListed
  DryIsUnlisted
  GoneIsUnlisted
