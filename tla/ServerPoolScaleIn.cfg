SPECIFICATION Spec
CONSTANTS
  f = f
  s1 = s1
  s2 = s2
  Servers = {f}
  Sidecars = {s1}
  Scaling = {f}
  MaxCalls = 1
  MaxHandlers = 1
  MaxFaults = 0
PROPERTIES
  ScaleInCompletes
