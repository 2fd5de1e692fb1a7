SPECIFICATION Spec
CONSTANTS
  Input = {i1, i2}
  Descr = {d1}
  Unreadable = Unreadable
  NoDescr = NoDescr
  MaxEntries = 2
  MaxFaults = 0
  MaxCrashes = 1
PROPERTY CrashKeepsAcknowledged
