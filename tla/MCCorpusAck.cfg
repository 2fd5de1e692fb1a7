SPECIFICATION Spec
CONSTANTS
  Input = {i1, i2}
  Descr = {d1}
  Unreadable = Unreadable
  NoDescr = NoDescr
  MaxEntries = 2
  MaxFaults = 1
  MaxCrashes = 0
PROPERTY AddOkMeansPersisted
