SPECIFICATION Spec
CONSTANTS
  Input = {i1, i2}
  Descr = {d1, d2}
  Unreadable = Unreadable
  NoDescr = NoDescr
  MaxEntries = 3
  MaxFaults = 2
  MaxCrashes = 2
SYMMETRY InputSymmetry
INVARIANTS
  TypeOK
  CacheCoherent
  EntriesReadable
  SavedIndexSound
  InSyncOutsideSave
PROPERTY ImplementsCorpus
