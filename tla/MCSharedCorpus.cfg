SPECIFICATION Spec
CONSTANTS
  InputA = {a}
  InputB = {b}
  Unreadable = Unreadable
  NoDescr = NoDescr
  Mixture = Mixture
  MaxEntries = 2
  MaxFaults = 1
  MaxCrashes = 1
INVARIANTS
  IdsAreStems
  EntriesWhole
PROPERTY AnswersWereGiven
