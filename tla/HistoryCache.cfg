CONSTANTS
  Owners = {o1, o2}
  Ids = {i1, i2, i3}
  short = short
  long = long
  Contents = {short, long}
  NoContent = NoContent
  Size <- MCSize
  Overhead = 1
  Ttl = 2
  MaxEntryBytes = 3
  MaxCredentialBytes = 5
  MaxBytes = 7
  MaxCredentialEntries = 2
  MaxEntries = 3
  MaxNow = 4
SYMMETRY Symmetry
SPECIFICATION Spec
INVARIANTS WithinBudgets NeverMisquotes
