CONSTANTS
  Owners = {o1, o2}
  Ids = {c1, c2}
  a = a
  b = b
  plain = plain
  wide = wide
  Items = {a, b}
  Metadata = {plain, wide}
  Batches <- MCBatches
  Turns = {t1, t2}
  NoEntry = NoEntry
  NoTurn = NoTurn
  DocumentOverhead = 1
  MetadataBytes <- MCMetadataBytes
  Ttl = 1
  MaxConversationBytes = 3
  MaxCredentialBytes = 4
  MaxBytes = 5
  MaxCredentialEntries = 2
  MaxEntries = 2
  MaxItems = 2
  MaxNow = 2
SYMMETRY Symmetry
VIEW Visible
SPECIFICATION Spec
INVARIANTS WithinBudgets LeaseIsExclusive
PROPERTY KeepsPromise
