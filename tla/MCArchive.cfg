SPECIFICATION ArchiveSpec
CONSTANTS
  dir = dir
  sub = sub
  inner = inner
  one = one
  two = two
  three = three
  meta = meta
  Nil = Nil
  Kids <- MCKids
  Files <- MCFiles
  Hidden <- MCHidden
  Tops <- MCTops
  Base <- MCBase
  Archives <- MCArchives
  MaxSources = 3
  MaxEntries = 5
  MaxBytes = 3
  MaxChanges = 2
INVARIANTS
  ArchiveIsSnapshot
  ExtractedIsWhole
  LimitsKept
  NamesAreUnique
