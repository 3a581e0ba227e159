SPECIFICATION Spec
CONSTANTS
  Pollers = {p1, p2}
  Writers = {w1}
  Closers = {c1}
  BufferBytes = 2
  OutputBytes = 1
  ReadBytes = 2
  PtyBytes = 1
  InputBytes = 2
  Stream = 3
  Free = Free
SYMMETRY ClientSymmetry
INVARIANTS
  TypeOK
  WindowIsTail
  NoLostWakeup
  ReplyIsHonest
PROPERTY
  ExitIsLast
