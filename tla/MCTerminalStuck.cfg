SPECIFICATION FairSpec
CONSTANTS
  Pollers = {p1}
  Writers = {w1}
  Closers = {c1}
  BufferBytes = 1
  OutputBytes = 1
  ReadBytes = 1
  PtyBytes = 1
  InputBytes = 1
  Stream = 2
  Free = Free
PROPERTY
  PollReturns
