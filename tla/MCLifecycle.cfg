CONSTANTS
  Main = main
  a = a
  b = b
  Threads = {main, a, b}
  chan = chan
  bar = bar
  alt = alt
  Objects = {chan, bar, alt}
  KindOf <- MCKindOf
  In = in
  out1 = out1
  out2 = out2
  EndIds = {in, out1, out2}
  None = None
SPECIFICATION Spec
INVARIANTS CountsEnds UsedIsWhole OutOfReachIsGone MainEndsLast
PROPERTIES ParaRunReturns
