CONSTANTS
  Threads = {t1, t2}
  Objects = {o1, o2}
  Progs = {p1, p2, p3}
  Lists = {l1, l2}
  None = None
  Unread = Unread
  MaxCalls = 3
SPECIFICATION Spec
INVARIANTS TypeOK NoUseAfterDestroy LendsAlone
PROPERTIES RootsAreLent UnhandledErrorIsRaised
SYMMETRY Symmetry
CHECK_DEADLOCK FALSE
