CONSTANTS
  Threads = {t1}
  Objects = {o1}
  Progs = {p1, p2}
  Lists = {l1}
  None = None
  Unread = Unread
  MaxCalls = 2
SPECIFICATION Spec
PROPERTIES ErrorIsRaised
CHECK_DEADLOCK FALSE
