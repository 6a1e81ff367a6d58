SPECIFICATION Spec
CONSTANTS
  p1 = p1
  p2 = p2
  a = a
  c = c
  Peers = {p1, p2}
  Subjects = {a, c}
  Fixed = {c}
  MaxStamp = 2
  MaxQueueLen = 1
  MaxEnqueued = 4
  MaxAdded = 2
INVARIANTS
  OnceInOrder
  OneMissPerReplacement
CHECK_DEADLOCK FALSE
