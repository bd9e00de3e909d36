SPECIFICATION Spec
CONSTANTS
  key = key
  Requests = {r1, r2, r3}
  Keys = {key}
  KeyOf <- MCKeyOf
  Semaphores = {s1, s2, s3}
  Passwords = {p1, p2}
  None = None
SYMMETRY Symmetry
INVARIANTS
  OneInside
  NoConflict
  NoSemaphoreLeft
CHECK_DEADLOCK FALSE
