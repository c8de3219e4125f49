CONSTANTS
  None = None
  idle = idle
  u1 = u1
  u2 = u2
  u3 = u3
  l1 = l1
  l2 = l2
  e1 = e1
  unknown = unknown
  Procs <- Two
  Idle = idle
  Locks = {l1}
  Events = {e1}
  LoadOrder <- TwoLoaded
  LoadPriority <- TwoPriorities
  MaxPriority = 3
  DefaultQuantum = 2
  IdleQuantum = 1
  Program <- KillsHolder
SPECIFICATION Spec
INVARIANT
  DeadHoldNoLock
