CONSTANTS
  None = None
  idle = idle
  u1 = u1
  u2 = u2
  u3 = u3
  l1 = l1
  l2 = l2
  e1 = e1
  unknown = unknown
  Procs <- Three
  Idle = idle
  Locks = {l1}
  Events = {e1}
  LoadOrder <- ThreeLoaded
  LoadPriority <- EqualPriorities
  MaxPriority = 3
  DefaultQuantum = 3
  IdleQuantum = 1
  Program <- Sharing
SPECIFICATION FairSpec
PROPERTIES
  ReadyRuns
  SleepersWake
  WaitersGetLock
