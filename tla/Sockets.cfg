\* More slots than descriptors, so that calls fail half way.
SPECIFICATION Spec
CONSTANTS
  Tasks = {t1, t2, t3}
  Slots = {s1, s2, s3, s4}
  Fds = {f1, f2, f3}
  NoTask = NoTask
  NoSlot = NoSlot
  NoFd = NoFd
SYMMETRY Symmetry
\* When every slot is lost to closesocket and all tasks are idle, nothing can
\* happen any more.
CHECK_DEADLOCK FALSE
INVARIANTS
  TypeOK
  NoOrphanSlot
  NoOrphanFd
  OpenLeadsToOwn
