\* Three threads, each with up to two nested locks besides its ownership.
SPECIFICATION Spec
CONSTANTS
  Threads = {t1, t2, t3}
  NoThread = NoThread
  MaxLocks = 2
SYMMETRY Symmetry
INVARIANTS
  TypeOK
  LocksAccountedFor
  NoStrangeReason
PROPERTY OwnerReleasesFirst
