SPECIFICATION FairSpec
CONSTANTS
    s1 = s1
    s2 = s2
    f1 = f1
    f2 = f2
    Submitters = {s1, s2}
    Freezers = {f1, f2}
    Locks <- BothLocks
    LockOf <- OneLock
    SysfsLock = "sysfs_lock"
    Preempt = {s2}
    Nowait = {}
INVARIANTS FrozenMeansUnused NoLostWakeup DeadMeansDrained
PROPERTIES DyingBlocksEntry FreezeCompletes EntryResolves CleanupDrains SleepersRefused
