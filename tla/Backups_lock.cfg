\* Two runs over two days: crashes, failed steps, lost writes, stale locks
\* and a retention command that deletes what is a day old.
SPECIFICATION BackupFairSpec
CONSTANTS
    Runs = {1, 2}
    KeepDays = 0
    MaxDay = 2
    MaxDumps = 9
    MaxBackupFaults = 2
INVARIANTS
    VerifiedIsThere
    NewestIsKept
PROPERTIES
    LockIsFreed
CHECK_DEADLOCK FALSE
