\* two servers, three backups in two seconds, a fault and an administrator
SPECIFICATION Spec
CONSTANTS
    s1 = s1
    s2 = s2
    Servers = {s1, s2}
    None = None
    Schedules <- KeepOne
    MaxBackups = 3
    MaxSeconds = 2
    MaxFaults = 1
    MaxEdits = 1
SYMMETRY Symmetry
INVARIANTS TypeOK CompletedIsRestorable RestoresWhatWasVerified InProgressIsOwned
PROPERTIES CleanupLeavesABackup
CHECK_DEADLOCK FALSE
