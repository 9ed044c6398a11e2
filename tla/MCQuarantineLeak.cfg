SPECIFICATION Spec
CONSTANTS
    Openers = {o1, o2}
    NoOpener = NoOpener
    Snapshots <- MCSnapshots
    Claims <- MCClaims
    Row <- BlankRow
    LineCount <- MCLineCount
    Asks <- MCAsks
    BackupNames <- MCBackupNames
    Repositories <- BlankRepositories
    Unsettled <- MCUnsettled
    LateRows <- MCLateRows
INVARIANTS
    QuarantineIsIsolation
