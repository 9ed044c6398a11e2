SPECIFICATION FairSpec
CONSTANTS
    Openers = {o1, o2}
    NoOpener = NoOpener
    Snapshots <- MCSnapshots
    Claims <- MCClaims
    Row <- MCRow
    LineCount <- MCLineCount
    Asks <- MCAsks
    BackupNames <- MCBackupNames
    Repositories <- MCRepositories
    Unsettled <- MCUnsettled
    LateRows <- MCLateRows
INVARIANTS
    MigratedIsRecoverable
    ReadyMigrates
    RowsAccountedFor
PROPERTIES
    LayoutChanges
    KeptFiles
    EveryOpenEnds
