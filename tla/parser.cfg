CONSTANTS
    Inputs <- MCInputs
    Names <- MCNames
    Strings <- MCStrings
    Numbers <- MCNumbers
    Files <- MCFiles
    Plugins <- MCPlugins
SPECIFICATION FairSpec
INVARIANTS TypeOK OwnedOnce DeletedIsGone FailureNoted AsWritten BuildsWritten
PROPERTY Ends
