CONSTANTS
    Inputs <- IncludeInputs
    Names <- MCNames
    Strings <- MCStrings
    Numbers <- MCNumbers
    Files <- MCFiles
    Plugins <- MCPlugins
SPECIFICATION Spec
INVARIANT NothingDangling
