CONSTANTS
    Modules <- MCModules
    NULL = "NULL"
    Root = "root"
    Config <- MCTree
    Paths <- MCPaths
    NoMatch = "none"
    Texts <- MCTexts
    Empty = ""
    Address = "127.0.0.1"
    Asks <- MCAsks
    Reference <- MCReference
    MaxRequests = 2
SPECIFICATION Spec
INVARIANT SameAnswer
