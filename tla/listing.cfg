CONSTANTS
    Lines <- MCLines
    Sites <- MCSites
SPECIFICATION FairSpec
INVARIANTS TypeOK LinkLeadsBack LinksDiffer TypesAsWritten SameType
PROPERTY Answered
