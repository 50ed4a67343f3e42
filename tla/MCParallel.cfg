\* Scenarios of one to three blocks of one to four commands.
CONSTANTS
    Plans <- OneToThreeBlocks
    MaxBlocks = 3
    MaxCommands = 4
SPECIFICATION FairSpec
INVARIANTS VerdictExact Accounted
PROPERTIES EvidenceKept ExecuteReturns
