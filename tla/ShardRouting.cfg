SPECIFICATION Spec
CONSTANTS
    Nodes <- MCNodes
    HashSize = 4
    NoNode <- MCNoNode
    Keys <- MCKeys
    ShardCount = 2
    Placements <- MCPlacements
    RangeTables <- MCRangeTables
    Directories <- MCDirectories
    Requests = {c1, c2}
    MaxWrites = 2
    MaxChanges = 3
INVARIANTS
    TypeOK
    Placed
    Clockwise
PROPERTIES
    OnlyItsKeysMove
    NextInLine
