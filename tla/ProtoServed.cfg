SPECIFICATION Spec
CONSTANTS
    Machines <- MCServed
    MaxDepth = 10
    Pipelined <- MCPipelined
INVARIANTS
    TypeOK
    StackBounded
    NoEventSwallowed
PROPERTIES
    ConformingClientServed
    LoopStopsBetweenRounds
CHECK_DEADLOCK FALSE
