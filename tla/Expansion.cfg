SPECIFICATION Spec
CONSTANTS
    ann = ann
    ben = ben
    knows = knows
    bn = bn
    lit = lit
    Null = Null
    NoType = NoType
    BasicTypes <- MCBasicTypes
    Terms <- MCTerms
    Cells <- MCCells
    TermType <- MCTermType
    UnknownTypes <- MCUnknownTypes
    OTTR_TRIPLE <- MCTriple
    DefaultPredicate <- MCDefaultPredicate
    StackDepth = 5
    Expansions <- MCExpansions
INVARIANTS
    TypeOK
    TriplesAreExact
    UniqueSubsetsHold
    
    CyclesAddNothing
    DefaultsAreExact
CHECK_DEADLOCK FALSE
