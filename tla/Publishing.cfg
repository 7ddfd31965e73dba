SPECIFICATION LiveSpec
CONSTANT MaxRetries = 3
INVARIANTS TypeOK StopQuiets
PROPERTY ImplementsContract
