SPECIFICATION ScriptsSpec
CONSTANTS
    fn1 = fn1
    fn2 = fn2
    key1 = key1
    key2 = key2
    reg = reg
    lab1 = lab1
    Names <- MCNames
    Main = fn1
    Lines <- MCLines
    Regs <- MCRegs
    Arg0 = arg0
    Nil = Nil
    Star = Star
    Sep = Sep
    MaxOps = 3
    MaxDepth = 3
    MaxPairs = 2
    MaxLines = 3
    Fixed32 = 1
    Fixed64 = 2
    MaxGroups = 4
    MaxSkip = 8
    Schema <- MCSchema
    Values <- MCValues
    Foreign <- Newer
    Leads <- MCLeads
    FieldMax = 3
INVARIANTS StaysInside PayloadInv
PROPERTIES CallEnds SkipsWholeFields
CHECK_DEADLOCK FALSE
