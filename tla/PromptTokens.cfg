SPECIFICATION Spec
CONSTANTS
    Chars <- SomeChars
    Bodies <- SomeBodies
    Template <- ChatTemplate
    Tokenize <- GreedyTokenize
    Newline = "n"
    Configs <- SomeConfigs
    Responses <- SomeResponses
    MinSave = 1
    MaxRows = 2
    None = None
INVARIANTS TypeOK FullPrefixIsStrict ExactNodeServes MaterializedAnchorServes
PROPERTY GeneratedIsProven
