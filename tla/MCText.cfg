CONSTANT Linked <- Linkage
SPECIFICATION Spec
CHECK_DEADLOCK FALSE
INVARIANTS
    RegexTrue WordsTrue SearchTrue   
