CONSTANT MaxBlock <- Seven
SPECIFICATION Spec
INVARIANTS
  TypeOK
  Compact
  IncompleteRangesExact
  
PROPERTY ImplementsCompletedBlocks
