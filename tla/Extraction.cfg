SPECIFICATION FairSpec
CONSTANT Units <- MCUnits
INVARIANTS TypeOK SearchExact EmbeddedClosed ExtractedExact
PROPERTY PassEnds
