SPECIFICATION FairSpec
CONSTANTS
  Contents = {a, b}
  Nothing = Nothing
INVARIANTS FlashExclusive  
PROPERTY SavesEnd
