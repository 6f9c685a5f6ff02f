SPECIFICATION FairSpec
CONSTANTS
  broken = broken
  looped = looped
  NoCard = NoCard
  Missing = Missing
  Cards <- MCCards
  Clusters <- MCClusters
  Fat <- MCFat
  File <- MCFile
  SectorUnits = 2
  ClusterSectors = 2
  FatEntries = 4
  Requests = {3}
INVARIANTS BytesInOrder ChainVerdict
PROPERTY DeadCardNoticed
