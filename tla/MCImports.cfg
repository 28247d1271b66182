SPECIFICATION FairImportsSpec
CONSTANTS
  p = p  ps = ps  pz = pz  q = q  NoName = NoName
  Names <- MCNames
  Parent <- MCParent
  Sources <- MCNames
  Broken = {pz}
  ImportPrograms <- MCPrograms
CHECK_DEADLOCK FALSE
INVARIANTS ImportsConsistent NothingHalfInitialised PackageFirst BodiesRunOnce
PROPERTIES DeletedStaysDeleted ImportsEnd
