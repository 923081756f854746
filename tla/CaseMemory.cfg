SPECIFICATION MemorySpec
CONSTANTS
  a1 = a1
  a2 = a2
  routine = routine
  broad = broad
  Team <- MCTeam
  Kinds <- MCKinds
  Traits <- MCTraits
  Similarity <- MCSimilarity
  Versions = {v1, v2}
  Intents <- MCIntents
  MaxItems = 2
  Ttl = 1
INVARIANT BypassRestsOnAnalysis
INVARIANT DeepAnalysisIsAsked
