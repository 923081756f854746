SPECIFICATION Spec
CONSTANTS
  Pools <- MCPools
  Main = main
  grpc = grpc
  Colab = colab
  Updates <- MCUpdates
  Events <- MCEvents
  MinSupport = 2
  Patience = 2
  MaxModels = 3
  MaxPosts = 1
INVARIANT ChampionIsVouched
INVARIANT PromotionIsPatient
INVARIANT RollbackWasChampion
INVARIANT RegistryIsVouched
