CONSTANTS
  NoFlavor = NoFlavor
  Star = Star
  NoPosition = NoPosition
  NoManifest = NoManifest
  FlavorNames = {base, network, node}
  AssetLists <- Lists
  MaxTables = 3
  Letters = {a, b}
  MaxPattern = 5
  MaxText = 5
  Repos = {1, 2, 3}
  RepoName <- Names
  RecipeRepo = 3
  Tags <- SomeTags
  FirstTag <- OneTag
SPECIFICATION Spec
CHECK_DEADLOCK FALSE
INVARIANTS
  ResolvesAll
  ComposesUpward
  GlobExact
  BuildsOnChange
