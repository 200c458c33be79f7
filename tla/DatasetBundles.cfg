\* Three sources through every pipeline of scripts, one of which is killed.
SPECIFICATION BundleSpec
CONSTANTS
  Rank <- MCRank
  RepoRank <- MCRepoRank
  Complexity <- MCComplexity
  Root <- MCRoot
  Pools <- MCPools
  Revisions = {1, 2}
  Pinned = 1
  Tura <- MCTura
  Small = 3
  Large = 6
  Panel = 6
  LargerPanel = 7
  SplitSizes <- MCSplitSizes
  Training = 2
  Tiers <- MCTiers
  Repositories = 2
  LegacySizes <- MCLegacySizes
  CanarySize = 1
  MaxKills = 1
INVARIANT SelectionsAreExact
INVARIANT PrefixesAreBalanced
INVARIANT EvaluationsAreOfFrozenTasks
CHECK_DEADLOCK FALSE
