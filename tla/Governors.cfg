CONSTANTS
  Origins = {persona, guest}
  CapPrefixes <- MCPrefixes
  Globs <- MCGlobs
  HostPats <- MCHostPats
  Asked <- MCAsked
  Paths <- MCPaths
  NoArg = NoArg
  MaxRules = 2
  MaxLinks = 2
SPECIFICATION PolicySpec
CHECK_DEADLOCK FALSE
SYMMETRY OriginSymmetry
INVARIANTS
  OnlyGranted
  GlobsAsDocumented
PROPERTY RulesAndLinksNarrow
