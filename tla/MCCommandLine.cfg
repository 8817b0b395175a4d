SPECIFICATION Spec
CONSTANTS
  Word <- MCWord
  Path <- MCPath
  Contents <- MCContents
  Number <- MCNumber
  Result <- MCResult
  MaxWords = 4
  DefaultAbbr = "rule.abbr"
  DefaultDependence = "dependence.mk"
  DefaultThreads = 5
  Threshold = 10
INVARIANT OptionsTaken
INVARIANT OnlyTheResult
