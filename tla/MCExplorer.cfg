\* The session with these constants, the trees and the diagrams with those
\* MCExplorer gives them.
SPECIFICATION MCSpec
CONSTANTS
  r1 = r1
  r2 = r2
  Fetchers <- TwoFetchers
  Settings <- TwoSettings
  MaxVersion = 2
  MaxSets = 2
  MaxLosses = 1
  Schemas <- SchemasToDraw
  MaxDepth = 3
  KLMaxRounds = 20
  StubLen = 1
  AlignSweeps = 2
  Lanes = 1
CHECK_DEADLOCK FALSE
INVARIANTS
  NoStaleMetadata SettingsSurvive
  PartsAgree EdgesAgree ListedIsFound FoundIsListed DiscoveredOnce LaidOut Placed
