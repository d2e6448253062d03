SPECIFICATION Spec
CONSTANTS
  SearchPage = 50
  ResultLimit = 10
  Usps <- States
  NoState = NoState
  NoKind = "NoKind"
  Worlds <- Country
  Order <- Sources
  Zipped <- Zips
  Json <- JsonSources
  Regions <- RegionTable
  Divisions <- DivisionTable
  CpiAreas <- CpiTable
  Publishes <- PublishTable
  Changes <- ChangeTable
  Vendored <- Geocorr
  MaxFaults = 0
  HudPages <- HudTable
  BeaRows <- BeaTable
  SeriesPerRequest = 2
  BlsListed <- ListedSeries
  BlsDefault <- LastThree
  BlsRows <- BlsTable
  OneYearThreshold = 65
  CensusRows <- CensusTable
  ThisYear = 2026
  Today <- LastOfYear
  MaxPeriods = 4
  QcewRows <- QcewTable
  Asks <- Calls
  Releases = 1
CHECK_DEADLOCK FALSE
INVARIANT LeaderIsAnswered
