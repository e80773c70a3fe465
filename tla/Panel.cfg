CONSTANTS
  Calls = {1, 2, 3, 4, 5}
  NoCall = 0
  MaxTroubles = 1
  Codes = {11}
  MaxFails = 2
  Rules = {1, 2}
  MaxChanges = 4
  Subs = {1, 2}
  Releases = {0, 1, 2}
  NewReleases = {2}
  Hosts = {1, 2}
  Resellers = {1, 2}
  Branches = {"main", "dev"}
  Paths = {"f", "g"}
  FullPaths = {"g"}
  LastMigration = 2
  Engines = {"mysql"}
  Sites = {"a.com"}
  Names = {"web", "api"}
  Images = {"i"}
  Desired = {0, 1}
  MaxVersion = 2
  Values = {"a"}
SPECIFICATION PanelSpec
INVARIANTS
  TypeOK
  ListIsTruth CountersExpire IncidentsAreCurrent BilledRight
  OnceOnly SaidIsDone ServerFollowsRows
CHECK_DEADLOCK FALSE
