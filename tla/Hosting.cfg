CONSTANTS
  Calls = {1, 2, 3, 4}
  NoCall = 0
  MaxTroubles = 1
  Versions = {"8.2", "8.3"}
  DefaultPhp = "8.2"
  Modules = {"docker", "misspelt"}
  Scripted = {"docker"}
  MaxBytes = 3
  Window = 1
SPECIFICATION HostingSpec
INVARIANTS
  TypeOK
  ProvisioningHasWorker ServerAgrees ServesTheFile
  InstalledIsThere OneDefault ServerMatchesRows SetupSumsUp NothingLeftOpen
PROPERTIES
  OwnerDecides RowsAreDecided TerminalEnds
CHECK_DEADLOCK FALSE
