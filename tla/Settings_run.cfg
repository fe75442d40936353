\* One interface of each type, two queues with one parameter set besides the
\* driver's own.
SPECIFICATION FairSpec
CONSTANTS
  Vifs = {"wlan0"}
  Types = {"AP", "STATION", "ADHOC"}
  Filters <- MCFilters
  Queues = {0, 1}
  Params = {"p"}
  Confs <- MCConfs
  Bsses <- MCBsses
INVARIANTS
  SettingsHold
  Unaddressed
PROPERTIES
  Reloaded
