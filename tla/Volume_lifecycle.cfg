SPECIFICATION Spec
CONSTANTS
  Mounters = {m1, m2}
  MaxFormats = 2
  MaxDeaths = 2
  MaxFailures = 2
INVARIANTS DirtyWhileMounted SilentMountIsSafe AlarmIsRight MagicKept
