\* One upgrade to a release that works; nothing fails.
CONSTANTS
  Releases = {1, 2}
  Broken = {}
  Flaky = {}
  Breaking = {}
  MaxRow = 1
  MaxEdit = 0
  MaxStumble = 0
SPECIFICATION UpgradeSpec
INVARIANT LockedWhileChanged
CHECK_DEADLOCK FALSE
