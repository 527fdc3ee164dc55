\* One release that exits while it loads the agent's identity; nothing else goes wrong.
CONSTANTS
  MaxVersion = 2
  Hangs = {}
  Dies = {}
  IdentityDies = {2}
  MaxSet = 1
  MaxOutage = 0
  MaxKill = 0
  MaxIOError = 0
SPECIFICATION UpdaterSpec
PROPERTY NeverOffTheBus
CHECK_DEADLOCK FALSE
