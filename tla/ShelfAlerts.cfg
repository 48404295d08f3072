SPECIFICATION FairSpec
CONSTANTS
  Cell = {c1}
  NConfirm = 2
  NClear = 1
  OscWindow = 3
  MaxHistory = 3
  MaxAlerts = 2
  MaxClicks = 1
  MaxFailures = 1
INVARIANTS
  ListedIsOpen
  OneOpenPerCell
PROPERTIES
  AlertsAreConfirmed
  EveryAlertShown
