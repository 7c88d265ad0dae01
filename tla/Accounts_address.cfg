SPECIFICATION Spec
CONSTANTS
  Account = {1, 2}
  Invite = {1, 2}
  Grant = {1, 2}
  Slot = {1, 2}
  MaxTime = 2
  MaxMove = 6
CHECK_DEADLOCK FALSE
INVARIANTS
  SessionsFollowAccount
  NewestPasswordStands
  NoOrphanAdmins
PROPERTIES
  GrantsSetOnce
  DeadLinksGrantNothing
