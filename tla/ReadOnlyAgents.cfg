SPECIFICATION Spec
CHECK_DEADLOCK FALSE
CONSTANTS
  Roots <- MCRoots
  KdDirs <- MCKdDirs
  Tools <- MCTools
  Agents <- MCAgents
  Replies <- MCReplies
  Hooks <- MCHooks
  FixedRules <- MCFixedRules
  LocalFiles <- MCLocalFiles
  ConcurrencyLimit = 2
  MaxReplies = 2
  MaxSwitches = 1
INVARIANTS
  ReadersOnlyRead
