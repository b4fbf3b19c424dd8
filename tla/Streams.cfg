SPECIFICATION Spec
CHECK_DEADLOCK FALSE
CONSTANTS
  MaxPieces = 2
  MaxIds = 2
  MaxStreams = 3
INVARIANTS RecordedWhole NeverSilent RequestPaired
