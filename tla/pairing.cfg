SPECIFICATION FairSpec
CONSTANTS
  Calls = {c1, c2}
  Sockets = {1, 2}
  MaxDevices = 2
  MaxPaired = 1
  MaxPinAttempts = 1
  MaxCrashes = 1
  MaxReloads = 1
  MaxTroubles = 2
INVARIANTS PairedIsTrusted OwnProofAccepted RepliesAreAwaited
PROPERTY Reconnects
CHECK_DEADLOCK FALSE
