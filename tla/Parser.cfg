SPECIFICATION Spec
CONSTANTS
  Name = {"X", "Y", "F"}
  Rtype = {"r", "is"}
  Etype = {"Any", "Person"}
  Samples <- MCSamples
INVARIANTS RoundTrip FollowsPriorities NamesAreKept CopyIsFaithful
CHECK_DEADLOCK FALSE
