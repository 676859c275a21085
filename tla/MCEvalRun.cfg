SPECIFICATION Spec
CONSTANTS
  Me = acme
  Other = globex
  Global = global
  Provider = {"offline", "live"}
  Sightings <- MCSightings
  Malformed = {star, upper}
  Traps <- MCTraps
  Replies <- MCReplies
  Pairs <- MCPairs
  MaxEvals = 3
  MaxTroubles = 2
INVARIANTS
  TypeOK
  NothingIsHidden
  BlindnessBlocks
  NewFailureFailsTheBuild
CHECK_DEADLOCK FALSE
