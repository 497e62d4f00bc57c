CONSTANTS
  index = index
  page = page
  Path <- OneFile
  Top <- NoFile
  Faults <- NoFaults
  Commands <- ClearCommands
  Modulus = 1
  MaxPosts = 0
SPECIFICATION FairSpec
PROPERTIES ClearedEventually
