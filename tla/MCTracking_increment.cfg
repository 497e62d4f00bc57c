CONSTANTS
  index = index
  page = page
  Path <- OneFile
  Top <- NoFile
  Faults <- NoFaults
  Commands <- PauseCommands
  Modulus = 1
  MaxPosts = 1
SPECIFICATION Spec
PROPERTIES IncrementAfterPause
