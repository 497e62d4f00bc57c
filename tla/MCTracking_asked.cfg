CONSTANTS
  index = index
  page = page
  Path <- OneFile
  Top <- NoFile
  Faults <- NoFaults
  Commands <- ModeCommands
  Modulus = 1
  MaxPosts = 0
SPECIFICATION FairSpec
PROPERTIES AskedRestoreHappens
