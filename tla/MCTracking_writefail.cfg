CONSTANTS
  index = index
  page = page
  Path <- OneFile
  Top <- NoFile
  Faults <- WriteFaults
  Commands <- ModeCommands
  Modulus = 1
  MaxPosts = 0
SPECIFICATION Spec
PROPERTIES ForgottenOnlyInSync
