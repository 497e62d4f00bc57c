CONSTANTS
  index = index
  page = page
  Path <- TwoFiles
  Top <- RootFile
  Faults <- NoFaults
  Commands <- MoveCommands
  Modulus = 1
  MaxPosts = 0
SPECIFICATION Spec
PROPERTIES CliKeepsRecords ForgottenOnlyInSync FullPassReports
