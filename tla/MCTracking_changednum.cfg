CONSTANTS
  index = index
  page = page
  Path <- TwoFiles
  Top <- RootFile
  Faults <- NoFaults
  Commands <- MoveCommands
  Modulus = 4
  MaxPosts = 0
SPECIFICATION Spec
INVARIANTS ChangednumCounts
