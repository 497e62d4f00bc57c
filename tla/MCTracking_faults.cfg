CONSTANTS
  index = index
  page = page
  Path <- OneFile
  Top <- NoFile
  Faults <- AllFaults
  Commands <- FaultCommands
  Modulus = 1
  MaxPosts = 1
SPECIFICATION Spec
INVARIANTS OneStore BackupFirst RecordsFitBackup
PROPERTIES KeepsPolicy
