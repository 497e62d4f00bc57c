CONSTANTS
  page = page
  Path <- OneFile
  Top <- NoFile
  Faults <- ListFaults
  Commands <- ModeCommands
  Modulus = 1
  MaxPosts = 0
SPECIFICATION ReportingFairSpec
PROPERTIES ReportedOnce RowsPair ReportedEventually DetectedEventually RestoredEventually
