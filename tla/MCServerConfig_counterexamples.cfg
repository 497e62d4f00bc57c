\* What is not saved and loaded: README 7.  One property at a time, as TLC stops
\* at the first that is violated; ServersReturn needs MaxEdits = 4.
SPECIFICATION Spec
CONSTANTS
  Name = {a, b}
  Seconds <- MCSeconds
  DefaultRoot = 10
  DefaultOther = 60
  Sizes <- MCSizes
  Default = 2
  Total = 4
  Suffix = {txt}
  MaxExcluded = 2
  MaxEdits = 4
INVARIANT ServersReturn
\* INVARIANT SettingsReturn
\* INVARIANT SurvivesWrite
