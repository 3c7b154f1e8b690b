\* One file of each kind, fifteen command lines, any two faults and one --force.
CONSTANTS
  Files <- MCFiles
  Kind <- MCKind
  Mentions <- MCMentions
  Template <- MCTemplate
  Options <- MCOptions
  Upper <- MCUpper
  Domains <- MCDomains
  MaxFaults = 2
  MaxForced = 1
SPECIFICATION FairSpec
INVARIANTS SuccessIsComplete FilesWhole AlignedRerunIsIdle
PROPERTY UndisturbedRunSucceeds
