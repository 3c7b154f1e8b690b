\* The same template and command lines, and nothing that fails but the sync of a
\* directory on a platform without it.
CONSTANTS
  Files <- MCFiles
  Kind <- MCKind
  Mentions <- MCMentions
  Template <- MCTemplate
  Options <- MCOptions
  Upper <- MCUpper
  Domains <- MCDomains
  MaxFaults = 0
  MaxForced = 0
SPECIFICATION FairSpec
PROPERTY UnsupportedSyncTolerated
