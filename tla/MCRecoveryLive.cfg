SPECIFICATION LiveSpec
CONSTANTS
  p = p
  q = q
  workspace = workspace
  package = package
  elsewhere = elsewhere
  a = a
  b = b
  yes = yes
  no = no
  other = other
  None = None
  Missing = Missing
  Proc = {p}
  Root = {workspace, package, elsewhere}
  File = {a, b}
  Content = {yes, no}
  FilesUnder <- ThreeRoots
  Mutants <- FlipTwo
  MaxEdits = 1
  MaxCrashes = 1
  MaxPowerLosses = 0
  MaxIoErrors = 1
  EditsAvoidTool = TRUE
  RestoreIsDurable = TRUE
PROPERTIES SourcesComeBack StaysInItsTree
CHECK_DEADLOCK TRUE
