SPECIFICATION Spec
CONSTANTS
  p = p
  q = q
  workspace = workspace
  package = package
  elsewhere = elsewhere
  a = a
  b = b
  yes = yes
  no = no
  other = other
  None = None
  Missing = Missing
  Proc = {p, q}
  Root = {workspace, package}
  File = {a, b}
  Content = {yes, no, other}
  FilesUnder <- NestedRoots
  Mutants <- FlipLiteral
  MaxEdits = 1
  MaxCrashes = 0
  MaxPowerLosses = 0
  MaxIoErrors = 0
  EditsAvoidTool = FALSE
  RestoreIsDurable = TRUE
PROPERTY NeverRestoresOverAnEdit
CHECK_DEADLOCK TRUE
