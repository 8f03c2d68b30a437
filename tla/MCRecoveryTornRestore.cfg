SPECIFICATION Spec
CONSTANTS
  p = p
  q = q
  workspace = workspace
  package = package
  elsewhere = elsewhere
  a = a
  b = b
  yes = yes
  no = no
  other = other
  None = None
  Missing = Missing
  Proc = {p, q}
  Root = {workspace, package}
  File = {a, b}
  Content = {yes, no, other}
  FilesUnder <- NestedRoots
  Mutants <- FlipLiteral
  MaxEdits = 2
  MaxCrashes = 2
  MaxPowerLosses = 1
  MaxIoErrors = 1
  EditsAvoidTool = TRUE
  RestoreIsDurable = FALSE
INVARIANT Recoverable
CHECK_DEADLOCK TRUE
