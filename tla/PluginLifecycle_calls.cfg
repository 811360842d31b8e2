CONSTANTS
  core = core
  old = old
  new = new
  coreName = coreName
  extName = extName
  toolA = toolA
  toolB = toolB
  Plugins = {core, old, new}
  Names = {coreName, extName}
  NameOf <- MCNameOf
  Builtin = {core}
  Tools = {toolA, toolB}
  ToolsOf <- MCToolsOf
  Clients = {c1, c2}
  Boot = boot
  None = none
  MaxInstalls = 2
  MaxFaults = 1
  MaxCrashes = 1
SPECIFICATION Spec
SYMMETRY ClientSymmetry
VIEW Distinct
INVARIANTS RegisteredIsServed NoOrphans GuardMatchesLoad CapableIsActive RegisteredIsActive
PROPERTIES StartRevivesBuiltins StartKeepsChoices
CHECK_DEADLOCK FALSE
