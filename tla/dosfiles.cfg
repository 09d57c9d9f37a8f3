\* Open files under a shell and a program that share, close and exit.
SPECIFICATION Spec
CONSTANTS
  shell = shell
  program = program
  fcb1 = fcb1
  Processes <- MCProcesses
  Root = shell
  FcbBlocks <- MCFcbBlocks
  Names = {"A"}
  DOS_FILES = 3
  DefaultFiles = 2
  Spare = 0
  MaxFiles = 3
  HandleCounts = {1, 3}
  Misuses = {}
INVARIANT RefsCounted
PROPERTY KeepsReferences
