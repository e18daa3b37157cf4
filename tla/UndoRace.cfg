SPECIFICATION Spec
CONSTANTS
  s1 = s1
  s2 = s2
  Session <- MCSession
  NoTime <- MCNoTime
  StartAt = 1
  EndAt = 2
  Cutoff = 0
  CorrectionWindow = 0
  UndoWindow = 1
  Grace = 0
  MaxTime = 0
  MaxLag = 1
  MaxLog = 4
SYMMETRY Sym
INVARIANT
  UndoIsOneStepBack
CHECK_DEADLOCK FALSE
