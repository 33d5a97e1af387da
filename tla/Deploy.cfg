SPECIFICATION Spec
CONSTANTS
  p = p
  e = e
  v = v
  j1 = j1
  j2 = j2
  Droplets = {p, e, v}
  Role <- MCRole
  Jobs = {j1, j2}
  Commands <- MCCommands
  MaxVersion = 3
  Published = {1, 2}
  Clones = {v}
  Tagged = {p, v}
  HistoryLimit = 2
  Pairs = {"old", "new", "junk"}
  MaxFaults = 2
SYMMETRY JobSymmetry
INVARIANTS TypeOK ReportIsTrue ImagesAreTheRightOnes HistoryIsUsable DownIsReported
CHECK_DEADLOCK FALSE
