SPECIFICATION MCSpec
CONSTANTS
  Visitor = {v, w}
  Restorer = {r, s}
  MaxToggle = 1
  MaxFault = 1
  Last = 3
  Runner = {r, s}
  Keep = 1
  KeepOther = 1
  MaxTime = 1
  MaxTrouble = 2
  Questions = {v, w, few}
  Few = {few}
  Process = {r, s}
  Absent = Absent
  MaxLines = 1
  MaxVersion = 2
  MaxMishap = 1
\* The parts share their model values, of which only one part at a time makes use.
SYMMETRY Symmetry
INVARIANTS TypesOK OnlyStragglersLost StaysShut RunsApart RecordTrue
PROPERTIES VerifiedSurvives
CHECK_DEADLOCK FALSE
