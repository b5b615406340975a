SPECIFICATION FairSpec
CONSTANTS
  s1 = s1
  s2 = s2
  s3 = s3
  lab = lab
  run1 = run1
  run2 = run2
  Unit = 1200
  Alpha = 60
  PValues = {24, 36, 600}
  Missing = Missing
  Signatures = {s1, s2, s3}
  Recorders = {lab}
  Evaluators = {run1, run2}
  RawOf <- MCRawOf
  Levels = {12, 24, 36, 48, 60, 72, 108, 600, 1199}
  MaxTrials = 3
  MaxRecords = 2
  MaxKills = 1
INVARIANTS
  TypeOK
  CorrectedUnlessBehind
  CorrectionsAreTheProcedures
PROPERTIES
  BacktestsAreCorrected
CHECK_DEADLOCK FALSE
