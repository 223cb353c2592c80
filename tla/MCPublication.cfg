\* Two jobs that bundle and publish the outputs of two runs.
CONSTANTS
  r1 = r1
  r2 = r2
  g1 = g1
  Jobs = {j1, j2}
  Runs = {r1, r2}
  Tasks = {t1, t2}
  Goldens = {g1}
  Outputs <- SomeOutputs
  Attempts = 2
  MaxBundles = 2
  MaxVersion = 3
SPECIFICATION Spec
SYMMETRY JobSymmetry
INVARIANTS TypeOK SuccessPublished
PROPERTY ImplementsArchive
