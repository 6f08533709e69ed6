SPECIFICATION Spec
CONSTANTS
  Nobody = Nobody
  Runs = {r1, r2, r3}
  Reviewers = {v1, v2}
  Setups <- MCSetups
  Hints <- MCHints
SYMMETRY Symmetry
INVARIANTS
  TypeOK
  AnswersStand
  SettledUnlessCrashed
PROPERTIES
  OnceSpec
  TasksAreCalledFor
