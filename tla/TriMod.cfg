SPECIFICATION Spec
CONSTANTS
  Val = {v1, v2, v3}
INVARIANTS OneDamaged ReadRestores NeverGivenUp
