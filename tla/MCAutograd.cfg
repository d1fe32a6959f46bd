SPECIFICATION Spec
CONSTANTS
  Types = {f16, f32}
  MaxVars = 4
  MaxCalls = 6
CHECK_DEADLOCK FALSE
SYMMETRY TypeSymmetry
 
PROPERTIES GradientsAreDerivatives HookSeesFinalGradient
