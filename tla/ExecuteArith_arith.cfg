CONSTANTS
  MaxWords = 24
  Variables <- MC_Variables
  Images <- MC_Images
  Numbers <- MC_Numbers
  Inputs <- MC_Inputs
SPECIFICATION Spec
INVARIANTS Computes
PROPERTIES Ends
CHECK_DEADLOCK FALSE
