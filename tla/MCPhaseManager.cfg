SPECIFICATION Spec
CONSTANTS
  Reported <- MCReported
  Unreliable = TRUE
PROPERTIES
  HopsAreReal
  MutationIsLicensed
