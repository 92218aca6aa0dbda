SPECIFICATION FairValidatorSpec
CONSTANTS
  c1 = c1
  Validations = {c1}
  MaxConcurrent = 2
  Deadline = 2
  StartDelay = 1
  MaxTime = 5
INVARIANTS ValidatorInvariant VerdictsAreTrue
PROPERTIES ValidateReturns
