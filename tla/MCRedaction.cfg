\* The claim of the redaction check, when a database was away while it ran.
CONSTANTS
  Databases = {d1}
  Configs <- Redacted
  MaxChanges = 1
SPECIFICATION Spec
INVARIANT VerifiedMeansNowhere
CHECK_DEADLOCK FALSE
