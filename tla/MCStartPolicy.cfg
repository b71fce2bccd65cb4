\* One database, all configurations: safety, and serving in the end.
CONSTANTS
  Databases = {d1}
  Configs <- StartConfigs
  MaxChanges = 2
SPECIFICATION FairSpec
INVARIANTS
  ExposureEarned
  ExitHasCause
  GradeIsHonest
  VerdictCoversAnswers
  SettingsHold
PROPERTY ServesInTheEnd

CHECK_DEADLOCK FALSE
