\* Two databases behind an exposed listener: serving is held for ever.
CONSTANTS
  Databases = {d1, d2}
  Configs <- NetworkOnly
  MaxChanges = 1
SPECIFICATION FairSpec
PROPERTY ServesInTheEnd
CHECK_DEADLOCK FALSE
