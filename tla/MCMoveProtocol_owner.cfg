SPECIFICATION Spec
CONSTANTS
  Strategy = {"copy_publish_delete"}
  Id = {1, 2, 3, 4, 5, 6, 7, 8, 9}
  Original = 1
  NoId = 0
  MaxFaults = 1
  MaxTouched = 1
PROPERTIES OwnCopiesOnly
CHECK_DEADLOCK FALSE
