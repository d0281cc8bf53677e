SPECIFICATION Spec
CONSTANTS
  Request = {r1, r2, r3}
  r1 = r1
  r2 = r2
  r3 = r3
  Main = main
  NoId = noId
  Body <- MCBody
PROPERTIES
  DefaultKept
  OnlyDefaultUnlessOvertaken
CHECK_DEADLOCK FALSE
