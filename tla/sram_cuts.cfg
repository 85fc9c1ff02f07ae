\* One course; up to three saves and three power cuts, anywhere.
SPECIFICATION Spec
CONSTANTS
  NumCourses = 1
  Bad = Bad
  Nameless = Nameless
  MaxVersion = 3
  MaxCuts = 3
INVARIANTS Durable Kept GhostWhole
PROPERTIES FileStays
