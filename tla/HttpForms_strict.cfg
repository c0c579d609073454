SPECIFICATION Spec
CONSTANTS
  Bodies <- MCBodies
  Texts <- MCTexts
  FirstKey <- MCFirstKey
  SecondKey <- MCSecondKey
  BodyMax = 9
  ValueMax = 3
  TextMax = 4
  IndexMax = 11
INVARIANT
  MalformedRefused
