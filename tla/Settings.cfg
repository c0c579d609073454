SPECIFICATION Spec
INVARIANTS
  TypeOK
  CaptiveIsChosen
  ChoiceSurvives
PROPERTIES
  ChoiceShown
