SPECIFICATION Spec
CONSTANTS
  Ssids = {home, office, phone, cafe}
  Passwords = {old, new}
  ProfileMax = 3
  Tasks = {httpd}
INVARIANTS
  TypeOK
  OneProfilePerNetwork
PROPERTIES
  OnlyTheRequestedGoes
  ImplementsProfileList
