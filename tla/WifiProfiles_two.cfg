SPECIFICATION Spec
CONSTANTS
  Ssids = {home, office}
  Passwords = {old}
  ProfileMax = 2
  Tasks = {httpd, validator}
PROPERTY
  OnlyTheRequestedGoes
