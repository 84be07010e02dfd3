CONSTANTS
  NoUser = NoUser
  Users = {ann, bob}
  Staff = {ann}
  Products = {tea}
  Calls = {1, 2}
  MaxClicks = 5
  MaxCuts = 1
SPECIFICATION AccountSpec
PROPERTIES
  OwnDataOnly
CHECK_DEADLOCK FALSE
