CONSTANTS
  NoUser = NoUser
  Users = {ann, bob}
  Staff = {ann}
  Products = {tea}
  Calls = {1, 2}
  MaxClicks = 4
  MaxCuts = 1
SPECIFICATION AccountSpec
PROPERTIES
  LogoutHolds
CHECK_DEADLOCK FALSE
