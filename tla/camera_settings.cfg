SPECIFICATION SettingsSpec
CONSTANTS
  Optional = {"denoise", "smart"}
  Attempts = 2
  MaxFaults = 2
  Foreign = {"alien", "main.size"}
  MaxForeign = 1
INVARIANTS SettingsTypeOK ProfilesHold
PROPERTIES ForeignKept VanishNoticed
CHECK_DEADLOCK FALSE
