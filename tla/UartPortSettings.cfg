CONSTANTS
  a = a
  Threads = {t1, t2}
  Devices = {a}
  NoDevice = noDevice
  Elsewhere = elsewhere
  Configs <- MCConfigs
  Default <- MCDefault
  Initial <- MCInitial
  MaxFd = 2
  MaxLength = 2

SPECIFICATION Spec
SYMMETRY Symmetry
INVARIANT SettingsAsAsked
