SPECIFICATION ReaperSpec
CONSTANTS
  v1 = v1
  e1 = e1
  i1 = i1
  i2 = i2
  Resources = {v1}
  KindOf <- OneVolume
  Invocations = {i1, i2}
  Grace = 2
  NoFlag = NoFlag
  Garbled = Garbled
  Nobody = Nobody
  MaxUses = 2
  MaxMishaps = 2
INVARIANTS
  EarlyReapsNeedReuse
  OneNoticePerReap
PROPERTIES
  OrphansAreReaped
CHECK_DEADLOCK FALSE
