SPECIFICATION FilesSpec
CONSTANTS
  p1 = p1
  p2 = p2
  p3 = p3
  rpc = rpc
  priority_fee = priority_fee
  number = number
  word = word
  Unset = Unset
  Absent = Absent
  Empty = Empty
  Garbled = Garbled
  Procs <- MCProcs
  Names <- MCNames
  Values <- MCValues
  Numeric <- MCNumeric
  Invalid <- MCInvalid
  Order <- MCOrder
  Asked <- MCAsked
INVARIANTS
  BadSettingCanGo
CHECK_DEADLOCK FALSE
