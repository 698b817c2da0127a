SPECIFICATION EpSpec
CONSTANTS
  EpFds = {5}
  Items = {i1, i2}
  Waiters = {w}
  MaxEvents = 1
  Asked = {{"READ"}}
  NoItem = NoItem
CHECK_DEADLOCK FALSE
PROPERTY
  NothingOfDeleted
