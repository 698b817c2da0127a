SPECIFICATION SshSpec
CONSTANT MaxAddrs = 2
CHECK_DEADLOCK FALSE
INVARIANT
  WeAreConnected
