SPECIFICATION UsersSpec
CONSTANT BufLens = {1, 100}
CHECK_DEADLOCK FALSE
INVARIANT
  RootIsFound
