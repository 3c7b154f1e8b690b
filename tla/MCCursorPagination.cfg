\* Three Items, pages of one or two, a cursor that can expire during the walk.
CONSTANTS
  Clients = {c1}
  IDs = {1, 2, 3}
  DefaultPageSize = 1
  MaxPageSize = 2
  TTL = 2
  MaxSkew = 1
  MaxKey = 1
  MaxTime = 3
SPECIFICATION Spec
INVARIANTS PagesInOrder WalkComplete AlwaysContinues
PROPERTIES CursorLifetime
CHECK_DEADLOCK FALSE
