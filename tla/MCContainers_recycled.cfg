CONSTANTS
  Null = Null
  Junk = Junk
  BlocksPerPage = 2
  MaxPages = 2
  Queue = {q1, q2}
  Data = {d1, d2}
  Object = {o1, o2, o3}
  Limit = 5
  Capacity <- Capacities
  FirstWord <- FirstWords
  Left = {Junk, o1}
  Item = {i1, i2}
  ItemSize = 2
  Default = 4
  Request <- Requests
  Wrap = 16
  Word <- Words
  Datum = {d1, d2}
  Malloced = {7}
  MaxItems = 9
  FirstLen = 2
  MaxLen = 4
  Part = {"pool"}
SPECIFICATION Spec
PROPERTY UnregisteredAreRefused
CHECK_DEADLOCK FALSE
