SPECIFICATION Spec
CONSTANTS
  shoes = shoes
  phone = phone
  NoLimit = NoLimit
  NotANumber = NotANumber
  Modes = {TRUE, FALSE}
  Clients = {c1, c2}
  Lists <- ListsOfTwo
  Limits <- AnyLimit
  MaxPublished = 3
  MaxRequests = 3
INVARIANTS
  TypeOK
  OneList
  NoTimeTravel
CHECK_DEADLOCK FALSE
