SPECIFICATION FairSpec
CONSTANTS
  w1 = w1
  w2 = w2
  NoConn = NoConn
  Ids = {w1, w2}
  Called <- Names2
  First = {w1}
  Statuses = {"provisioning", "online"}
  Names = {1, 2}
  Found = {2}
  MaxChanges = 1
  MaxFaults = 1
  MaxOps = 1
INVARIANTS CursorOnARow OneLineEach OneSocket
PROPERTIES Converges DropsAreMended
