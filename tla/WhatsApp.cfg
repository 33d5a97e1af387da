SPECIFICATION LiveSpec
CONSTANTS
  w1 = w1
  w2 = w2
  ana = ana
  bia = bia
  stop = stop
  hello = hello
  parcel = parcel
  quoted = quoted
  Workers = {w1, w2}
  Customers = {ana, bia}
  Known = {ana}
  Messages = {stop, hello}
  From <- MCFrom
  Via <- MCVia
  Word <- MCWord
  Notices = {parcel, quoted}
  Phone <- MCPhone
  Kind <- MCKind
  Unreadable = {quoted}
  Statuses = {"failed"}
  BatchSize = 2
  MaxCalls = 2
  MaxReports = 2
  MaxFaults = 1
INVARIANTS TypeOK LateMessagesAreUnderway AcknowledgedIsKept RowsMatchSends FailureIsAnnounced ReceivedIsStored
PROPERTY StopTakesEffect
CHECK_DEADLOCK FALSE
