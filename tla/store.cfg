SPECIFICATION Spec
CONSTANTS
  i1 = i1
  i2 = i2
  t1 = t1
  t2 = t2
  t3 = t3
  o1 = o1
  o2 = o2
  Item = {i1, i2}
  Transfer = {t1, t2, t3}
  Object = {o1, o2}
  ItemOf <- ItemMap
  FilesOf <- FileMap
  None = None
  Starts <- Scenarios
INVARIANTS
  DeliverableComplete
  ReceiptMeansDeliverable
  
PROPERTIES
  PendingRecognised
  LeasedDataKept
  ImplementsShelf
CHECK_DEADLOCK FALSE
