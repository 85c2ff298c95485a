CONSTANTS
  k1 = k1
  k2 = k2
  x1 = x1
  x2 = x2
  m1 = m1
  m2 = m2
  mail = mail
  phone = phone
  None = None
  Item = {1, 2}
  Key = {k1, k2}
  Call = {x1, x2}
  Quantity = {0, 1, 2}
  Shown = {1}
  Asks <- AllAsks
  Opening <- TwoBelow
  Vendor = {1, 2, 3}
  Monitor = {m1, m2}
  Par <- ParOfTwo
  Terms <- AllTerms
  Policies <- AllPolicies
  Contact <- Details
  Known = {1, 2}
  Preset <- FirstVendor
  PresetTerms <- PerPack
  MaxCheckItems = 2
  MaxOrders = 3
  MaxRevision = 2
  Edits <- AllEdits
SPECIFICATION PurchasingSpec
CONSTRAINTS OneOrTheOther InOrder
INVARIANTS OneDraft OnOrderIsCounted DraftsMatchStock RejectedStaysHeld LedgerAddsUp KeyAppliedOnce
PROPERTIES DecidedIsFinal PausedMeansNoCheck EditsAreCurrent
CHECK_DEADLOCK FALSE
