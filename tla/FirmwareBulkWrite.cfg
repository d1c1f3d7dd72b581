CONSTANTS
  a1 = a1
  a2 = a2
  v0 = v0
  v1 = v1
  Addr = {a1, a2}
  Value = {v0, v1}
  Zero = v0
  Programs <- MCPrograms
SPECIFICATION Spec
PROPERTY
  BulkWriteFindsItsRegister
