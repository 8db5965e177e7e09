SPECIFICATION Spec
CONSTANTS
  o1 = o1
  o2 = o2
  lead = lead
  A = A
  B = B
  u = u
  v = v
  x = x
  Ops = {o1, o2}
  Fields = {lead}
  TargetOf <- OneField
  Adapters = {A, B}
  Workers = {u, v, x}
  Home <- Homes
  Nobody = Nobody
  Someone = Someone
  MaxCommands = 8
  MaxOperations = 2
  Instances <- Two
  MaxFaults = 1
INVARIANTS
  MetadataInv
  CreatedOnce
PROPERTIES
  ImplementsConfirmedWrite
