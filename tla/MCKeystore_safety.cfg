CONSTANTS
  Proc = {q1}
  Key = {k1, k2, k3}
  Password = {p1, p2, p3}
  NoAccount = NoAccount
  NoFile = NoFile
  Partial = Partial
  NoSave = NoSave
  MaxCrash = 2
SPECIFICATION Spec
INVARIANT AccountStored
INVARIANT SingleIdentity
PROPERTY ImplementsVault
