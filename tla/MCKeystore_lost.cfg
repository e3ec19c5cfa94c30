CONSTANTS
  Proc = {q1}
  Key = {k1, k2}
  Password = {p1, p2}
  NoAccount = NoAccount
  NoFile = NoFile
  Partial = Partial
  NoSave = NoSave
  MaxCrash = 0
SPECIFICATION Spec
INVARIANT KeyNeverLost
