SPECIFICATION Spec
CONSTANTS
  Admin = {a1, a2}
  Names = {{"wild"}, {"host", "wild"}, {"Host"}}
  Wild = "wild"
  Local = "localhost"
  Lower <- MCLower
  MaxOps = 2
  MaxActive = 2
  MaxCrash = 1
  MaxFault = 1
SYMMETRY Symmetric
INVARIANTS TypeOK FilesServed FailsOnce DefaultServed
\* Nobody may ask for anything.
CHECK_DEADLOCK FALSE
