CONSTANTS
  A = A
  B = B
  C = C
  D = D
  I = I
  J = J
  None = None
  Threads = {t1, t2}
  Daemons = {t2}
  Classes <- MCClasses
  Requested = {A, B, C, D}
  Base <- MCBase
  Interfaces <- MCInterfaces
  Uses <- MCUses
  InterfaceClasses = {I, J}
  FinalClasses = {B}
  WithDefaults = {I}
  Unverifiable = {I}
  Throwing = {A}
SPECIFICATION FairSpec
INVARIANTS OneInitializer SupersFirst
PROPERTIES TrueMeansUsable CallsReturn
