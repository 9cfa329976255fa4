CONSTANTS
  a = a  own = own
  Thread = {a, own}
  Outside = {a}
  Obj = {o1}
  Inst = {p1, p2}
  MaxHeld = 2
  MaxCount = 1
  None = None
SYMMETRY Symmetric
CHECK_DEADLOCK FALSE
SPECIFICATION Spec
INVARIANTS RefExact NeverStuck InstanceLive ItemsSound
PROPERTIES SingletonSafe
