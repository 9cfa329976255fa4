CONSTANTS
  a = a  b = b  c = c  x = x  y = y
  Thread = {a, b, c}
  Prio = {1, 2}
  Body = {x, y}
  maxmsg = 3
  Nothing = Nothing
SYMMETRY Symmetric
SPECIFICATION MqSpec
INVARIANT NoneLeftAsleep
