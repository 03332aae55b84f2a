CONSTANTS
  x1 = x1
  x2 = x2
  a1 = a1
  n1 = n1
  q1 = q1
  q2 = q2
  p1 = p1
  g1 = g1
  A = A
  None = None
  Web = {x1, x2}
  Staff = {a1}
  Naver = {n1}
  Times = {1, 2}
  Rooms = {A}
  Requests = {q1, q2}
  MaxEdits = 3
  Automatic = {ra}
  Manual = {rm}
  CarOf <- SameCar
  Cars = {a, b}
  MaxOthers = 1
  MaxFaults = 2
  Games = {h1, h2}
  Stamped = {h1, h2}
  Goal = 1
  MaxCycles = 3
  Gifts = {w1}
  Callers = {q1, q2}
  MaxPlans <- TwoPlans
  MaxAdjust = 1
  Schedules = {s1}
  Events = {1, 2}
  Devices = {d1, d2}
  Senders = {q1, q2}
  Wakes = {1, 2}
  MaxDays = 2
  MaxUpsets = 1
  ra = ra
  rm = rm
  a = a
  b = b
  d1 = d1
  d2 = d2
  s1 = s1
  h1 = h1
  h2 = h2
  w1 = w1
SPECIFICATION Spec
INVARIANTS CustomerSlot StoreDecides PassesAddUp CouponsAddUp ParkingIsReal ToldOnce
SYMMETRY Alike
CHECK_DEADLOCK FALSE
