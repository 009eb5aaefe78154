SPECIFICATION RateSpec
CONSTANTS
  minute = minute
  day = day
  login = login
  message = message
  Calls = {c1, c2}
  Keys = {minute, day, login, message}
  Scripted = {message}
  Routes <- Kinds
  Limit <- SmallLimit
  Window <- SmallWindow
  MaxFaults = 1
INVARIANTS NeverFarOver RefusedAtLimit
PROPERTIES FullCounterEmpties
