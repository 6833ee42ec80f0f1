\* Two overlapping requests with one key both take effect.
SPECIFICATION Spec
CONSTANTS
  q1 = q1
  q2 = q2
  q3 = q3
  Keys = {"k1"}
  Payloads = {"h1"}
  Requests = {q1, q2}
  Transfers = {"h1"}
  SerialKeys = {}
  MaxFaults = 0
INVARIANTS
  DuplicateSafe
