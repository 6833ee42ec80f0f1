\* A key whose clients retry one request at a time, and one on which requests
\* overlap and which may be cleaned up under a running one; two payloads, faults.
SPECIFICATION Spec
CONSTANTS
  q1 = q1
  q2 = q2
  q3 = q3
  Keys = {"k1", "k2"}
  Payloads = {"h1", "h2"}
  Requests = {q1, q2, q3}
  Transfers = {"h2"}
  SerialKeys = {"k1"}
  MaxFaults = 2
SYMMETRY Interchangeable
INVARIANTS
  TypeOK
  AnswersHaveEffects
  AtMostOnce
  AnswersMatchPayload
  OneOutcome
PROPERTIES
  ImplementsOutcomes
