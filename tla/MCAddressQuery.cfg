\* Two helpers, and two queries at once for the same target.
CONSTANTS
  h1 = h1
  h2 = h2
  q1 = q1
  q2 = q2
  m1 = m1
  Helpers = {h1, h2}
  Queries = {q1, q2}
  Messages = {m1}
  MaxRetries = 1
SYMMETRY Symmetry
SPECIFICATION Spec
INVARIANT TypeOK
INVARIANT OneResult
INVARIANT NotFoundHonest
PROPERTY AskedSparingly
PROPERTY FoundResends
