\* Two address changes, nothing to announce after the first; a relay that knows the
\* friend and one that does not.
CONSTANTS
  r1 = r1
  r2 = r2
  MaxVersion = 3
  Start = 1
  IPv6 = {}
  MaxIps = 3
  Offline = {2}
  Relays = {r1, r2}
  Mutual = {r1}
  MaxTries = 1
  MaxPushes = 1
SPECIFICATION Spec
INVARIANT UnconfirmedTracked
