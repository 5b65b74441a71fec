\* One address change, from an IPv4 to an IPv6 address, and a relay that knows the friend;
\* with an IPv6 address of before, there are more addresses than a record of two holds.
CONSTANTS
  r1 = r1
  r2 = r2
  MaxVersion = 3
  Start = 2
  IPv6 = {1, 3}
  MaxIps = 2
  Offline = {}
  Relays = {r1}
  Mutual = {r1}
  MaxTries = 1
  MaxPushes = 1
SPECIFICATION FairSpec
INVARIANT TypeOK
INVARIANT ConfirmedIsTold
INVARIANT TrackedUntilConfirmed
PROPERTY GossipsUnconfirmed
PROPERTY EventuallyConfirmed
