\* Two runs of the program and a short process at a time; the account and two friends,
\* or two accounts and a friend.
CONSTANTS
  c1 = c1
  c2 = c2
  t1 = t1
  k1 = k1
  k2 = k2
  k3 = k3
  None = None
  Clients = {c1, c2}
  Tools = {t1}
  Keys = {k1, k2, k3}
SYMMETRY Symmetry
CONSTRAINT FewFriends
ACTION_CONSTRAINT OneChange
SPECIFICATION Spec
INVARIANT TypeOK
INVARIANT OneClient
INVARIANT LockResidueNeedsKill
INVARIANT StoreOnDisk
INVARIANT FriendsKept
INVARIANT SelfIsNoFriend
