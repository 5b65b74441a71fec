\* Two friends that may ask and tell each other; the owner has a private and a public IPv4
\* address, a global IPv6 address and a link-local one; lists of two addresses, one packet
\* at a time.
CONSTANTS
  f1 = f1
  f2 = f2
  lan = lan
  nat = nat
  site = site
  a6 = a6
  link6 = link6
  None = None
  V4 = {lan, nat, site}
  V6 = {a6, link6}
  Private = {lan, site}
  Unroutable = {link6}
  FriendIp = site
  MaxIps = 2
  TextLen <- MCTextLen
  Friends = {f1, f2}
  Port = 5000
  NatPort = 40000
  DefaultPort = 1212
  MaxWire = 1
  Told <- MCTold
  Networks <- MCNetworks
  Texts = {3000, 4096}
  Chunks = {2400}
  Names = {300}
SYMMETRY Symmetry
SPECIFICATION Spec
INVARIANT TypeOK
INVARIANT BookSound
INVARIANT OwnersOnly
INVARIANT DatagramFits
PROPERTY KeptUnlessFull
PROPERTY RoutableOnly
