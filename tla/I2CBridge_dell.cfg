SPECIFICATION Spec
CONSTANTS
  codec = codec
  amp = amp
  h1 = h1
  h2 = h2
  u = u
  p1 = p1
  p2 = p2
  v0 = v0
  v1 = v1
  Pm = pm
  NoDev = noDev
  NoPage = noPage
  Default = v0
  Threads = {h1}
  Users = {}
  Devs = {codec}
  Paged = {codec}
  Pages = {p1, p2}
  Vals = {v0, v1}
  Calls <- MCCallsOne
  Mbp131 = FALSE
  LostAck = FALSE
INVARIANTS AddrCoherent
