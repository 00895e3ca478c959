SPECIFICATION Spec
CONSTANTS
  h1 = h1
  h2 = h2
  c1 = c1
  c2 = c2
  c3 = c3
  p1 = p1
  p2 = p2
  p3 = p3
  t = t
  s1 = s1
  s2 = s2
  None = None
  Host = {h1, h2}
  Call = {c1, c2, c3}
  Proxy = {p1, p2, p3}
  Target = {t}
  Supervisor = {s1, s2}
  MayUnlink = {p1}
  MayLink <- Relinks
  HostOf <- Hosts
  TargetOf <- OneClass
  SupervisorOf <- Supervised
  ProxyOf <- Calls
  KindOf <- Kinds
CONSTRAINT LinksOrTwoHosts
CHECK_DEADLOCK FALSE
INVARIANTS
  TypeOK
  OwnReply
  ReplyFindsFuture
  Accounted
  InOrder
  Reported
PROPERTY CallsReturn
