SPECIFICATION Spec
CONSTANTS
  anna = anna
  d1 = d1
  d2 = d2
  d3 = d3
  p1 = p1
  p2 = p2
  p3 = p3
  w1 = w1
  w2 = w2
  w3 = w3
  e1 = e1
  e2 = e2
  chat = chat
  r1 = r1
  r2 = r2
  t1 = t1
  t2 = t2
  t3 = t3
  Nobody = Nobody
  Depts = {d1, d2, d3}
  People = {p1, p2, p3}
  Users = {root, anna}
  Account <- MCAccount
  Sought = {p2}
  Workspaces = {w1, w2, w3}
  Structures <- MCStructures
  Models = {e1, e2, chat}
  PurposeOf <- MCPurposeOf
  Requests = {r1, r2}
  Authors = {anna}
  Admin = root
  Tabs = {t1, t2, t3}
  UserOf <- MCUserOf
  Starts <- MCStarts
CHECK_DEADLOCK FALSE
INVARIANTS
  TypeOK
  CoverageIsNearest
  AppliedIsDesired
PROPERTIES
  LocalMembersAreKept
  ImplementsModelLifecycle
  OnlyOverlapsShareAnAlias
  DecisionsStand
  CommandsEnd
