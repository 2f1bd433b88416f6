SPECIFICATION Spec
CONSTANTS
  anna = anna
  boris = boris
  root = root
  i1 = i1
  i2 = i2
  d1 = d1
  d2 = d2
  t1 = t1
  t2 = t2
  t3 = t3
  b1 = b1
  b2 = b2
  Nobody = Nobody
  Users <- MCUsers
  Admin = root
  Invites = {i1, i2}
  Domains = {d1, d2}
  DomainOf <- MCDomainOf
  CodeOf <- MCCodeOf
  OtpLength = 2
  Digits <- MCDigits
  Tabs = {t1, t2, t3}
  Browsers = {b1, b2}
  Browser <- MCBrowser
  Typed <- MCTyped
  Sought = {boris}
  Starts <- MCStarts
  MaxTroubles = 1
CHECK_DEADLOCK FALSE
INVARIANTS
  TypeOK
  OneVerificationAtATime
  OfferedPasswordsAreAccepted
PROPERTIES
  ImplementsAdmission
  CodesAreSentOnce
  BlockedUsersAreOut
  FormsEnd
  SuccessLeadsOn
