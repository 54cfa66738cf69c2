SPECIFICATION Spec
CONSTANTS
  root = root
  root2 = root2
  c1 = c1
  c2 = c2
  ad1 = ad1
  sa1 = sa1
  e0 = e0
  e1 = e1
  Root = root
  Emails = {e0, e1}
  Accounts = {root, root2, ad1, sa1}
  KindOf <- MCKindOf
  EmailOf <- MCEmailOf
  Codes = {}
  ResetTokens = {}
  Invitations = {i1, i2}
  InviteTokens = {t1, t2}
  InviteKinds = {"admin", "super_admin", "expert"}
  MaxAttempts = 1
  Requests = {r1, r2}
  None = None
SYMMETRY Symmetry
INVARIANTS PrivilegedBySuperAdmin
PROPERTIES UsedInvitationIsClosed
