SPECIFICATION Spec
CONSTANTS
  root = root
  root2 = root2
  c1 = c1
  c2 = c2
  ad1 = ad1
  sa1 = sa1
  e0 = e0
  e1 = e1
  Root = root
  Emails = {e1}
  Accounts = {root, c1, c2}
  KindOf <- MCKindOf
  EmailOf <- MCEmailOf
  Codes = {o1, o2}
  ResetTokens = {k1, k2}
  Invitations = {}
  InviteTokens = {}
  InviteKinds = {}
  MaxAttempts = 2
  Requests = {r1, r2}
  None = None
SYMMETRY Symmetry
INVARIANTS TypeOK CodeTriesBounded ResetTokenInOnePlace
