SPECIFICATION SocialSpec
CONSTANTS
  a1 = a1
  a2 = a2
  m1 = m1
  m2 = m2
  c1 = c1
  c2 = c2
  web = web
  extension = extension
  Accounts = {a1, a2}
  NoAccount = NoAccount
  MaxEpoch = 5
  MaxNonce = 7
  MessageIds = {m1, m2}
  Envelopes = {c1, c2}
  MaxGeneration = 2
  MaxSequence = 3
  Author = a1
  WebApps = {web}
  Extensions = {extension}
  Forgetful = {}
  MaxKeys = 2
  FewChanges = 3
SYMMETRY Symmetry
INVARIANT RemovedNeverReceives
CHECK_DEADLOCK FALSE
