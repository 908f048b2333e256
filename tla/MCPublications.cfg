SPECIFICATION IndexedSpec
CONSTANTS
  a1 = a1
  a2 = a2
  h1 = h1
  h2 = h2
  k1 = k1
  NoKey = NoKey
  NoPost = NoPost
  Authors = {a1, a2}
  Signers = {"owner", "poster"}
  Capability <- Keyring
  Hashes = {h1, h2}
  Keys = {k1}
  Audiences = {"public"}
  Lifecycle = {"active", "author_hidden", "deleted"}
  MaxSequence = 2
  MaxPublished = 3
SYMMETRY Symmetry
INVARIANTS PostsMirrored SequenceDense OutcomesTraceable EditsChained
