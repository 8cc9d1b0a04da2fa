CONSTANTS
  Kinds <- MCKinds
  Lists <- MCLists
  MaxCopies = 2
  MaxDisks = 4
  Messages = {zero, other}
  ZeroMessage = zero
  Internal = {sha1, xor}
  SHA1 = sha1
  GCrypt = {md5, whirlpool}
  GCryptOfLoader = {md5}
  NoAlgorithm = NoAlgorithm
  Domains = 2
  None = None
SPECIFICATION Spec
INVARIANTS LoadedPlacesLikeSaved SecondFileIsFirst
