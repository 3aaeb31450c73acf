CONSTANTS
  a1 = a1
  b1 = b1
  k1 = k1
  k2 = k2
  p1 = p1
  p2 = p2
  g1 = g1
  g2 = g2
  z1 = z1
  z2 = z2
  Agents = {a1}
  Others = {b1}
  SigningKeys = {k1, k2}
  Pairs = {p1, p2}
  NoKey = NoKey
  Writers = {g1, g2}
  Readers = {z1, z2}
SYMMETRY Symmetry
SPECIFICATION Spec
INVARIANTS
  HandlersReadWhatWasWritten
  AgreedKeysSuffice
  MisfitsAreClientErrors
  MarkupReadable
