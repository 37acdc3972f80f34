SPECIFICATION WRRSpec
CONSTANTS
  n1 = n1
  n2 = n2
  Node <- TwoNodes
  Client <- TwoClients
  NodeOf <- NodeOfPair
  Weights = {1, 2, 3}
  Edits = {"modify", "delete"}
  NoClient = NoClient
  Unknown = Unknown
INVARIANTS TableIsCurrent Served
PROPERTIES OnlyEditsUnsettle FairShare
SYMMETRY Symmetric
