\* Two agents, one with two tokens and a session; three requests, orders and
\* expiries in all.
SPECIFICATION AccessSpec
CONSTANTS
  a1 = a1
  a2 = a2
  k1 = k1
  k2 = k2
  k3 = k3
  s1 = s1
  Agents = {a1, a2}
  Collaborators = {a1, a2}
  Nobody = nobody
  Runs = {r1}
  Person = person
  MaxRequests = 3
  Tokens = {k1, k2, k3}
  Sessions = {s1}
  Holder <- HolderOf
  Parent <- ParentOf
  Operators = {p1}
SYMMETRY Symmetry
CHECK_DEADLOCK FALSE
INVARIANTS
  AtMostOneClaimant
  CompletedByARun
  AccessTypeOK
  AdmittedWasOpen
PROPERTIES
  ShutStaysShut
  ImplementsHandOut
