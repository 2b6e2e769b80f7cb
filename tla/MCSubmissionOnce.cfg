SPECIFICATION Spec
CONSTANTS
  p1 = p1  p2 = p2
  r1 = r1  r2 = r2  r3 = r3
  c1 = c1  c2 = c2
  e1 = e1  e2 = e2
  a1 = a1
  Procs = {p1, p2}
  Requests = {r1, r2, r3}
  Clients = {c1, c2}
  EconKeys = {e1, e2}
  Accounts = {a1}
  ClientOf <- MCClientOf
  EconOf <- MCEconOf
  KeyAccount <- MCKeyAccount
  NoRequest = NoRequest
  NoClient = NoClient
  Recovered = {"FILLED"}
  FillStates = {"FILLED"}
  MaxTime = 0
  MaxAudit = 3
  MaxSync = 1
SYMMETRY ProcSymmetry
INVARIANTS AtMostOneSend ResolvedWasDelivered
PROPERTY ImplementsOnceOnly
CHECK_DEADLOCK FALSE
