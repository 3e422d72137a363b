SPECIFICATION Spec
CONSTANTS
  a = a
  b = b
  ab = ab
  again = again
  ba = ba
  None = None
  Node = {a, b}
  Conn = {ab, again, ba}
  Dialer <- MCDialer
  Acceptor <- MCAcceptor
  Sessions = 2
  Scenarios <- NoFaults
INVARIANTS OneDirection
CHECK_DEADLOCK FALSE
