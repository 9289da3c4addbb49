SPECIFICATION SimSpec
CONSTANTS
  a = a
  b = b
  open = open
  close = close
  EOL = EOL
  NoToken = NoToken
  Tokens <- MCTokens
  Commands <- MCNoBuffer
  MaxDiff = 2
  NlIncr = 2
  TkIncr = 4
  NonFinals = {open}
  NonInitials = {close}
  Openers <- MCOpeners
  Closers <- MCClosers
  Hash1 <- MCHash1
  N_SAMPLES = 2
  Primes <- MCPrimes
INVARIANTS
  RereadExact
CHECK_DEADLOCK FALSE
