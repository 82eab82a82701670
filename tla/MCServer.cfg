CONSTANTS
  Names = {alice}
  Passwords = {p1, p2}
  Tokens = {t1}
  Handlers = {h1, h2}
  Sockets = {c1}
  Nobody = Nobody
  NoPassword = NoPassword
  NoToken = NoToken
  TTL = 1
  MaxTime = 1
  MaxChain = 1
SPECIFICATION FairServerSpec
INVARIANTS NothingOutlivesTheDatabase IdentityIsEarned
PROPERTY ShutdownCompletes
CHECK_DEADLOCK FALSE
