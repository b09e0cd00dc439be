CONSTANTS
  u1 = u1 u2 = u2
  a1 = a1
  k1 = k1 k2 = k2
  o1 = o1 o2 = o2
  c1 = c1 c2 = c2
  None = None
  User = {u1, u2}
  Ceremony = {a1}
  Slot = {k1, k2}
  direct = direct backlog = backlog login = login exchange = exchange shaky = shaky
  Setting = {direct, backlog, login, exchange, shaky}
  MethodOf <- MCMethodOf
  MaxTokens <- MCMaxTokens
  FaultKinds = {"down", "refused", "lost", "oauth", "denied", "crash"}
  MaxFaults <- MCMaxFaults
  Op = {o1, o2}
  Content = {c1, c2}
  WithArtifact = {c1}
  MaxVersion <- MCMaxVersion
  Submitted <- MCSubmitted
  Earlier <- MCEarlier
  MaxRequests <- MCMaxRequests
SPECIFICATION Spec
CHECK_DEADLOCK FALSE
INVARIANT TypeOK
INVARIANT NothingSentUnrecorded
INVARIANT SettledTruthfully
INVARIANT ArtifactsFirst
INVARIANT OutageShowsLatest
INVARIANT RevokedStaysRevoked
INVARIANT CredentialKept
PROPERTY RelaysAreKept
PROPERTY EveryRelaySettles
