SPECIFICATION Spec
CONSTANTS
  alice = alice
  bob = bob
  plain = plain
  custom = custom
  Peer = {alice, bob}
  Observed = alice
  Config = {plain, custom}
  TokenCount = {1, 3}
  BatchMaxTokens = 3
  MaxMessages = 3
INVARIANT OnlyWhatTheySaw
CHECK_DEADLOCK FALSE
