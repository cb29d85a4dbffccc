SPECIFICATION FairSpec
CONSTANTS
  Client <- TwoClients
  Link <- OneLink
  k1 = k1
  k2 = k2
  l1 = l1
INVARIANTS ReadyMeansBound
PROPERTIES ProcessEnds TokenHoldersEnd HeartbeatGoesOn
CHECK_DEADLOCK FALSE
