SPECIFICATION MCSpec
CONSTANTS
  c1 = c1
  p1 = p1
  p2 = p2
  p3 = p3
  p4 = p4
  f1 = f1
  E = E
  F = F
  EventTypes <- MCEventTypes
  DeadLetter = DeadLetter
  Callers <- MCCallers
  Publishers <- MCPublishers
  Failures <- MCFailures
  NoOwner = NoOwner
  MaxId = 3
  Additions <- MCAdditions
INVARIANTS LanesExclusive OneGatePerListener NoDeliveryAfterRemoval
PROPERTY PublishReturns
