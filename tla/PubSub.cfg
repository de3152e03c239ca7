SPECIFICATION Spec
CONSTANTS
  u1 = u1
  u2 = u2
  p1 = p1
  p2 = p2
  g = g
  Users = {u1, u2}
  TopicIds = {"t"}
  Callers = {p1, p2, g}
  Acts <- MixedActs
  Ops <- MixedOps
  InitialTopics = {}
  QueueCap = 1
  MaxCalls <- FewCalls
INVARIANTS UserSideIsServed BothSidesAgree SubscribersAreServed
