SPECIFICATION Spec
CONSTANTS
  p1 = p1
  p2 = p2
  p3 = p3
  s1 = s1
  s2 = s2
  o1 = o1
  o2 = o2
  o3 = o3
  o4 = o4
  Proposals = {p1, p2, p3}
  Orders = {o1, o2, o4}
  Strategies = {s1}
  ProposalOf <- MCProposalOf
  StrategyOf <- MCOneStrategy
  Estimated <- MCEstimated
  Counted <- MCEstimated
  MaxSecond = 2
  Runners = {runner}
  Reviewers = {reviewer}
  IncludesReviewed = {}
  CreatesTickets = {reviewer}
  Malformed = {}
  Eligible = {p1, p2}
  WithinLimits = {p1, p2, p3}
  MaxDailyNotional = 2
  MaxFiles = 1
  ReviewLimit = 3
  MaxKills = 1
  runner = runner
  reviewer = reviewer
INVARIANTS
  NoEventWithoutRow
  LedgersAgree
  ReviewBehindTicket
