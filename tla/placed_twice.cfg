SPECIFICATION TradingSpec
CONSTANTS
  p1 = p1
  p2 = p2
  s1 = s1
  o1 = o1
  o2 = o2
  runner = runner
  reviewer = reviewer
  approver = approver
  submitter = submitter
  submitter2 = submitter2
  Proposals = {p1}
  Orders = {o1}
  Strategies = {s1}
  ProposalOf <- MCProposalOf
  StrategyOf <- MCStrategyOf
  Estimated <- MCEstimated
  Counted <- MCEstimated
  MaxSecond = 2
  Runners = {runner}
  Reviewers = {}
  IncludesReviewed = {}
  CreatesTickets = {}
  Malformed = {}
  Eligible = {p1}
  WithinLimits = {p1}
  MaxDailyNotional = 9
  MaxFiles = 2
  ReviewLimit = 2
  MaxKills = 1
  Approvers = {approver}
  Submitters = {submitter}
  SubmitsApproved = {submitter}
  NoOrder = NoOrder
  OrderLimit = 2
  SubmitEnabled = TRUE
  MaxApprovals = 2
  MaxPlaced = 2
  MaxDeaths = 1
INVARIANTS
  OneOrderPerApprovalThroughDeaths
