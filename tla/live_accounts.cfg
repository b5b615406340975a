SPECIFICATION FairSpec
CONSTANTS
  abroad = abroad
  home = home
  job = job
  refresher = refresher
  capture = capture
  Positions = {abroad, home}
  Foreign = {abroad}
  Portfolios <- MCPortfolios
  Reporters = {job}
  Refreshers = {refresher}
  Quotes = {3}
  Rates = {3}
  NoQuote = NoQuote
  Missing = Missing
  NoFile = NoFile
  TornFile = TornFile
  MaxEdits = 2
  MaxRefreshes = 1
  MaxKills = 1
  Captures = {capture}
  Writers = {job, capture}
  MaxSecond = 2
  Dates = {1, 2}
  DateOf <- MCDateOf
  BooksAt <- MCBooksAt
  MaxCaptures = 2
  MaxEvents = 3
INVARIANTS
  ValuesFollow
  DailyPnlIsTheDifference
  UnifiedIsOneCut
PROPERTIES
  ReplacedIsBackedUp
  NothingTakenBack
  SyncsRevalue
  TableFollowsFile
