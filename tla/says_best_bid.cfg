SPECIFICATION ServicesSpec
CONSTANTS
  Focuses = {"market"}
  Null = Null
  Calls = {1, 2, 3}
  Prices = {9, 10}
  a1 = a1  a2 = a2
  Assets = {a1}
  Wallets = {w1, w2, w3, w4}
  FirstOwner = w1
  Expiries = {1}
  MaxNow = 0
  Batches <- MCOneAsset
  Casts <- MCBids
  Alone <- MCBids
  NoRow = NoRow
  Contributions = {{"tx1"}, {"tx2"}, {"tx1", "op1"}}
  Submissions = {"s1", "s2"}
  Verifications = {"v1", "v2"}
  Distributions = {"d1"}
  MaxRows = 2
  None = None
  Creations = {"c1", "c2"}
  Deletions = {"x1", "x2"}
  Updates = {"u1", "u2"}
  Urls = {"a", "b"}
  NoPrice = NoPrice
  Tokens = {"ILV", "ETH"}
  AllPrices = "all"
  PriceJobs = {"j1", "j2"}
  Lists <- MCLists
  PriceTtl = 1
  MapTtl = 2
  MaxClock = 3
  CurrentRequests = {"q1", "q2", "q3"}
  Asked <- MCAsked
  DatedRequests = {"d1", "d2"}
  AskedByDate = {"ILV"}
  Together = {{"q1", "q2", "d1"}, {"q1", "q3", "j2"}, {"d1", "d2"}}
  MaxAge = 1
  Day = 2
  Users = {"u", "v"}
  Accounts = {"wallet"}
  Nobody = Nobody
  Links = {1, 2, 3}
  NoToken = NoToken
  Addresses = {"pool"}
  Fetches = {1, 2}
  MaxSupply = 2
PROPERTIES BidRaises
CHECK_DEADLOCK FALSE
