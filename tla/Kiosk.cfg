CONSTANTS
  e1 = e1
  v1 = v1
  v2 = v2
  w1 = w1
  g1 = g1
  m1 = m1
  None = None
  Nobody = Nobody
  Guests = {g1, m1}
  Paid <- GamesPaid
  MaxCmds = 2
  MaxTurns = 1
  Visits = {e1, v1, v2}
  NSlots = 2
  Web = {w1}
  WebSlot <- OneSlot
  Parties <- PartySizes
  MaxRev <- Drafts
  MaxGames <- GamesOf
  Sizes = {1, 2}
  Benefits = {0, 1}
  Price <- Prices
  MaxGen = 3
  MaxSaves = 2
  MaxAssigns = 2
  MaxTeams = 1
  MaxQuotes = 1
  MaxFaults = 1
SPECIFICATION Spec
INVARIANTS  PricedForParty PaidBeforePlay StampsOnce GamesInOrder ScreenIsReal
SYMMETRY Alike
CHECK_DEADLOCK FALSE
