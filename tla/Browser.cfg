SPECIFICATION Spec
CONSTANTS
  s1 = s1
  s2 = s2
  day = day
  week = week
  o1 = o1
  na = na
  nb = nb
  nc = nc
  openai = openai
  azure = azure
  bedrock = bedrock
  Presets = {day, week}
  Dates = {s1, s2}
  DefaultPreset = day
  Limits = {50, 100}
  FirstLimit = 50
  MaxPage = 2
  ListActs = 6
  Sends = {s1, s2}
  OldSessions = {o1}
  MaxBubbles = 2
  Adapters = {openai, azure, bedrock}
  AwsAdapters = {bedrock}
  UrlAdapters = {azure}
  Providers = {openai, bedrock, own}
  LabelOf <- MCLabelOf
  Credentials = {k1, k2}
  BaseUrls = {site}
  Models = {gpt}
  MaxRow = 2
  FormActs = 9
  MaxLost = 1
  KeyNames = {na}
  Word = delete
  MaxKey = 3
  KeyActs = 6
  Traces <- MCTraces
  UserOf <- MCUserOf
  SessionOf <- MCSessionOf
  PageRows = 2
  WayActs = 4
  BillingActs = 7
  MaxEnds = 1
  Titles = {s1, s2}
  Slots = {1, 2}
  Tours <- MCTours
  None = None
  Off = Off
SYMMETRY Symmetry
INVARIANTS
  TypeOK
  DriftNeedsClash
  AloneIsClean
PROPERTY PagesAreFaithful
CHECK_DEADLOCK FALSE
