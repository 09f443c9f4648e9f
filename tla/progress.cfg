\* Two requests in one conversation and two responses; two requests and
\* one admin over one key; one request for one question that is cached.
SPECIFICATION SpecProgress
CONSTANTS
  Requests = {r1, r2}
  r1 = r1
  r2 = r2
  Ids = {i1, i2}
  NoId = NoId
  Conversations = {c1}
  NoConversation = NoConversation
  KeyIds = {k1}
  NoKey = NoKey
  ConfigKeys = {k1}
  ConfigDisabled = {}
  RouteOf <- ConvertedAndResponses
  Admins = {a1}
  FailoverEnabled = TRUE
  MaxRetries = 1
  CoolDown = 2
  TicksPerSecond = 2
  Endpoints = {chat}
  Words = {w}
  Ignored = {u1}
  Readers = {q1}
  NoAnswer = 0
  TTL = 1
  Sizes = {1, 2}
  Enabled = TRUE
  MaxAnswers = 2
  MaxHits = 1
PROPERTIES ExpiredForgotten RequestsEnd KeysReturn ExpiredRowsDropped
