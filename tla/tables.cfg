\* Two requests over two routes, one text and two values of the ignored
\* names; three requests and two admins over one token; two requests in one
\* conversation of three responses.
SPECIFICATION SpecTables
CONSTANTS
  Requests = {r1, r2}
  Routes = {chat, messages}
  Words = {w}
  Ignored = {u1, u2}
  NoAnswer = 0
  TTL = 1
  Sizes = {1, 2}
  Enabled = TRUE
  MaxAnswers = 2
  MaxHits = 1
  TokenIds = {t1}
  Secrets = {s1, s2, s3}
  NoSecret = NoSecret
  Limits = {0, 1, 2}
  Bearers = {q1, q2, q3}
  Admins = {a1, a2}
  MaxServed = 2
  Ids = {i1, i2, i3}
  NoId = NoId
  Conversations = {c1}
  NoConversation = NoConversation
INVARIANTS TablesTypeOK QuotaHolds AnswersItsQuestion FlushedStaysFlushed ListsStoredResponses
PROPERTIES RevocationHolds DeletedAfterRevoked ImplementsLedger ImplementsAnswerCache LiveStaysListed
