\* Two requests that answer the same response.
SPECIFICATION Spec
CONSTANTS
  Ids = {i1, i2, i3}
  NoId = NoId
  Conversations = {c1}
  NoConversation = NoConversation
  Requests = {r1, r2}
PROPERTIES AppendsFollowTail
