\* One unlimited token, one request, one admin.
SPECIFICATION Spec
CONSTANTS
  TokenIds = {t1}
  Secrets = {s1}
  NoSecret = NoSecret
  Limits = {0}
  Requests = {q1}
  Admins = {a1}
  MaxServed = 2
INVARIANT AdmittedRequestsCounted
