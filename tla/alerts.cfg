SPECIFICATION FairSpec
CONSTANTS
  u1 = u1
  u2 = u2
  n1 = n1
  n2 = n2
  Users = {u1, u2}
  Events = {1, 2}
  Wants <- WantsOf
  Notifiers = {n1, n2}
  Limit = 2
  Faults = {"connection", "crash", "unread"}
  MaxFaults = 1
INVARIANTS
  NobodyLeftOut MailsBounded
PROPERTIES
  EventsClosed
