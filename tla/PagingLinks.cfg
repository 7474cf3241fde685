CONSTANTS
  u0 = u0
  u1 = u1
  u2 = u2
  u3 = u3
  foreign = foreign
  Url <- Served
  First = u0
  Allowed <- Trusted
  NoLink = NoLink
  NoStamp = NoStamp
  MaxPages = 4
SPECIFICATION PagingSpec
INVARIANTS RequestsBounded NoLinkTwice WholeListing ErrorsJustified
