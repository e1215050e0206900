SPECIFICATION LostSpec
CONSTANTS
  Keyword = {w1}
  Id = {d1}
  w1 = w1
  d1 = d1
  None = None
  NoSt = 0
  St <- Concat
  Shift <- Digits
  MaxC1 = 3
  MaxC2 = 2
INVARIANT AcceptedIsLive
