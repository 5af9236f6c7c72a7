\* Two requests that name the shop or not, die or are slow; one more shop to try.
CONSTANTS
  Request = {r1, r2}
  NamesShop = {r1}
  MaxAlternatives = 1
  Faults = {"death", "stall"}
SPECIFICATION FairSpec
INVARIANTS AtMostTwo
PROPERTIES Separated Confirmed
CHECK_DEADLOCK FALSE
