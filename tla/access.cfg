SPECIFICATION ConsoleSpec
CONSTANTS
  Slots = {s1, s2}
  Links = {l1, l2}
  Codes = {c1}
  Pairs = {t1, t2, t3}
  NoArg = NoArg
  Mine = mine
  Addresses = {mine, friend, stranger}
  Allowed = {mine, friend}
  Made = {k1, k2}
  Endpoints = {e1, e2}
  Nothing = Nothing
  MaxCalls = 4
INVARIANTS
  OneOfEach
  OneLivePair
  ShownIsTrue
CHECK_DEADLOCK FALSE
