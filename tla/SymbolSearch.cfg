SPECIFICATION Spec
CONSTANTS
  q1 = q1
  q2 = q2
  fun = fun
  cls = cls
  Queries = {q1, q2}
  Symbols = {fun, cls}
  Langs = {"cpp", "python"}
  KindOf <- Kind
  LangOf <- Lang
  Fts <- Token
  Like <- Inside
  InDoc <- Doc
  Blank = {q2}
  Kinds = {"", "class"}
  Limits = {1}
  Ttl = 2
  Timeout = 1
  MaxFlights = 3
INVARIANTS FallbackHonoursFilters OnceUnlessDoubled ServedIsRecent
CHECK_DEADLOCK FALSE
