CONSTANTS
  r1 = r1
  r2 = r2
  t1 = t1
  t2 = t2
  c1 = c1
  c2 = c2
  s1 = s1
  s2 = s2
  safe = safe
  unsafe = unsafe
  Runs = {r1, r2}
  Threads = {t1, t2}
  Callsites = {c1, c2}
  Spans = {s1, s2}
  Modes = {safe, unsafe}
  CallsiteOf <- MCCallsiteOf
  MaxStarts = 2
  MaxDepth = 2
SPECIFICATION LogSpec
SYMMETRY Symm
\* the bounded runs end and an idle process need not log
CHECK_DEADLOCK FALSE
INVARIANTS
  ScopeFollowsSpans
  EveryCallsiteKnown
PROPERTY RefusedForCause
