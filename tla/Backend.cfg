CONSTANTS
  Tokens = {k1, k2}
  Actions = {a1, a2}
  Callers = {c1, c2}
  Turns = {t1, t2}
  Calls = {look, book, nosuch}
  Known = {look, book}
  Gated = {book}
  Voice = TRUE
  Grants = {g1, g2, g3}
  MaxToolCalls = 2
  MaxBatch = 2
  Conversations = {v1, v2}
  Answered = {q1, q2}
  MaxAttempts = 3
  MaxDeaths = 1
  grok = grok
  claude = claude
  gemini = gemini
  Providers = {grok, claude, gemini}
  Adapter <- AdapterOf
  Orders <- SomeOrders
  LLMCalls = {l1, l2}
  Nobody = Nobody
  Cooldown = 1
  MaxTime = 2
SPECIFICATION BackendSpec
INVARIANTS
  NoReplay
  BudgetKept
  ConfirmedRuns
  WholeTurns
  RouterInv
  RightOnesTried
PROPERTIES
  ImplementsOneShot
  TurnReturns
  ImplementsTurnLog
  EveryRecordEnds
  ImplementsReply
  CallsEnd
CHECK_DEADLOCK FALSE
