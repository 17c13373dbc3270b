CONSTANTS
  Requests = {r1, r2}
  Texts = {t1, t2}
  Arrays = {e1, e2}
  Loaded = Loaded
  MaxBody = 3
  MaxChunk = 2
  HotReload = TRUE
SPECIFICATION FairSpec
CHECK_DEADLOCK FALSE
INVARIANTS TypeOK AnsweredOnce NoAddIsLost
PROPERTIES RefusalsChangeNothing RequestsEnd
