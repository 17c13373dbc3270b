CONSTANT N = 3
SPECIFICATION FairSpec
CHECK_DEADLOCK FALSE
INVARIANTS OncePerRequest NothingOutlives NoErrorIsSwallowed
PROPERTIES Settles
