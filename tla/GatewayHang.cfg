CONSTANT Requests = {r1}
SPECIFICATION FairSpec
CHECK_DEADLOCK FALSE
PROPERTIES ResponsesEnd
