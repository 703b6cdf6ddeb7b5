\* Three processes, descriptors for two requests and one more, and a ring
\* index that wraps around.
SPECIFICATION Spec
CONSTANTS
  Threads = {t1, t2, t3}
  NBLOCK = 3
  NUM = 7
  IDX = 7
  Start = 5
  MaxReqs = 3
  MaxKills = 1
INVARIANTS EachDescOnce CompletionsMatch NoRequestLost
PROPERTIES Transferred
CHECK_DEADLOCK FALSE
