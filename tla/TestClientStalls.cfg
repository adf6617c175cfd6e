SPECIFICATION FairSpec
CONSTANTS Sessions = {1,2}
 session_count = 1
 loop_count = 2
 Tests = 2
 MaxNotices = 1
PROPERTY TestEnds
CHECK_DEADLOCK FALSE
