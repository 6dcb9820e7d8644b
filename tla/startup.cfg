\* The four workers of conf/config.ini.
CONSTANT ThreadNum = 4
SPECIFICATION FairSpec
INVARIANTS TypeOK RunningMeansAllRegistered
PROPERTIES ParkedMainIsReleased RunningLeadsToServing
CHECK_DEADLOCK FALSE
