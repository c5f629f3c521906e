SPECIFICATION Spec
CONSTANTS
    Interval = 2
    IntervalSeconds = 1
    MaxTarget = 7
    Miller = {w1}
    Instants = {0, 1, 6}
    MaxBlocks = 5
    MaxExports = 3
INVARIANTS TargetsAgree RetargetFollowsTime SealedStaysValid ArchiveIsAChain
PROPERTY OvertakenGivesUp
CHECK_DEADLOCK FALSE
