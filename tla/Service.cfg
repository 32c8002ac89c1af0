SPECIFICATION Spec
CONSTANTS
    Checkpoint = {0}
    DefaultCheckpoint = 2
    MaxCheckPoint = 2
INVARIANTS TypeOK HandlesClosed
PROPERTIES StopsForGood StopExits ReachesRunning
