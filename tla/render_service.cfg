\* The loop's frames, a capture, the environment and the shutdown over the executor, and
\* threads that use the executor directly.
SPECIFICATION ServiceFairSpec
CONSTANTS
    MaxSequence = 5
    MaxPendingFrames = 2
    CommandRoom = 1
    MaxYields = 1
    Clients = {mainThread}
    Owner = mainThread
    Textures = {t1}
    Hidden = Hidden
    Users = {"service", "threads"}
    DirectTasks = 3
    MaxChanges = 1
    MaxExtras = 1
    MaxFaults = 1
INVARIANTS
    ExecutorIsSound
    PictureSettles
    
    AnswersAreOwn
PROPERTIES
    ServiceReturns
