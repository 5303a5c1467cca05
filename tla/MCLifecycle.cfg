\* Every failing step of main_init, launch_threads and main_cleanup; the
\* program stops at "exit".
SPECIFICATION FairSpec
INVARIANTS TypeOK ThreadsHaveResources EverythingReleased ExitCodeTells
PROPERTY InitFailureEnds
CHECK_DEADLOCK FALSE
