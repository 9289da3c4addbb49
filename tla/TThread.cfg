SPECIFICATION LiveSpec
CHECK_DEADLOCK FALSE
INVARIANTS TypeOK SemaphorePaired NoUseAfterDestroy SuspendedCreateFinishes
PROPERTIES DestroyEnds ResumeWakes
