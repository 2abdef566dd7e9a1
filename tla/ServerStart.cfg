SPECIFICATION Spec
CONSTANT Givens = {TRUE, FALSE}
CHECK_DEADLOCK FALSE
INVARIANTS TypeOK PresentsGiven TemporariesLiveWithThread
PROPERTIES FailedCreateIsNoticed StartsAnyway
