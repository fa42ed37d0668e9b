CONSTANT MaxGeneration = 2
SPECIFICATION Spec
INVARIANTS
    TypeOK
    ReadyWasAnswered
    NoForgottenObserver
PROPERTIES
    MicrosoftReturns
CHECK_DEADLOCK FALSE
