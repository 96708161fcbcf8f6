CONSTANT Halves <- Both
SPECIFICATION FairSpec
PROPERTY HandlerAnswers
CHECK_DEADLOCK FALSE
