SPECIFICATION Spec
CONSTANTS
  Tls = TRUE
  Login = TRUE
  Sizes = {1, 2}
  Answers <- SomeAnswers
  MaxRedirects = 2
INVARIANTS
  AnswersInStep
  OneBody
  RetryAfterFailure
PROPERTIES
  ImplementsRemoteClient
  OperationsReturn
