\* Three connections, sockets that hold one message, two polls until an activation
\* times out; every scenario ends, so a state without a successor is no error.
SPECIFICATION FairRoutingSpec
CHECK_DEADLOCK FALSE
CONSTANTS
    Conns <- MCConns
    Names = {"svc", "bad"}
    Services <- MCServices
    Scenarios <- MCScenarios
    Files <- MCFiles
    Questions <- MCQuestions
    Denied <- MCDenied
    Room = 1
    Timeout = 2
    MaxRules = 2
INVARIANTS
    RoutingTypeOK
    AnsweredOnce
    OneCopyEach
    DeliveredRightly
    PromptServiceIsFound
    PolicyFollowsPrecedence
PROPERTIES
    HandlersComeBack
