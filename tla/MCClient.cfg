\* Serials are 1, 2, 3, then 1 again.  A behaviour takes four of them and builds two C
\* messages.  Calls end once and then nothing is left to do.
SPECIFICATION FairLibSpec
CHECK_DEADLOCK FALSE
CONSTANTS
    Calls = {"hello", "name", "inner", "c1", "c2"}
    Plan <- MCPlan
    Requests <- MCRequests
    Scenarios <- MCScenarios
    Interfaces = {"A", "B"}
    Paths = {"p"}
    SerialRange = 4
    MaxSerials = 4
    MaxRefs = 2
    Slots = {1, 2, 3}
    MaxBuilt = 2
INVARIANTS
    AnswerGoesToItsCall
    SentOnce
PROPERTIES
    CallsReturn
    CallsServed
