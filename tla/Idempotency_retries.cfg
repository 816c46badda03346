\* A branch return of two products, one transaction each, sent and sent again under
\* one key while attempts are lost, cut off or half recorded.
SPECIFICATION FairSpec
CONSTANTS
    return = return  b1 = b1  b2 = b2  r1 = r1  r2 = r2  r3 = r3
    Ops = {return}
    Bodies = {b1, b2}
    Requests = {r1, r2, r3}
    MaxParts = 2
    Parts <- MCParts
    Reports = {return}
    MaxFaults = 2
INVARIANTS
    AppliedOnce
    AnswersAreTrue
PROPERTIES
    EveryOpAnswered
CHECK_DEADLOCK FALSE
