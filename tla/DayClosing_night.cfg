\* Two instances close one date and send its summaries, two calls in all:
\* first claims that meet, slow runs, crashes, refusals, lost answers, a
\* branch deactivated and activated again.
SPECIFICATION FairSpec
CONSTANTS
    i1 = i1  i2 = i2
    branch = branch  production = production
    manager = manager  baker = baker
    NoRun = NoRun
    Callers = {i1, i2}
    Scopes = {branch, production}
    Branches = {branch}
    Recipients = {manager, baker}
    Entitled <- MCEntitled
    MaxCalls = 2
    MaxFaults = 1
    MaxTurns = 2
INVARIANTS
    ArchiveIsTheClaimants
    NoSpam
PROPERTIES
    EveryoneReached
CHECK_DEADLOCK FALSE
