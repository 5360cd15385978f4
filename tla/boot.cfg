SPECIFICATION MCBootSpec
CONSTANTS
    Main = Main
    Reloader = Reloader
    Handler = Handler
    Agents = {1, 2, 3}
    Scenes <- MCScenes
    MaxGen = 2
    Ids = {1, 2, 3, 4}
    Registrars = {r1, r2}
    Descriptions <- MCDescriptions
    Arcs <- MCArcs
    Weights = {1, 3}
    MaxRegisters = 2
INVARIANT OrderSound
INVARIANT BootStartsAll
INVARIANT PathIsShortest
INVARIANT DependenciesComplete
PROPERTY HardDepsRun
PROPERTY DependentsStopFirst
PROPERTY CallsReturn
CHECK_DEADLOCK FALSE
