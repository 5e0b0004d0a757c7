SPECIFICATION Spec
CONSTANTS
    Configs <- MCConfigs
    Names <- MCNames
    Client <- MCClient
    Root <- MCRoot
    Answer <- MCAnswer
    Sessions <- MCSessions
    Scenes <- MCScenes
    Ports = {"1", "2"}
INVARIANTS Recoverable Runnable RoutesAgree
PROPERTIES RestoresOwnPolicy
CHECK_DEADLOCK FALSE
