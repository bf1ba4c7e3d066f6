SPECIFICATION Spec
CONSTANTS
    MaxWorkers = 2
    Tunnelled <- MCTunnelled
    Names = {"a", "b"}
    MaxNs = 3
    Segments = 3
    Pods = {1}
    Running <- MCTwo
    Suspending <- MCOne
    MaxArtifacts = 1
    Pressured = {1}
    Drainable = {2}
    Psi <- MCPsi
    Failing = {2}
INVARIANT DestroyedOnWorkers
CHECK_DEADLOCK FALSE
