SPECIFICATION Spec
CONSTANTS
    Clones = {c1, c2}
    N = 2
    MaxRuns = 2
    MaxOutside = 2
SYMMETRY Symmetry
INVARIANT TagMeansReleased
INVARIANT DependenciesFirst
INVARIANT ReleasesResume
INVARIANT ManifestsAreReturned
PROPERTY OthersWorkSurvives
CHECK_DEADLOCK FALSE
