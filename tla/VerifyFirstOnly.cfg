SPECIFICATION Spec
CONSTANT Bundles <- MCIndependentDefects
INVARIANT EveryProblemIsReported
