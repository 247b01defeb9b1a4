SPECIFICATION Spec
CONSTANT Bundles <- MCSingleDefects
INVARIANT NeverRaises
