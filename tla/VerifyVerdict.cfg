SPECIFICATION Spec
CONSTANT Bundles <- MCBundles
INVARIANTS TypeOK ValidIsSound GenuineIsValid RowsAreTruthful ParsedOnlyAuthenticated SaltNeverSurfaces
