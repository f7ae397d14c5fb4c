SPECIFICATION Spec
CONSTANTS
    None = None
    Settings <- SomeSettings
    Hosts <- SomeHosts
    Disks <- SomeDisks
    Extras <- SecondVersion
INVARIANTS
    BackendHonest
    HealthTruthful
