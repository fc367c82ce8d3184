CONSTANTS
    Instances = {b1, b2}
    Configs <- MCConfigs
    NoConfig = NoConfig

SPECIFICATION Spec

PROPERTY ImplementsAtomicLoad
