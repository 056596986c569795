SPECIFICATION Spec
CONSTANTS
    Families = {"groups", "encrypted", "resumed", "authenticated"}
    Configurations <- MCConfigurations

    
PROPERTY
    ImplementsAgreement
CHECK_DEADLOCK FALSE
