SPECIFICATION Spec
CONSTANTS
    Addresses = {0, 2}
    Values = {0, 1}
    Zero = 0
    Unknown = Unknown
    Nothing = Nothing
    First = 0
    MinGap = 4
    Access = 1
INVARIANTS
    BusDiscipline
PROPERTIES
    PortSpec
