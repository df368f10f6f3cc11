SPECIFICATION Spec
CONSTANTS
    Letter = {"n", "N"}
    MaxLength = 6
    Names <- MCNames
    HelpName <- MCHelpName
    DataName <- MCDataName
    ParentName <- MCParentName
    Parameter <- MCParameter
    Service <- MCNames
    Unknown <- MCUnknown
    VOID = VOID
    Missing = Missing
    Garbled = Garbled
    MaxEdits = 1
CHECK_DEADLOCK FALSE
 
PROPERTY ConfigIsServed
