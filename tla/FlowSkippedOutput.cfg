CONSTANTS
    Flows <- SkippingFlows
    MaxArray = 2
SPECIFICATION Spec
PROPERTIES RerunsUseElements
