CONSTANTS
    MaxNumber = 4
    MinFormSize = 2
    FormTypes = {2, 3}
    MaxWanted = 3
    HowMany = 3
SPECIFICATION Spec
INVARIANTS
    TypeOK
    DistinctForms
    WillBeInEveryForm
    
PROPERTIES
    Terminates
