\* Three contents and three generations per editor: more requests than the
\* request slot and the result channel (capacity 2, as in the code) can hold.
CONSTANTS
    MaxVersion = 3
    MaxGeneration = 3
    ResultCap = 2
SPECIFICATION Spec
INVARIANTS
    TypeOK
    LastRequestIsShown
PROPERTY TokensFitText
CHECK_DEADLOCK FALSE
