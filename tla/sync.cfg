SPECIFICATION Spec
CONSTANTS
    Nibbles <- MCNibbles
    Keys <- MCKeys
    StartKeys <- MCStartKeys
    EndKeys <- MCEndKeys
    Values = {"a"}
    Limits = {1, 2}
    Modes = {"range", "change"}
INVARIANTS CoveredAgrees
PROPERTIES HonestAccepted OnlyTowardTarget RequestsAdvance
CHECK_DEADLOCK FALSE
