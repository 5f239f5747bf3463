SPECIFICATION Spec
CONSTANTS
    m1 = m1
    m2 = m2
    m3 = m3
    Models = {m1, m2, m3}
    Members <- ThreeMembers
    Top = 3
    NoOffer = NoOffer
INVARIANT ChosenIsBest
CHECK_DEADLOCK FALSE
