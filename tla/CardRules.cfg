\* Three cards, two rule groups: a group may move from card to card, be
\* registered again with another lifecycle, and two groups be in play at once.
CONSTANTS
    Tokens = {t1, t2, t3}
    Groups = {g1, g2}
    NoGroup = NoGroup
    SharedGroups = FALSE
SYMMETRY MCSymmetry
SPECIFICATION Spec
INVARIANTS
    TransientFollows
PROPERTY PersistentStays
