SPECIFICATION Spec
CONSTANTS
    Names = {1, 2, 3}
    MaxCategories = 2
    Messages = {m1}
    MaxPresses = 1
    MaxChanges = 2
    MaxRestarts = 0
PROPERTY PickedIsRanked
CHECK_DEADLOCK FALSE
