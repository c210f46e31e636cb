SPECIFICATION Spec
CONSTANTS
    sender = sender
    receiver = receiver
    child = child
    Owners <- MCOwners
    Instance <- MCInstance
    Listeners = {l1, l2}
    Emissions = {e1, e2}
    NoOwner = NoOwner
    Idle = Idle
SYMMETRY Symmetry
PROPERTY DeliveryIsHonest
CHECK_DEADLOCK FALSE
