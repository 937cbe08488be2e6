CONSTANTS
    None = None
    one = one
    both = both
    nameless = nameless
    Names = {a, b}
    Specs <- MCSpecs
    Refused <- MCRefused
    MaxConfigEdits = 3
SPECIFICATION Spec
INVARIANTS
    ConfigTypeOK
    LoneIsServed
    ReadyIsServed
    OneIsReady
PROPERTIES
    ConfigStatusOfItsSpec
