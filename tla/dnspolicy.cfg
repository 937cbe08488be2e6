CONSTANTS
    Unset = Unset
    None = None
    weu = weu
    neu = neu
    blue = blue
    green = green
    zone = zone
    extWeu = extWeu
    extNeu = extNeu
    Regions = {weu, neu}
    Clusters = {blue, green}
    Zones = {zone}
    Controllers = {extWeu, extNeu}
    Policies = {p1}
    PolicySpecs <- MCPolicySpecs
    Identities <- MCIdentities
    Configs <- MCConfigs
    MaxEdits = 2
SPECIFICATION Spec
INVARIANTS
    PolicyTypeOK
    NoLostWakeUp
    QuiescentCurrent
PROPERTIES
    StatusOfItsSpec
    SelectionStays
    WritesSubside
    PoliciesSettle
