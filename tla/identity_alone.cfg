CONSTANTS
    Unset = Unset
    None = None
    weu = weu
    neu = neu
    blue = blue
    zone = zone
    extWeu = extWeu
    extNeu = extNeu
    Regions = {weu, neu}
    Clusters = {blue}
    Zones = {zone}
    Controllers = {extWeu, extNeu}
    Names = {a}
    Deletable = {}
    Identities <- MCIdentities
    Configs <- MCConfigs
    MaxIdentityEdits = 3
SPECIFICATION Spec
INVARIANTS
    AloneIsCurrent
    OthersAreTold
PROPERTIES
    ImplementsNotifiedView
