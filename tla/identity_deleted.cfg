CONSTANTS
    Unset = Unset
    None = None
    weu = weu
    neu = neu
    blue = blue
    zone = zone
    extWeu = extWeu
    extNeu = extNeu
    Regions = {weu, neu}
    Clusters = {blue}
    Zones = {zone}
    Controllers = {extWeu, extNeu}
    Names = {a}
    Deletable = {a}
    Identities <- MCIdentities
    Configs <- MCNoConfigs
    MaxIdentityEdits = 3
SPECIFICATION Spec
INVARIANTS
    OthersAreTold
