CONSTANTS
    Unset = Unset
    None = None
    weu = weu
    neu = neu
    blue = blue
    zone = zone
    extWeu = extWeu
    extNeu = extNeu
    internal = internal
    apps = apps
    tools = tools
    address = address
    first = first
    Regions = {weu, neu}
    Clusters = {blue}
    Zones = {zone}
    Controllers = {extWeu, extNeu}
    Gateways = {first, second}
    Ingresses = {internal}
    Postfixes = {apps, tools}
    Addresses = {address}
    Identities <- MCIdentities
    Configs <- MCConfigs
    MaxServices = 2
    MaxDisturbances = 2
SPECIFICATION MCReliableSpec
INVARIANTS
    EveryIngressIsPublished
