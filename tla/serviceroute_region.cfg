CONSTANTS
    Unset = Unset
    None = None
    weu = weu
    neu = neu
    blue = blue
    green = green
    zone = zone
    extWeu = extWeu
    extNeu = extNeu
    host = host
    main = main
    infra = infra
    apps = apps
    public = public
    private = private
    Regions = {weu, neu}
    Clusters = {blue, green}
    Zones = {zone}
    Controllers = {extWeu, extNeu}
    Routes = {r1}
    Hosts = {host}
    GatewayNames = {main}
    Namespaces = {infra, apps}
    DefaultNamespace = infra
    Postfixes = {public}
    Policies = {p1}
    RouteSpecs <- MCOneRouteSpec
    PolicyViews <- MCViews
    Identities <- MCIdentities
    Configs <- MCMovedConfigs
    MaxRouteEdits = 2
    MaxDisturbances = 3
SPECIFICATION MCSpec
INVARIANTS
    RegionIsCurrent
