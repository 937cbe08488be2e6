CONSTANTS
    Unset = Unset
    None = None
    weu = weu
    neu = neu
    blue = blue
    green = green
    zone = zone
    extWeu = extWeu
    extNeu = extNeu
    host = host
    main = main
    infra = infra
    apps = apps
    public = public
    private = private
    Regions = {weu, neu}
    Clusters = {blue, green}
    Zones = {zone}
    Controllers = {extWeu}
    Routes = {r1, r2}
    Hosts = {host}
    GatewayNames = {main}
    Namespaces = {infra}
    DefaultNamespace = infra
    Postfixes = {public}
    Policies = {p1}
    RouteSpecs <- MCOneRouteSpec
    PolicyViews <- MCSwitching
    Identities <- MCOneIdentity
    Configs <- MCWeuConfig
    MaxRouteEdits = 3
    MaxDisturbances = 1
SPECIFICATION MCStartedSpec
PROPERTIES
    RoutesSettle
