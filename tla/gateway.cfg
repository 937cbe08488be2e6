CONSTANTS
    Unset = Unset
    None = None
    weu = weu
    neu = neu
    blue = blue
    here = here
    there = there
    host = host
    main = main
    infra = infra
    apps = apps
    internal = internal
    external = external
    cert = cert
    lbAddress = lbAddress
    Regions = {weu, neu}
    Clusters = {blue}
    Zones = {here, there}
    Controllers = {}
    Routes = {r1}
    Hosts = {host}
    GatewayNames = {main}
    Namespaces = {infra, apps}
    DefaultNamespace = infra
    Ingresses = {internal, external}
    Credentials = {cert}
    Addresses = {lbAddress}
    RouteSpecs <- MCRouteSpecs
    GatewaySpecs <- MCGatewaySpecs
    Identities <- MCIdentities
    MaxGatewayEdits = 2
    MaxDisturbances = 2
SPECIFICATION MCSpec
INVARIANTS
    GatewayTypeOK
    RestServesRoutes
PROPERTIES
    GatewaysSettle
    IstioGatewayStays
    GatewayStatusOfItsSpec
