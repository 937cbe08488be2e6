CONSTANTS
    Unset = Unset
    None = None
    weu = weu
    neu = neu
    blue = blue
    green = green
    zone = zone
    extWeu = extWeu
    host = host
    main = main
    infra = infra
    public = public
    Regions = {weu, neu}
    Clusters = {blue, green}
    Zones = {zone}
    Controllers = {extWeu}
    Policies = {p1}
    PolicySpecs <- MCPolicySpecs
    MaxEdits = 2
    Routes = {r1}
    Hosts = {host}
    GatewayNames = {main}
    Namespaces = {infra}
    DefaultNamespace = infra
    Postfixes = {public}
    RouteSpecs <- MCRouteSpecs
    MaxRouteEdits = 2
    Identities <- MCIdentities
    Configs <- MCOneConfig
    Name = a
    MaxIdentityEdits = 2
    MaxDisturbances = 1
    MaxFaults = 1
SPECIFICATION MCSpec
INVARIANTS
    RestPublishesSpecified
    RestPublishesSelected
PROPERTIES
    ImplementsPolicyRouting
    SpecifiedSettles
CHECK_DEADLOCK FALSE
