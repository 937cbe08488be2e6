----------------------------- MODULE Selection -----------------------------
(***************************************************************************)
(* The vocabulary of the operator and its pure decisions: whether a        *)
(* DNSPolicy applies to this cluster, and which ExternalDNS controllers    *)
(* then publish the DNS records of its namespace.                          *)
(*                                                                         *)
(* Lists of controllers are sets here: the code builds a list of names in  *)
(* the order of the configuration and its readers turn it into a map, so   *)
(* neither the order nor a repetition changes what is published.           *)
(***************************************************************************)
CONSTANTS
    Regions,        \* regions of the fleet
    Clusters,       \* names of clusters
    Zones,          \* domain and environment letter of a cluster
    Controllers,    \* names of ExternalDNS controllers
    Unset,            \* an optional field that is left out: the empty string
    None            \* no object, no value: nil

ASSUME UnsetIsNoName == Unset \notin Regions \cup Clusters

(***************************************************************************)
(* What ClusterIdentity tells a process of the cluster it runs in.         *)
(***************************************************************************)
Identity ==
    [region: Regions, cluster: Clusters, zone: Zones, adopts: SUBSET Regions]

(***************************************************************************)
(* DNSConfiguration: the region of each controller it lists.  The schema   *)
(* of the resource asks for one controller at least.                       *)
(***************************************************************************)
Config == UNION {[listed -> Regions] : listed \in (SUBSET Controllers) \ {{}}}

(***************************************************************************)
(* The spec of a DNSPolicy.  The schema admits the two modes only.         *)
(***************************************************************************)
Modes == {"Active", "RegionBound"}

PolicySpec ==
    [mode: Modes,
     sourceRegion: Regions \cup {Unset},
     sourceCluster: Clusters \cup {Unset}]

\* A constraint that is left out holds of every cluster.
isPolicyActive(spec, id) ==
    /\ spec.sourceRegion \in {Unset, id.region}
    /\ spec.sourceCluster \in {Unset, id.cluster}

\* What the schemas already promise; Reconcile checks it again.
validateDNSPolicy(spec, cfg) == spec.mode \in Modes /\ DOMAIN cfg # {}

(***************************************************************************)
(* determineActiveControllers, one operator per mode.                      *)
(***************************************************************************)
ControllersOf(cfg, regions) == {c \in DOMAIN cfg : cfg[c] \in regions}

determineActiveControllersForActiveMode(id, cfg) ==
    ControllersOf(cfg, {id.region} \cup id.adopts)

determineActiveControllersForRegionBoundMode(cfg) == DOMAIN cfg

determineActiveControllers(spec, id, cfg) ==
    IF spec.mode = "Active"
    THEN determineActiveControllersForActiveMode(id, cfg)
    ELSE determineActiveControllersForRegionBoundMode(cfg)
=============================================================================
